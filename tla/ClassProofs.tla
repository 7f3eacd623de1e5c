---------------------------- MODULE ClassProofs ----------------------------
(***************************************************************************)
(* The classes, the containers on an array and the patterns of MCObjects,  *)
(* each for every size of it and every order of its calls; at the end all  *)
(* of them in one, as the run checks them.                                 *)
(***************************************************************************)
EXTENDS MCObjects, FiniteSetTheorems, TLAPS

(* The ring queue.                                                         *)

(* The remainder of C, for the arguments the queue gives it.               *)
LEMMA RemUp == \A a \in 0 .. Cap : Rem(a, Cap) = IF a = Cap THEN 0 ELSE a
<1>1. SUFFICES ASSUME NEW a \in 0 .. Cap PROVE Rem(a, Cap) = IF a = Cap THEN 0 ELSE a
  OBVIOUS
<1>2. CASE a = Cap
  BY <1>2, RingAssumption DEF Rem
<1>3. CASE a < Cap
  <2>1. a % Cap = a
    BY <1>3, RingAssumption
  <2> QED BY <1>3, <2>1, RingAssumption DEF Rem
<1> QED BY <1>2, <1>3, RingAssumption

LEMMA RemBounds == \A a \in (0 - Cap) .. Cap : Rem(a, Cap) \in (1 - Cap) .. (Cap - 1)
<1>1. SUFFICES ASSUME NEW a \in (0 - Cap) .. Cap PROVE Rem(a, Cap) \in (1 - Cap) .. (Cap - 1)
  OBVIOUS
<1>2. CASE a >= 0
  BY <1>2, RemUp, RingAssumption
<1>3. CASE a < 0
  <2>1. -a \in 0 .. Cap /\ Rem(a, Cap) = -((-a) % Cap)
    BY <1>3, RingAssumption DEF Rem
  <2>2. (-a) % Cap \in 0 .. Cap - 1
    BY <2>1, RingAssumption
  <2> QED BY <2>1, <2>2, RingAssumption
<1> QED BY <1>2, <1>3

RingInv == RingTypeOK /\ NothingOverwritten /\ InsideWithoutGetTop

LEMMA RingInvInit == RingInit => RingInv
<1> SUFFICES ASSUME RingInit PROVE RingInv
  OBVIOUS
<1>1. RingTypeOK
  <2>1. topped \in BOOLEAN
    BY DEF RingInit
  <2>2. /\ size \in 0 .. Cap /\ head \in (1 - Cap) .. (Cap - 1) /\ tail \in 0 .. Cap - 1
        /\ cells \in [0 .. Cap - 1 -> Values \cup {Junk}] /\ accepted \in Seq(Values)
        /\ served \in 0 .. Cap /\ out \in Values \cup {Junk}
    BY RingAssumption DEF RingInit
  <2> QED BY <2>1, <2>2 DEF RingTypeOK
<1>2. NothingOverwritten
  BY RingAssumption DEF RingInit, NothingOverwritten
<1>3. InsideWithoutGetTop
  BY RingAssumption DEF RingInit, InsideWithoutGetTop
<1> QED BY <1>1, <1>2, <1>3 DEF RingInv

LEMMA EnqueueStep == ASSUME RingInv, NEW v \in Values, Enqueue(v) PROVE RingInv'
<1> USE RingAssumption DEF RingInv, Enqueue, CheckSize
<1>1. size \in 0 .. Cap - 1 /\ tail = size /\ Len(accepted) = size
  BY DEF RingTypeOK, NothingOverwritten
<1>2. tail' = IF size + 1 = Cap THEN 0 ELSE size + 1
  BY <1>1, RemUp
<1>3. RingTypeOK'
  BY <1>1, <1>2 DEF RingTypeOK
<1>4. NothingOverwritten'
  <2>1. accepted' = Append(accepted, v) /\ Len(accepted') = size + 1
    BY <1>1 DEF RingTypeOK
  <2>2. \A k \in 1 .. size : accepted'[k] = accepted[k] /\ cells'[k - 1] = cells[k - 1]
    BY <1>1, <2>1 DEF RingTypeOK
  <2>3. accepted'[size + 1] = v /\ cells'[size] = v
    BY <1>1, <2>1 DEF RingTypeOK
  <2> QED BY <1>1, <1>2, <2>1, <2>2, <2>3 DEF NothingOverwritten, RingTypeOK
<1>5. InsideWithoutGetTop'
  BY DEF InsideWithoutGetTop, RingTypeOK
<1> QED BY <1>3, <1>4, <1>5

LEMMA ReadHeadType == RingTypeOK => ReadHead \in Values \cup {Junk}
  BY DEF RingTypeOK, ReadHead

LEMMA DequeueStep == ASSUME RingInv, Dequeue PROVE RingInv'
<1> USE RingAssumption DEF RingInv, Dequeue, Served
<1>1. PICK h \in {head, head + 1} : head' = Rem(h, Cap)
  OBVIOUS
<1>2. h \in (0 - Cap) .. Cap
  BY <1>1 DEF RingTypeOK
<1>3. RingTypeOK'
  <2>1. topped' = topped /\ topped \in BOOLEAN /\ size' = size /\ tail' = tail
        /\ cells' = cells /\ accepted' = accepted
    BY DEF RingTypeOK
  <2>2. head' \in (1 - Cap) .. (Cap - 1)
    BY <1>1, <1>2, RemBounds
  <2>3. served' \in 0 .. Cap
    BY DEF RingTypeOK
  <2>4. out' \in Values \cup {Junk}
    BY ReadHeadType
  <2> QED BY <2>1, <2>2, <2>3, <2>4 DEF RingTypeOK
<1>4. NothingOverwritten'
  BY DEF NothingOverwritten
<1>5. InsideWithoutGetTop'
  <2>1. topped' = topped /\ DOMAIN cells' = 0 .. Cap - 1 /\ DOMAIN cells = 0 .. Cap - 1
    BY DEF RingTypeOK
  <2>2. CASE ~topped
    <3>1. h \in 0 .. Cap
      BY <1>1, <2>1, <2>2 DEF InsideWithoutGetTop
    <3> QED BY <1>1, <2>1, <3>1, RemUp DEF InsideWithoutGetTop
  <2> QED BY <2>1, <2>2 DEF InsideWithoutGetTop
<1> QED BY <1>3, <1>4, <1>5

LEMMA GetTopStep == ASSUME RingInv, GetTop PROVE RingInv'
<1> USE RingAssumption DEF RingInv, GetTop
<1>1. head - 1 \in (0 - Cap) .. Cap
  BY DEF RingTypeOK
<1>2. RingTypeOK'
  BY <1>1, RemBounds, ReadHeadType DEF RingTypeOK
<1> QED BY <1>2 DEF NothingOverwritten, InsideWithoutGetTop

LEMMA RingInvStep == RingInv /\ [RingNext]_ringVars => RingInv'
<1> SUFFICES ASSUME RingInv, [RingNext]_ringVars PROVE RingInv'
  OBVIOUS
<1>1. CASE Refuse \/ UNCHANGED ringVars
  BY <1>1 DEF Refuse, ringVars, RingInv, RingTypeOK, NothingOverwritten, InsideWithoutGetTop
<1> QED BY <1>1, EnqueueStep, DequeueStep, GetTopStep DEF RingNext

LEMMA RingInvAlways == RingSpec => []RingInv
  BY RingInvInit, RingInvStep, PTL DEF RingSpec

(* The head may go below the array, by less than its capacity.             *)
THEOREM RingTypes == RingSpec => []RingTypeOK
<1>1. RingInv => RingTypeOK
  BY DEF RingInv
<1> QED BY <1>1, RingInvAlways, PTL

(* No call ever overwrites a value that was accepted (Queue.cpp).          *)
THEOREM NoValueIsOverwritten == RingSpec => []NothingOverwritten
<1>1. RingInv => NothingOverwritten
  BY DEF RingInv
<1> QED BY <1>1, RingInvAlways, PTL

(* Without GetTop every read is of a cell of the array (Queue.cpp:70-71).  *)
THEOREM ReadsInside == RingSpec => []InsideWithoutGetTop
<1>1. RingInv => InsideWithoutGetTop
  BY DEF RingInv
<1> QED BY <1>1, RingInvAlways, PTL

LEMMA FullStays == [RingNext]_ringVars => (size = Cap => size' = Cap /\ accepted' = accepted)
<1> SUFFICES ASSUME size = Cap, [RingNext]_ringVars PROVE size' = Cap /\ accepted' = accepted
  OBVIOUS
<1> USE RingAssumption
<1>1. \A v \in Values : ~Enqueue(v)
  BY DEF Enqueue, CheckSize
<1> QED BY <1>1 DEF RingNext, Refuse, Dequeue, GetTop, ringVars

(* A queue that has been full stays so and takes nothing any more: no call *)
(* ever makes m_QueueSize smaller.                                         *)
THEOREM RefusesForGood == RingSpec => FullForGood
  BY FullStays, PTL DEF RingSpec, FullForGood

-----------------------------------------------------------------------------
(* The objects that share a string.                                        *)

Own(f, b) == {o \in Objects : f[o] = b}         \* who holds b if f is ps

LEMMA OwnersAreOwn == ASSUME NEW b \in Blocks PROVE Owners(b) = Own(ps, b)
  BY PointAssumption DEF Owners, Own, Alive, None

LEMMA OwnFinite ==
  ASSUME NEW f, NEW b
  PROVE  IsFiniteSet(Own(f, b)) /\ Cardinality(Own(f, b)) \in 0 .. Cardinality(Objects)
<1>1. Own(f, b) \subseteq Objects
  BY DEF Own
<1>2. IsFiniteSet(Own(f, b)) /\ Cardinality(Own(f, b)) <= Cardinality(Objects)
  BY <1>1, FS_Subset, PointAssumption
<1>3. Cardinality(Own(f, b)) \in Nat /\ Cardinality(Objects) \in Nat
  BY <1>2, FS_CardinalityType, PointAssumption
<1> QED BY <1>2, <1>3

(* An object that changes its block leaves one set of owners and joins     *)
(* another.                                                                *)
LEMMA OwnMoves ==
  ASSUME NEW f \in [Objects -> Blocks \cup {None}], NEW g \in [Objects -> Blocks \cup {None}],
         NEW o \in Objects, \A q \in Objects \ {o} : g[q] = f[q], NEW b \in Blocks
  PROVE  Cardinality(Own(g, b)) = Cardinality(Own(f, b)) + (IF g[o] = b THEN 1 ELSE 0)
                                                          - (IF f[o] = b THEN 1 ELSE 0)
<1>0. IsFiniteSet(Own(f, b)) /\ IsFiniteSet(Own(g, b))
      /\ Cardinality(Own(f, b)) \in Nat /\ Cardinality(Own(g, b)) \in Nat
  BY OwnFinite, FS_CardinalityType
<1>1. CASE g[o] = b /\ f[o] # b
  <2>1. Own(g, b) = Own(f, b) \cup {o} /\ o \notin Own(f, b)
    BY <1>1 DEF Own
  <2>2. Cardinality(Own(g, b)) = Cardinality(Own(f, b)) + 1
    BY <1>0, <2>1, FS_AddElement
  <2> QED BY <1>0, <1>1, <2>2
<1>2. CASE g[o] # b /\ f[o] = b
  <2>1. Own(g, b) = Own(f, b) \ {o} /\ o \in Own(f, b)
    BY <1>2 DEF Own
  <2>2. Cardinality(Own(g, b)) = Cardinality(Own(f, b)) - 1
    BY <1>0, <2>1, FS_RemoveElement
  <2> QED BY <1>0, <1>2, <2>2
<1>3. CASE (g[o] = b) = (f[o] = b)
  <2>1. Own(g, b) = Own(f, b)
    BY <1>3 DEF Own
  <2> QED BY <1>0, <1>3, <2>1
<1> QED BY <1>1, <1>2, <1>3

FreedIsBoolean == freed \in BOOLEAN
Shapes == /\ ps \in [Objects -> Blocks \cup {None}] /\ i \in [Objects -> Numbers]
          /\ use \in [Blocks -> Nat]
Counted == \A b \in Blocks : use[b] = Cardinality(Own(ps, b))
PointInv == Shapes /\ Counted /\ SharedAlike

LEMMA AloneIsCounted ==
  ASSUME Shapes, Counted, NEW o \in Objects, ps[o] \in Blocks
  PROVE  use[ps[o]] > 0
<1>1. o \in Own(ps, ps[o])
  BY DEF Own
<1>2. Cardinality(Own(ps, ps[o])) # 0
  BY <1>1, OwnFinite, FS_EmptySet
<1> QED BY <1>2 DEF Shapes, Counted

LEMMA PointInvInit == Init => PointInv
<1> SUFFICES ASSUME Init PROVE PointInv
  OBVIOUS
<1>1. Shapes
  <2>1. (CHOOSE n \in Numbers : TRUE) \in Numbers
    BY PointAssumption
  <2> QED BY <2>1 DEF Init, Shapes
<1>2. \A b \in Blocks : Own(ps, b) = {}
  BY PointAssumption DEF Init, Own, None
<1>3. Counted
  BY <1>2, FS_EmptySet DEF Counted, Init
<1>4. SharedAlike
  BY DEF Init, SharedAlike, Alive
<1> QED BY <1>1, <1>3, <1>4 DEF PointInv

LEMMA ConstructStep == ASSUME PointInv, NEW o \in Objects, Construct(o) PROVE PointInv'
<1>1. PICK b \in Free, n \in Numbers :
        ps' = [ps EXCEPT ![o] = b] /\ use' = [use EXCEPT ![b] = 1] /\ i' = [i EXCEPT ![o] = n]
  BY DEF Construct
<1>2. b \in Blocks /\ use[b] = 0 /\ ps[o] = None
  BY <1>1 DEF Free, Construct
<1>3. Shapes'
  BY <1>1, <1>2 DEF PointInv, Shapes
<1>4. Counted'
  <2> SUFFICES ASSUME NEW d \in Blocks PROVE use'[d] = Cardinality(Own(ps', d))
    BY DEF Counted
  <2>1. Cardinality(Own(ps', d)) =
          Cardinality(Own(ps, d)) + (IF b = d THEN 1 ELSE 0) - (IF ps[o] = d THEN 1 ELSE 0)
    <3>1. /\ ps \in [Objects -> Blocks \cup {None}] /\ ps' \in [Objects -> Blocks \cup {None}]
          /\ ps'[o] = b /\ \A q \in Objects \ {o} : ps'[q] = ps[q]
      BY <1>1, <1>2 DEF PointInv, Shapes
    <3> QED BY <3>1, OwnMoves
  <2>2. ps[o] # d
    BY <1>2, PointAssumption DEF None
  <2>3. Cardinality(Own(ps, d)) = use[d] /\ use[d] \in Nat
    BY DEF PointInv, Counted, Shapes
  <2> QED BY <1>1, <1>2, <2>1, <2>2, <2>3 DEF PointInv, Shapes
<1>5. SharedAlike'
  <2>1. \A q \in Objects : ps[q] # b
    BY <1>2, AloneIsCounted DEF PointInv
  <2> QED BY <1>1, <1>2, <2>1 DEF PointInv, Shapes, SharedAlike, Alive
<1> QED BY <1>3, <1>4, <1>5 DEF PointInv

LEMMA CopyStep ==
  ASSUME PointInv, NEW o \in Objects, NEW ref \in Objects, Copy(o, ref)
  PROVE  PointInv'
<1>1. /\ ps[o] = None /\ ps[ref] \in Blocks /\ ps' = [ps EXCEPT ![o] = ps[ref]]
      /\ i' = [i EXCEPT ![o] = i[ref]] /\ use' = [use EXCEPT ![ps[ref]] = use[ps[ref]] + 1]
  BY DEF Copy, PointInv, Shapes
<1>2. Shapes'
  BY <1>1 DEF PointInv, Shapes
<1>3. Counted'
  <2> SUFFICES ASSUME NEW d \in Blocks PROVE use'[d] = Cardinality(Own(ps', d))
    BY DEF Counted
  <2>1. Cardinality(Own(ps', d)) =
          Cardinality(Own(ps, d)) + (IF ps[ref] = d THEN 1 ELSE 0) - (IF ps[o] = d THEN 1 ELSE 0)
    <3>1. /\ ps \in [Objects -> Blocks \cup {None}] /\ ps' \in [Objects -> Blocks \cup {None}]
          /\ ps'[o] = ps[ref] /\ \A q \in Objects \ {o} : ps'[q] = ps[q]
      BY <1>1 DEF PointInv, Shapes
    <3> QED BY <3>1, OwnMoves
  <2>2. ps[o] # d
    BY <1>1, PointAssumption DEF None
  <2>3. Cardinality(Own(ps, d)) = use[d] /\ use[d] \in Nat
    BY DEF PointInv, Counted, Shapes
  <2> QED BY <1>1, <2>1, <2>2, <2>3 DEF PointInv, Shapes
<1>4. SharedAlike'
  BY <1>1 DEF PointInv, Shapes, SharedAlike, Alive
<1> QED BY <1>2, <1>3, <1>4 DEF PointInv

LEMMA AssignStep ==
  ASSUME PointInv, NEW o \in Objects, NEW ref \in Objects, Assign(o, ref)
  PROVE  PointInv'
<1> DEFINE kept == [use EXCEPT ![ps[ref]] = use[ps[ref]] + 1]
<1>1. /\ ps[o] \in Blocks /\ ps[ref] \in Blocks /\ ps' = [ps EXCEPT ![o] = ps[ref]]
      /\ i' = [i EXCEPT ![o] = i[ref]] /\ use' = [kept EXCEPT ![ps[o]] = kept[ps[o]] - 1]
  BY DEF Assign, PointInv, Shapes
<1>2. use[ps[o]] > 0 /\ use \in [Blocks -> Nat]
  BY <1>1, AloneIsCounted DEF PointInv, Shapes
<1>3. /\ use' \in [Blocks -> Nat]
      /\ \A d \in Blocks : use'[d] = use[d] + (IF ps[ref] = d THEN 1 ELSE 0) - (IF ps[o] = d THEN 1 ELSE 0)
  BY <1>1, <1>2
<1>4. Shapes'
  BY <1>1, <1>3 DEF PointInv, Shapes
<1>5. Counted'
  <2> SUFFICES ASSUME NEW d \in Blocks PROVE use'[d] = Cardinality(Own(ps', d))
    BY DEF Counted
  <2>1. Cardinality(Own(ps', d)) =
          Cardinality(Own(ps, d)) + (IF ps[ref] = d THEN 1 ELSE 0) - (IF ps[o] = d THEN 1 ELSE 0)
    <3>1. /\ ps \in [Objects -> Blocks \cup {None}] /\ ps' \in [Objects -> Blocks \cup {None}]
          /\ ps'[o] = ps[ref] /\ \A q \in Objects \ {o} : ps'[q] = ps[q]
      BY <1>1 DEF PointInv, Shapes
    <3> QED BY <3>1, OwnMoves
  <2>2. Cardinality(Own(ps, d)) = use[d]
    BY DEF PointInv, Counted
  <2> QED BY <1>3, <2>1, <2>2
<1>6. SharedAlike'
  BY <1>1 DEF PointInv, Shapes, SharedAlike, Alive
<1> QED BY <1>4, <1>5, <1>6 DEF PointInv

LEMMA DestroyStep == ASSUME PointInv, NEW o \in Objects, Destroy(o) PROVE PointInv'
<1>1. /\ ps[o] \in Blocks /\ ps' = [ps EXCEPT ![o] = None] /\ i' = i
      /\ use' = [use EXCEPT ![ps[o]] = use[ps[o]] - 1]
  BY DEF Destroy, PointInv, Shapes
<1>2. use[ps[o]] > 0 /\ use \in [Blocks -> Nat]
  BY <1>1, AloneIsCounted DEF PointInv, Shapes
<1>3. Shapes'
  BY <1>1, <1>2 DEF PointInv, Shapes
<1>4. Counted'
  <2> SUFFICES ASSUME NEW d \in Blocks PROVE use'[d] = Cardinality(Own(ps', d))
    BY DEF Counted
  <2>1. Cardinality(Own(ps', d)) =
          Cardinality(Own(ps, d)) + (IF None = d THEN 1 ELSE 0) - (IF ps[o] = d THEN 1 ELSE 0)
    <3>1. /\ ps \in [Objects -> Blocks \cup {None}] /\ ps' \in [Objects -> Blocks \cup {None}]
          /\ ps'[o] = None /\ \A q \in Objects \ {o} : ps'[q] = ps[q]
      BY <1>1 DEF PointInv, Shapes
    <3> QED BY <3>1, OwnMoves
  <2>2. None # d
    BY PointAssumption DEF None
  <2>3. Cardinality(Own(ps, d)) = use[d]
    BY DEF PointInv, Counted
  <2> QED BY <1>1, <1>2, <2>1, <2>2, <2>3
<1>5. SharedAlike'
  BY <1>1 DEF PointInv, Shapes, SharedAlike, Alive
<1> QED BY <1>3, <1>4, <1>5 DEF PointInv

LEMMA PointInvStep == PointInv /\ [Next]_vars => PointInv'
<1> SUFFICES ASSUME PointInv, [Next]_vars PROVE PointInv'
  OBVIOUS
<1>1. CASE UNCHANGED vars
  BY <1>1 DEF vars, PointInv, Shapes, Counted, SharedAlike, Alive
<1> QED BY <1>1, ConstructStep, CopyStep, AssignStep, DestroyStep DEF Next

LEMMA PointInvAlways == Spec => []PointInv
  BY PointInvInit, PointInvStep, PTL DEF Spec

(* The counter of every block is the number of its owners, whatever is     *)
(* copied, assigned, also to itself, and destroyed (point_class.cpp).      *)
THEOREM CounterIsOwners == Spec => []CountsOwners
<1>1. PointInv => CountsOwners
  BY OwnersAreOwn DEF PointInv, Counted, CountsOwners
<1> QED BY <1>1, PointInvAlways, PTL

LEMMA FreedStays == FreedIsBoolean /\ [Next]_vars => FreedIsBoolean'
<1> SUFFICES ASSUME freed \in BOOLEAN, [Next]_vars PROVE freed' \in BOOLEAN
  BY DEF FreedIsBoolean
<1>1. ASSUME NEW o \in Objects, Construct(o) \/ Destroy(o) PROVE freed' \in BOOLEAN
  BY <1>1 DEF Construct, Destroy
<1>2. ASSUME NEW o \in Objects, NEW ref \in Objects, Copy(o, ref) \/ Assign(o, ref) PROVE freed' \in BOOLEAN
  BY <1>2 DEF Copy, Assign
<1>3. CASE UNCHANGED vars
  BY <1>3 DEF vars
<1> QED BY <1>1, <1>2, <1>3 DEF Next

LEMMA PointMeaning == PointInv /\ FreedIsBoolean => TypeOK /\ SharedAlike
<1>1. PointInv => use \in [Blocks -> 0 .. Cardinality(Objects)]
  BY OwnFinite DEF PointInv, Shapes, Counted
<1> QED BY <1>1 DEF PointInv, Shapes, TypeOK, FreedIsBoolean

(* The variables never leave their types; the counter is at most the       *)
(* number of objects.                                                      *)
THEOREM PointTypes == Spec => []TypeOK
<1>1. Init => FreedIsBoolean
  BY DEF Init, FreedIsBoolean
<1>2. Spec => []FreedIsBoolean
  BY <1>1, FreedStays, PTL DEF Spec
<1> QED BY <1>2, PointMeaning, PointInvAlways, PTL

(* Owners of one block agree on the number.                                *)
THEOREM OwnersAgree == Spec => []SharedAlike
<1>1. PointInv => SharedAlike
  BY DEF PointInv
<1> QED BY <1>1, PointInvAlways, PTL

(* The destructor of an object that nobody shares its block with, and      *)
(* nothing else, reads the deleted counter.                                *)
LEMMA AloneIsOne ==
  ASSUME PointInv, NEW o \in Objects, ps[o] \in Blocks
  PROVE  use[ps[o]] = 1 <=> Own(ps, ps[o]) = {o}
<1>1. o \in Own(ps, ps[o]) /\ IsFiniteSet(Own(ps, ps[o])) /\ use[ps[o]] = Cardinality(Own(ps, ps[o]))
  BY OwnFinite DEF Own, PointInv, Counted
<1>2. ASSUME Cardinality(Own(ps, ps[o])) = 1 PROVE Own(ps, ps[o]) = {o}
  <2>1. PICK x : Own(ps, ps[o]) = {x}
    BY <1>1, <1>2, FS_Singleton
  <2> QED BY <1>1, <2>1
<1>3. Cardinality({o}) = 1
  BY FS_Singleton
<1> QED BY <1>1, <1>2, <1>3

LEMMA DeletedIsRead == ASSUME PointInv, Next PROVE ReadIfLast
<1> USE DEF PointInv, Shapes, None
<1>1. \A o \in Alive : o \in Objects /\ ps[o] \in Blocks /\ ps[o] # None
  BY DEF Alive
<1>2. ASSUME NEW o \in Objects, Construct(o) \/ \E ref \in Objects : Copy(o, ref) \/ Assign(o, ref)
      PROVE  freed' = FALSE /\ \A q \in Alive : ps'[q] # None
  <2>1. CASE Construct(o)
    BY <1>1, <2>1, PointAssumption DEF Construct, Free
  <2>2. ASSUME NEW ref \in Objects, Copy(o, ref) \/ Assign(o, ref)
        PROVE  freed' = FALSE /\ \A q \in Alive : ps'[q] # None
    <3>1. ps[ref] # None /\ ps' = [ps EXCEPT ![o] = ps[ref]] /\ freed' = FALSE
      BY <2>2 DEF Copy, Assign
    <3> QED BY <1>1, <3>1
  <2> QED BY <1>2, <2>1, <2>2
<1>3. ASSUME NEW o \in Objects, Destroy(o) PROVE freed' <=> LastOwnerGoes
  <2>1. /\ ps[o] \in Blocks /\ o \in Alive /\ ps' = [ps EXCEPT ![o] = None]
        /\ freed' <=> (use[ps[o]] = 1)
    BY <1>3 DEF Destroy, Alive
  <2>2. freed' <=> Owners(ps[o]) = {o}
    BY <2>1, AloneIsOne, OwnersAreOwn
  <2>3. ps'[o] = None /\ \A q \in Alive \ {o} : ps'[q] # None
    BY <1>1, <2>1
  <2> QED BY <2>1, <2>2, <2>3 DEF LastOwnerGoes
<1> QED BY <1>2, <1>3 DEF Next, LastOwnerGoes, ReadIfLast

-----------------------------------------------------------------------------
(* The strings of value_class.  A string in use has exactly one object.    *)
ValueInv ==
  /\ vPs \in [Holders -> Strings \cup {"none"}] /\ text \in [Strings -> Texts \cup {"free"}]
  /\ DOMAIN vI = Holders /\ DOMAIN value = Holders
  /\ \A o, q \in Holders : vPs[o] # "none" /\ vPs[o] = vPs[q] => o = q
  /\ \A b \in Strings : text[b] # "free" <=> \E o \in Holders : vPs[o] = b
  /\ \A o \in Holders : vPs[o] # "none" => text[vPs[o]] = value[o][1]
  /\ \A o \in Holders : vPs[o] # "none" /\ o \notin unset => vI[o] = value[o][2]

LEMMA ValueInit == VC!Init => ValueInv
<1> SUFFICES ASSUME VC!Init PROVE ValueInv
  OBVIOUS
<1> USE DEF VC!Init, VC!None
<1>1. /\ vPs = [o \in Holders |-> "none"] /\ text = [b \in Strings |-> "free"]
      /\ DOMAIN vI = Holders /\ DOMAIN value = Holders
  OBVIOUS
<1> QED BY <1>1, ObjectsAssumption DEF ValueInv, VC!ValueAssumption

(* A new string with its object, whatever is put in it.                    *)
LEMMA PlaceStep ==
  ASSUME ValueInv, NEW o \in Holders, NEW s \in Texts, NEW n, NEW should, should[1] = s,
         vPs[o] = "none", VC!Place(o, s, n, should),
         \A q \in Holders \ {o} : q \notin unset' => q \notin unset,
         o \notin unset' => n = should[2]
  PROVE  ValueInv'
<1>1. PICK b \in Strings : /\ text[b] = "free" /\ vPs' = [vPs EXCEPT ![o] = b] /\ text' = [text EXCEPT ![b] = s]
                           /\ vI' = [vI EXCEPT ![o] = n] /\ value' = [value EXCEPT ![o] = should]
  BY DEF VC!Place, VC!Free
<1>2. s # "free" /\ b # "none" /\ \A q \in Holders : vPs[q] # b
  BY <1>1, ObjectsAssumption DEF ValueInv, VC!ValueAssumption
<1>3. /\ vPs'[o] = b /\ vI'[o] = n /\ value'[o] = should /\ text'[b] = s
      /\ \A q \in Holders \ {o} : vPs'[q] = vPs[q] /\ vI'[q] = vI[q] /\ value'[q] = value[q]
      /\ \A d \in Strings \ {b} : text'[d] = text[d]
  BY <1>1 DEF ValueInv
<1>4. /\ vPs' \in [Holders -> Strings \cup {"none"}] /\ text' \in [Strings -> Texts \cup {"free"}]
      /\ DOMAIN vI' = Holders /\ DOMAIN value' = Holders
  BY <1>1 DEF ValueInv
<1>5. \A q \in Holders \ {o} : vPs'[q] # "none" => vPs'[q] \in Strings \ {b}
  BY <1>2, <1>3 DEF ValueInv
<1>6. \A p, q \in Holders : vPs'[p] # "none" /\ vPs'[p] = vPs'[q] => p = q
  BY <1>2, <1>3 DEF ValueInv
<1>7. ASSUME NEW d \in Strings PROVE text'[d] # "free" <=> \E q \in Holders : vPs'[q] = d
  <2>1. CASE d = b
    BY <1>2, <1>3, <2>1
  <2>2. CASE d # b
    <3>1. text'[d] = text[d] /\ vPs[o] # d /\ vPs'[o] # d
      BY <1>3, <2>2, ObjectsAssumption DEF VC!ValueAssumption
    <3> QED BY <1>3, <3>1 DEF ValueInv
  <2> QED BY <2>1, <2>2
<1>8. \A q \in Holders : vPs'[q] # "none" => text'[vPs'[q]] = value'[q][1]
  BY <1>3, <1>5 DEF ValueInv
<1>9. \A q \in Holders : vPs'[q] # "none" /\ q \notin unset' => vI'[q] = value'[q][2]
  BY <1>3 DEF ValueInv
<1> QED BY <1>4, <1>6, <1>7, <1>8, <1>9 DEF ValueInv

LEMMA ValueAssign ==
  ASSUME ValueInv, NEW o \in Holders, NEW ref \in Holders, VC!Assign(o, ref)
  PROVE  ValueInv'
<1>0. vPs[o] \in Strings /\ vPs[ref] \in Strings /\ vPs[o] # "none" /\ vPs[ref] # "none"
  BY DEF VC!Assign, VC!None, ValueInv
<1>1. PICK b \in Strings : /\ text[b] = "free" /\ vPs' = [vPs EXCEPT ![o] = b]
                           /\ text' = [text EXCEPT ![b] = text[vPs[ref]], ![vPs[o]] = "free"]
  BY DEF VC!Assign, VC!Free
<1>2. /\ vI' = [vI EXCEPT ![o] = vI[ref]] /\ value' = [value EXCEPT ![o] = value[ref]]
      /\ unset' = IF ref \in unset THEN unset \cup {o} ELSE unset \ {o}
  BY DEF VC!Assign, VC!Spread
<1>3. b # "none" /\ \A q \in Holders : vPs[q] # b
  BY <1>1, ObjectsAssumption DEF ValueInv, VC!ValueAssumption
<1>4. text[vPs[ref]] # "free" /\ text[vPs[ref]] = value[ref][1]
  BY <1>0 DEF ValueInv
<1>5. /\ vPs'[o] = b /\ vI'[o] = vI[ref] /\ value'[o] = value[ref]
      /\ text'[b] = text[vPs[ref]] /\ text'[vPs[o]] = "free"
      /\ \A q \in Holders \ {o} : vPs'[q] = vPs[q] /\ vI'[q] = vI[q] /\ value'[q] = value[q]
      /\ \A d \in Strings \ {b, vPs[o]} : text'[d] = text[d]
  BY <1>0, <1>1, <1>2, <1>3 DEF ValueInv
<1>6. /\ vPs' \in [Holders -> Strings \cup {"none"}] /\ text' \in [Strings -> Texts \cup {"free"}]
      /\ DOMAIN vI' = Holders /\ DOMAIN value' = Holders
  BY <1>0, <1>1, <1>2 DEF ValueInv
<1>7. \A q \in Holders \ {o} : vPs[q] # vPs[o] /\ (vPs[q] # "none" => vPs[q] \in Strings \ {b, vPs[o]})
  BY <1>0, <1>3 DEF ValueInv
<1>8. \A p, q \in Holders : vPs'[p] # "none" /\ vPs'[p] = vPs'[q] => p = q
  BY <1>3, <1>5 DEF ValueInv
<1>9. ASSUME NEW d \in Strings PROVE text'[d] # "free" <=> \E q \in Holders : vPs'[q] = d
  <2>1. CASE d = b
    BY <1>4, <1>5, <2>1
  <2>2. CASE d = vPs[o]
    BY <1>3, <1>5, <1>7, <2>2
  <2>3. CASE d # b /\ d # vPs[o]
    BY <1>5, <2>3 DEF ValueInv
  <2> QED BY <2>1, <2>2, <2>3
<1>10. \A q \in Holders : vPs'[q] # "none" => text'[vPs'[q]] = value'[q][1]
  BY <1>4, <1>5, <1>7 DEF ValueInv
<1>11. \A q \in Holders : vPs'[q] # "none" /\ q \notin unset' => vI'[q] = value'[q][2]
  BY <1>0, <1>2, <1>5 DEF ValueInv
<1> QED BY <1>6, <1>8, <1>9, <1>10, <1>11 DEF ValueInv

LEMMA ValueStep == ValueInv /\ [VC!Next]_valueVars => ValueInv'
<1> SUFFICES ASSUME ValueInv, [VC!Next]_valueVars PROVE ValueInv'
  OBVIOUS
<1>1. CASE UNCHANGED valueVars
  BY <1>1 DEF valueVars, ValueInv
<1>2. ASSUME NEW o \in Holders, VC!Default(o) PROVE ValueInv'
  <2>1. "" \in Texts /\ vPs[o] = "none" /\ VC!Place(o, "", 0, <<"", 0>>) /\ unset' = unset \ {o}
    BY <1>2, ObjectsAssumption DEF VC!Default, VC!None, VC!ValueAssumption
  <2> QED BY <2>1, PlaceStep
<1>3. ASSUME NEW o \in Holders, NEW s \in Texts, NEW n \in OwnNumbers, VC!Construct(o, s, n) PROVE ValueInv'
  <2>1. PICK garbage \in OwnNumbers : VC!Place(o, s, garbage, <<s, n>>)
    BY <1>3 DEF VC!Construct
  <2>2. vPs[o] = "none" /\ unset' = unset \cup {o}
    BY <1>3 DEF VC!Construct, VC!None
  <2> QED BY <2>1, <2>2, PlaceStep
<1>4. ASSUME NEW o \in Holders, NEW ref \in Holders, VC!Copy(o, ref) PROVE ValueInv'
  <2>1. /\ vPs[o] = "none" /\ vPs[ref] # "none" /\ VC!Place(o, text[vPs[ref]], vI[ref], value[ref])
        /\ unset' = IF ref \in unset THEN unset \cup {o} ELSE unset \ {o}
    BY <1>4 DEF VC!Copy, VC!None, VC!Spread
  <2>2. vPs[ref] \in Strings /\ text[vPs[ref]] = value[ref][1] /\ text[vPs[ref]] # "free"
    BY <2>1 DEF ValueInv
  <2>3. text[vPs[ref]] \in Texts
    BY <2>2 DEF ValueInv
  <2>4. o # ref /\ (o \notin unset' => vI[ref] = value[ref][2])
    BY <2>1 DEF ValueInv
  <2> QED BY <2>1, <2>2, <2>3, <2>4, PlaceStep
<1>5. ASSUME NEW o \in Holders, VC!Destroy(o) PROVE ValueInv'
  <2>1. /\ vPs[o] \in Strings /\ vPs[o] # "none" /\ text' = [text EXCEPT ![vPs[o]] = "free"]
        /\ vPs' = [vPs EXCEPT ![o] = "none"] /\ unset' = unset \ {o} /\ UNCHANGED <<vI, value>>
    BY <1>5 DEF VC!Destroy, VC!None, ValueInv
  <2>2. /\ vPs'[o] = "none" /\ text'[vPs[o]] = "free" /\ \A q \in Holders \ {o} : vPs'[q] = vPs[q]
        /\ \A d \in Strings \ {vPs[o]} : text'[d] = text[d]
    BY <2>1 DEF ValueInv
  <2>3. \A q \in Holders \ {o} : vPs[q] # vPs[o] /\ (vPs[q] # "none" => vPs[q] \in Strings \ {vPs[o]})
    BY <2>1 DEF ValueInv
  <2>4. ASSUME NEW d \in Strings PROVE text'[d] # "free" <=> \E q \in Holders : vPs'[q] = d
    <3>0. d # "none"
      BY ObjectsAssumption DEF VC!ValueAssumption
    <3>1. CASE d = vPs[o]
      BY <2>2, <2>3, <3>0, <3>1
    <3>2. CASE d # vPs[o]
      BY <2>2, <3>0, <3>2 DEF ValueInv
    <3> QED BY <3>1, <3>2
  <2> QED BY <2>1, <2>2, <2>3, <2>4 DEF ValueInv
<1> QED BY <1>1, <1>2, <1>3, <1>4, <1>5, ValueAssign DEF VC!Next

LEMMA ValueMeaning == ASSUME ValueInv PROVE VC!OwnString /\ VC!KeepsText /\ VC!KeepsIfSet
<1> USE DEF VC!Alive, VC!None, VC!Free
<1>1. {vPs[o] : o \in VC!Alive} = Strings \ VC!Free
  <2>1. \A o \in VC!Alive : vPs[o] \in Strings
    BY DEF ValueInv
  <2>2. ASSUME NEW o \in VC!Alive PROVE text[vPs[o]] # "free"
    BY <2>1 DEF ValueInv
  <2>3. ASSUME NEW b \in Strings, text[b] # "free" PROVE \E o \in VC!Alive : vPs[o] = b
    <3>1. PICK o \in Holders : vPs[o] = b
      BY <2>3 DEF ValueInv
    <3>2. b # "none"
      BY ObjectsAssumption DEF VC!ValueAssumption
    <3> QED BY <3>1, <3>2
  <2> QED BY <2>1, <2>2, <2>3
<1>2. VC!OwnString
  BY <1>1 DEF ValueInv, VC!OwnString
<1> QED BY <1>2 DEF ValueInv, VC!KeepsText, VC!KeepsIfSet

-----------------------------------------------------------------------------
(* The patterns and the iterator count with their own instance of the      *)
(* library's operator.                                                     *)
LEMMA SameCount == \A S : PT!Cardinality(S) = Cardinality(S) /\ IT!Cardinality(S) = Cardinality(S)
  BY DEF PT!Cardinality, IT!Cardinality, Cardinality

(* The building.  What it does decides how the objects that were made for  *)
(* the two kinds of activity compare.                                      *)
Doing(a) == a \in m_State /\ \A b \in PT!Activities \ {a} : b \notin m_State
BuildingInv ==
  /\ made \in [PT!StateType -> Int] /\ made["BUILDING"] = 1
  /\ \A t \in {"INJURED", "REPAIR"} : made[t] = IF t \in m_State THEN 1 ELSE 0
  /\ "REPAIR" \in m_State => "INJURED" \in m_State
  /\ \/ Doing("BUILDING") /\ made["UPGRADE"] = made["PRODUCTION"]
     \/ Doing("UPGRADE") /\ made["UPGRADE"] - made["PRODUCTION"] \in {0, 1}
     \/ Doing("PRODUCTION") /\ made["PRODUCTION"] - made["UPGRADE"] \in {0, 1}

LEMMA BuildingInitial == PT!BuildingInit => BuildingInv
  BY DEF PT!BuildingInit, PT!StateType, PT!Activities, Doing, BuildingInv

LEMMA BuildingStep == BuildingInv /\ [PT!BuildingNext]_buildingVars => BuildingInv'
<1> SUFFICES ASSUME BuildingInv, [PT!BuildingNext]_buildingVars PROVE BuildingInv'
  OBVIOUS
<1> USE DEF PT!Put, PT!eraseState, PT!Activities, PT!StateType, Doing, BuildingInv
<1>1. CASE UNCHANGED buildingVars
  BY <1>1 DEF buildingVars
<1>2. CASE PT!upGrade
  BY <1>2 DEF PT!upGrade
<1>3. CASE PT!product
  BY <1>3 DEF PT!product
<1>4. CASE PT!injured
  BY <1>4 DEF PT!injured
<1>5. CASE PT!repair
  BY <1>5 DEF PT!repair
<1> QED BY <1>1, <1>2, <1>3, <1>4, <1>5 DEF PT!BuildingNext


LEMMA BuildingMeaning == ASSUME BuildingInv PROVE PT!OneActivity /\ PT!LostInTurn
<1>1. PICK a \in PT!Activities : Doing(a)
  BY DEF BuildingInv, PT!Activities
<1>2. m_State \cap PT!Activities = {a}
  BY <1>1 DEF Doing
<1>3. Cardinality(m_State \cap PT!Activities) = 1
  BY <1>2, FS_Singleton
<1>4. PT!LostInTurn
  BY DEF BuildingInv, Doing, PT!Activities, PT!StateType, PT!Leaked, PT!LostInTurn
<1>5. "REPAIR" \in m_State => "INJURED" \in m_State
  BY DEF BuildingInv
<1> QED BY <1>3, <1>4, <1>5, SameCount DEF PT!OneActivity

-----------------------------------------------------------------------------
(* The fight.  A number of rounds r with (r - 1) a < s <= r a is s divided *)
(* by a and rounded up.                                                    *)
LEMMA Monotone == ASSUME NEW a \in Nat, NEW x \in Int, NEW y \in Int, x <= y PROVE x * a <= y * a
<1>1. y - x \in Nat /\ (y - x) * a \in Nat
  OBVIOUS
<1>2. (y - x) * a = y * a - x * a
  OBVIOUS
<1> QED BY <1>1, <1>2

LEMMA RoundedUp ==
  ASSUME NEW s \in Nat, NEW a \in Nat \ {0}, NEW r \in Nat, s <= r * a, r > 0 => (r - 1) * a < s
  PROVE  (s + a - 1) \div a = r
<1> DEFINE n == s + a - 1
<1> DEFINE q == n \div a
<1>1. q \in Int /\ n \in Nat /\ q * a <= n /\ n < q * a + a
  BY Z3
<1>2. (r - 1) * a = r * a - a /\ r * a \in Int
  OBVIOUS
<1>3. n < r * a + a /\ r * a <= n
  BY <1>2
<1>4. ~(q < r)
  <2>1. ASSUME q + 1 <= r PROVE FALSE
    <3>1. (q + 1) * a <= r * a
      BY <1>1, <2>1, Monotone
    <3>2. (q + 1) * a = q * a + a
      BY <1>1
    <3> QED BY <1>1, <1>3, <3>1, <3>2
  <2> QED BY <1>1, <2>1
<1>5. ~(r < q)
  <2>1. ASSUME r + 1 <= q PROVE FALSE
    <3>1. (r + 1) * a <= q * a
      BY <1>1, <2>1, Monotone
    <3>2. (r + 1) * a = r * a + a
      OBVIOUS
    <3> QED BY <1>1, <1>3, <3>1, <3>2
  <2> QED BY <1>1, <2>1
<1> QED BY <1>1, <1>4, <1>5

(* Where the loop stands: the second hero has lost a times the rounds, but *)
(* nothing below zero, and had something left before the last round.       *)
Setup == {<<"new", 1>>, <<"setHp", 1>>, <<"setAtk", 1>>,
          <<"new", 2>>, <<"setHp", 2>>, <<"setAtk", 2>>, <<"first">>}
Lost(s, a, r, h) == /\ r > 0 => (r - 1) * a < s
                    /\ h = IF s - r * a < 0 THEN 0 ELSE s - r * a
FightInv ==
  /\ fightPc \in Setup \cup {<<"loop">>, <<"done">>}
  /\ hp \in [{1, 2} -> -MaxHp .. PT!MaxHeal] /\ atk \in [{1, 2} -> PT!Atks] /\ start \in [{1, 2} -> PT!Hps]
  /\ rounds \in Nat
  /\ fightPc \in Setup => rounds = 0
  /\ fightPc = <<"setAtk", 1>> => hp[1] = start[1]
  /\ fightPc \in {<<"setAtk", 2>>, <<"first">>} => hp[2] = start[2]
  /\ fightPc \in {<<"new", 2>>, <<"setHp", 2>>, <<"setAtk", 2>>, <<"first">>} => hp[1] = start[1]
  /\ fightPc \in {<<"loop">>, <<"done">>} =>
       /\ hp[1] >= 0
       /\ atk[1] > 0 /\ start[2] >= 0 => Lost(start[2], atk[1], rounds, hp[2])
       /\ atk[1] > 0 /\ start[2] < 0 => (rounds = 0 /\ hp[2] < 0) \/ (rounds = 1 /\ hp[2] = 0)
       /\ atk[1] <= 0 => rounds = 0
       /\ atk[1] <= 0 /\ start[2] > 0 => hp[2] > 0
  /\ fightPc = <<"done">> => hp[2] = 0

LEMMA FightInitial == PT!FightInit => FightInv
  BY ObjectsAssumption DEF PT!FightInit, FightInv, Setup, PT!HeroAssumption, PT!MaxHeal, PT!Atks, PT!Hps

(* One round more.                                                         *)
LEMMA OneRound ==
  ASSUME NEW s \in Nat, NEW a \in Nat \ {0}, NEW r \in Nat, NEW h \in Int, h # 0, Lost(s, a, r, h)
  PROVE  Lost(s, a, r + 1, PT!beAttack(h, a))
<1>1. (r + 1) * a = r * a + a /\ r * a \in Int /\ (r + 1) - 1 = r
  OBVIOUS
<1>2. h = s - r * a /\ r * a < s
  BY <1>1 DEF Lost
<1>3. s - (r + 1) * a = h - a
  BY <1>1, <1>2
<1>4. (r + 1 - 1) * a < s
  BY <1>1, <1>2
<1>5. PT!beAttack(h, a) = IF s - (r + 1) * a < 0 THEN 0 ELSE s - (r + 1) * a
  BY <1>3 DEF PT!beAttack
<1> QED BY <1>4, <1>5 DEF Lost

LEMMA FightStep == FightInv /\ [PT!FightNext]_fightVars => FightInv'
<1> SUFFICES ASSUME FightInv, [PT!FightNext]_fightVars PROVE FightInv'
  OBVIOUS
<1>0. MaxHp \in Nat /\ MaxAtk \in Nat /\ PT!MaxHeal = MaxHp + MaxAtk
      /\ PT!Hps = -MaxHp .. MaxHp /\ PT!Atks = -MaxAtk .. MaxAtk
  BY ObjectsAssumption DEF PT!HeroAssumption, PT!MaxHeal, PT!Atks, PT!Hps
<1>1. CASE UNCHANGED fightVars
  BY <1>1 DEF fightVars, FightInv
<1>2. ASSUME NEW h \in {1, 2}, PT!HeroControl(h) PROVE FightInv'
  BY <1>0, <1>2 DEF PT!HeroControl, FightInv, Setup
<1>3. ASSUME NEW h \in {1, 2}, PT!setHeroHp(h) PROVE FightInv'
  BY <1>0, <1>3 DEF PT!setHeroHp, FightInv, Setup
<1>4. ASSUME NEW h \in {1, 2}, PT!setHeroAtk(h) PROVE FightInv'
  BY <1>0, <1>4 DEF PT!setHeroAtk, FightInv, Setup
<1>5. CASE PT!First
  BY <1>0, <1>5 DEF PT!First, PT!beAttack, FightInv, Setup, Lost
<1>6. CASE PT!Attack
  <2>1. /\ fightPc = <<"loop">> /\ fightPc' = <<"loop">> /\ hp[2] # 0 /\ UNCHANGED <<atk, start>>
        /\ hp' = [hp EXCEPT ![2] = PT!beAttack(hp[2], atk[1])] /\ PT!beAttack(hp[2], atk[1]) <= PT!MaxHeal
        /\ rounds' = IF atk[1] > 0 THEN rounds + 1 ELSE rounds
    BY <1>6 DEF PT!Attack, PT!isDead
  <2>2. hp'[2] = PT!beAttack(hp[2], atk[1]) /\ hp'[1] = hp[1] /\ hp'[1] >= 0
        /\ hp[2] \in Int /\ atk[1] \in Int /\ start[2] \in Int /\ rounds \in Nat
    BY <1>0, <2>1 DEF FightInv
  <2>3. hp' \in [{1, 2} -> -MaxHp .. PT!MaxHeal] /\ rounds' \in Nat
    BY <1>0, <2>1, <2>2 DEF FightInv, PT!beAttack
  <2>4. atk[1] > 0 /\ start[2] >= 0 => Lost(start[2], atk[1], rounds', hp'[2])
    BY <2>1, <2>2, OneRound DEF FightInv
  <2>5. atk[1] > 0 /\ start[2] < 0 => rounds' = 1 /\ hp'[2] = 0
    BY <2>1, <2>2 DEF FightInv, PT!beAttack
  <2>6. /\ atk[1] <= 0 => rounds' = 0
        /\ atk[1] <= 0 /\ start[2] > 0 => hp'[2] > 0
    BY <2>1, <2>2 DEF FightInv, PT!beAttack
  <2> QED BY <2>1, <2>2, <2>3, <2>4, <2>5, <2>6 DEF FightInv, Setup
<1>7. CASE PT!Dead
  BY <1>0, <1>7 DEF PT!Dead, PT!isDead, FightInv, Setup, Lost
<1> QED BY <1>1, <1>2, <1>3, <1>4, <1>5, <1>6, <1>7 DEF PT!FightNext

LEMMA FightMeaning == ASSUME FightInv PROVE PT!TypeOK /\ PT!RoundsNeeded /\ PT!OthersDoNot
<1>0. MaxHp \in Nat /\ MaxAtk \in Nat /\ PT!MaxHeal = MaxHp + MaxAtk
      /\ PT!Hps = -MaxHp .. MaxHp /\ PT!Atks = -MaxAtk .. MaxAtk
  BY ObjectsAssumption DEF PT!HeroAssumption, PT!MaxHeal, PT!Atks, PT!Hps
<1>1. rounds <= MaxHp + 1
  <2>1. CASE rounds <= 1
    BY <1>0, <2>1 DEF FightInv
  <2>2. CASE rounds > 1
    <3>1. atk[1] > 0 /\ start[2] >= 0 /\ start[2] <= MaxHp /\ (rounds - 1) * atk[1] < start[2]
      BY <1>0, <2>2 DEF FightInv, Lost, Setup
    <3>2. (rounds - 1) * 1 <= (rounds - 1) * atk[1]
      <4>1. atk[1] \in Int /\ rounds - 1 \in Nat /\ atk[1] >= 1
        BY <1>0, <2>2, <3>1 DEF FightInv
      <4>2. 1 * (rounds - 1) <= atk[1] * (rounds - 1)
        BY <4>1, Monotone
      <4> QED BY <4>1, <4>2
    <3> QED BY <1>0, <3>1, <3>2 DEF FightInv
  <2> QED BY <2>1, <2>2 DEF FightInv
<1>2. PT!TypeOK
  BY <1>0, <1>1 DEF PT!TypeOK, FightInv, Setup
<1>3. ASSUME fightPc = <<"done">>, atk[1] > 0
      PROVE  rounds = IF start[2] < 0 THEN 1 ELSE (start[2] + atk[1] - 1) \div atk[1]
  <2>1. CASE start[2] < 0
    BY <1>3, <2>1 DEF FightInv
  <2>2. CASE start[2] >= 0
    <3>1. Lost(start[2], atk[1], rounds, 0) /\ start[2] \in Nat /\ atk[1] \in Nat \ {0} /\ rounds \in Nat
      BY <1>0, <1>3, <2>2 DEF FightInv
    <3>2. start[2] <= rounds * atk[1] /\ (rounds > 0 => (rounds - 1) * atk[1] < start[2])
      BY <3>1 DEF Lost
    <3>3. (start[2] + atk[1] - 1) \div atk[1] = rounds
      BY <3>1, <3>2, RoundedUp, Zenon
    <3> QED BY <2>2, <3>1, <3>3
  <2> QED BY <1>0, <2>1, <2>2 DEF FightInv
<1>4. PT!RoundsNeeded
  BY <1>3 DEF FightInv, Setup, PT!RoundsNeeded
<1>5. PT!OthersDoNot
  BY <1>0 DEF FightInv, PT!OthersDoNot
<1> QED BY <1>2, <1>4, <1>5

-----------------------------------------------------------------------------
(* The iterator.  What a walker saw climbs and lies before the place where *)
(* the iterator stands, or at it while that walker is in its body; a body  *)
(* that is alone is in front of an item; and an item was given to somebody *)
(* once it is passed, or in a body.                                        *)
Climbing(w) ==
  \A p \in 1 .. Len(seen[w]) :
    /\ p - 1 <= seen[w][p] /\ seen[w][p] < count /\ seen[w][p] <= m_iCurrent
    /\ seen[w][p] = m_iCurrent => at[w] = "body"
    /\ p > 1 => seen[w][p - 1] < seen[w][p]
InABody == \E w \in Walkers : at[w] = "body"
Given(k) == k < m_iCurrent \/ (k = m_iCurrent /\ InABody)

IterTypes == /\ count \in 0 .. MaxItems /\ m_iCurrent \in Nat
             /\ (~isMade => m_iCurrent = 0 /\ \A w \in Walkers : at[w] = "out")
             /\ at \in [Walkers -> {"out", "head", "body"}] /\ seen \in [Walkers -> Seq(Int)]
IterAlone == ~nested => /\ \A v, w \in Walkers : at[v] # "out" /\ at[w] # "out" => v = w
                        /\ m_iCurrent <= count /\ (InABody => m_iCurrent < count)
IterOver  == m_iCurrent + Cardinality(IT!InBody) <= count + Cardinality(Walkers) - 1
IterGiven == ~nested => \A k \in 0 .. count - 1 :
               IF Given(k) THEN \E s : IT!Places(k) = {s} ELSE IT!Places(k) = {}

IterInv == /\ IterTypes /\ (\A w \in Walkers : Climbing(w))
           /\ IterAlone /\ IterOver /\ IterGiven

LEMMA IterInitial == IT!Init => IterInv
<1> SUFFICES ASSUME IT!Init PROVE IterInv
  OBVIOUS
<1>1. IterTypes /\ (\A w \in Walkers : Len(seen[w]) = 0) /\ (\A w \in Walkers : at[w] = "out")
  BY ObjectsAssumption DEF IT!Init, IterTypes, IT!IteratorAssumption
<1>2. \A w \in Walkers : Climbing(w)
  BY <1>1 DEF Climbing
<1>3. IterAlone /\ IterGiven
  BY <1>1, ObjectsAssumption DEF IT!Init, IterAlone, IterGiven, InABody, IT!IteratorAssumption
<1>4. IT!InBody = {} /\ IsFiniteSet(Walkers) /\ Walkers # {}
  BY <1>1, ObjectsAssumption DEF IT!InBody, IT!IteratorAssumption, IT!IsFiniteSet, IsFiniteSet
<1>5. Cardinality(IT!InBody) = 0 /\ Cardinality(Walkers) \in Nat /\ Cardinality(Walkers) # 0
  BY <1>4, FS_EmptySet, FS_CardinalityType
<1>6. IterOver
  BY <1>5 DEF IT!Init, IterOver
<1> QED BY <1>1, <1>2, <1>3, <1>6 DEF IterInv

LEMMA BodyCount ==
  /\ IsFiniteSet(Walkers) /\ IsFiniteSet(IT!InBody)
  /\ Cardinality(Walkers) \in Nat /\ Cardinality(IT!InBody) \in 0 .. Cardinality(Walkers)
<1>1. IsFiniteSet(Walkers)
  BY ObjectsAssumption DEF IT!IteratorAssumption, IT!IsFiniteSet, IsFiniteSet
<1>2. IT!InBody \subseteq Walkers
  BY DEF IT!InBody
<1> QED BY <1>1, <1>2, FS_Subset, FS_CardinalityType

(* A step of the loop of w and of nobody else changes nothing that was     *)
(* seen, except that it may append.                                        *)
LEMMA CurStep == ASSUME IterInv, NEW w \in Walkers, IT!getCur(w) PROVE IterInv'
<1> USE DEF IterInv
<1>step. /\ at[w] = "head" /\ ~IT!isEnd /\ at' = [at EXCEPT ![w] = "body"]
      /\ seen' = [seen EXCEPT ![w] = Append(@, IT!Pop(m_iCurrent))]
      /\ UNCHANGED <<count, isMade, m_iCurrent, nested>>
  BY DEF IT!getCur
<1>read. m_iCurrent < count /\ IT!Pop(m_iCurrent) = m_iCurrent
  BY <1>step DEF IT!isEnd, IT!Pop, IterTypes
<1>1. /\ at[w] = "head" /\ at' = [at EXCEPT ![w] = "body"] /\ m_iCurrent < count
      /\ seen' = [seen EXCEPT ![w] = Append(seen[w], m_iCurrent)]
      /\ UNCHANGED <<count, isMade, m_iCurrent, nested>>
  BY <1>step, <1>read
<1> DEFINE n == Len(seen[w]) + 1
<1>2. /\ seen[w] \in Seq(Int) /\ m_iCurrent \in Int /\ n \in Nat \ {0}
      /\ at'[w] = "body" /\ \A v \in Walkers \ {w} : at'[v] = at[v] /\ seen'[v] = seen[v]
  BY <1>1 DEF IterTypes
<1>3. /\ seen'[w] \in Seq(Int) /\ Len(seen'[w]) = n /\ seen'[w][n] = m_iCurrent
      /\ \A p \in 1 .. n - 1 : seen'[w][p] = seen[w][p]
  <2>1. seen'[w] = Append(seen[w], m_iCurrent)
    BY <1>1 DEF IterTypes
  <2> QED BY <1>2, <2>1
<1>4. IterTypes'
  BY <1>1, <1>2, <1>3 DEF IterTypes
<1>5. Climbing(w)'
  <2>0. \A p \in 1 .. n - 1 : seen[w][p] \in Int
    BY <1>2
  <2>1. \A p \in 1 .. n - 1 : /\ p - 1 <= seen[w][p] /\ seen[w][p] < m_iCurrent
                              /\ p > 1 => seen[w][p - 1] < seen[w][p]
    BY <1>1, <1>2, <2>0 DEF Climbing
  <2>2. n - 1 <= m_iCurrent
    BY <1>2, <2>0, <2>1 DEF IterTypes
  <2>3. ASSUME NEW p \in 1 .. n
        PROVE  /\ p - 1 <= seen'[w][p] /\ seen'[w][p] < count /\ seen'[w][p] <= m_iCurrent
               /\ p > 1 => seen'[w][p - 1] < seen'[w][p]
    <3>1. CASE p = n
      BY <1>1, <1>2, <1>3, <2>1, <2>2, <3>1 DEF IterTypes
    <3>2. CASE p < n
      BY <1>1, <1>2, <1>3, <2>0, <2>1, <3>2 DEF IterTypes
    <3> QED BY <1>2, <3>1, <3>2
  <2> QED BY <1>1, <1>2, <1>3, <2>3 DEF Climbing
<1>6. \A v \in Walkers \ {w} : Climbing(v)'
  BY <1>1, <1>2 DEF Climbing
<1>7. IterAlone'
  BY <1>1, <1>2 DEF IterAlone, InABody, IterTypes
<1>8. IterOver'
  <2>1. m_iCurrent <= count - 1 /\ m_iCurrent \in Nat /\ count \in Nat
    BY <1>1 DEF IterTypes
  <2>2. IT!InBody' \subseteq Walkers
    BY DEF IT!InBody
  <2>3. Cardinality(IT!InBody') <= Cardinality(Walkers) /\ Cardinality(IT!InBody') \in Nat
        /\ Cardinality(Walkers) \in Nat
    BY <2>2, BodyCount, FS_Subset, FS_CardinalityType
  <2> QED BY <1>1, <2>1, <2>3 DEF IterOver
<1>9. IterGiven'
  <2> SUFFICES ASSUME ~nested, NEW k \in 0 .. count - 1
               PROVE  IF Given(k)' THEN \E s : IT!Places(k)' = {s} ELSE IT!Places(k)' = {}
    BY <1>1 DEF IterGiven
  <2>1. n <= MaxItems
    <3>1. ASSUME n > 1 PROVE n - 2 <= seen[w][n - 1] /\ seen[w][n - 1] < m_iCurrent /\ seen[w][n - 1] \in Int
      <4>1. n - 1 \in 1 .. Len(seen[w]) /\ seen[w][n - 1] \in Int
        BY <1>2, <3>1
      <4>2. n - 2 <= seen[w][n - 1] /\ seen[w][n - 1] <= m_iCurrent /\ seen[w][n - 1] # m_iCurrent
        BY <1>1, <1>2, <4>1 DEF Climbing
      <4> QED BY <1>2, <4>1, <4>2
    <3>2. MaxItems \in Nat
      BY ObjectsAssumption DEF IT!IteratorAssumption
    <3> QED BY <1>1, <1>2, <3>1, <3>2 DEF IterTypes
  <2>2. ~InABody /\ InABody'
    BY <1>1, <1>2 DEF InABody, IterAlone
  <2>3. CASE k # m_iCurrent
    <3>1. \A s \in Walkers \X (1 .. MaxItems) :
            (s[2] <= Len(seen'[s[1]]) /\ seen'[s[1]][s[2]] = k)
              <=> (s[2] <= Len(seen[s[1]]) /\ seen[s[1]][s[2]] = k)
      <4> SUFFICES ASSUME NEW v \in Walkers, NEW p \in 1 .. MaxItems
                   PROVE  (p <= Len(seen'[v]) /\ seen'[v][p] = k) <=> (p <= Len(seen[v]) /\ seen[v][p] = k)
        OBVIOUS
      <4>1. CASE v # w
        BY <1>2, <4>1
      <4>2. CASE v = w /\ p = n
        <5>1. p > Len(seen[v]) /\ seen'[v][p] # k
          BY <1>2, <1>3, <2>3, <4>2
        <5> QED BY <5>1, <1>2, <4>2
      <4>3. CASE v = w /\ p # n
        <5>1. p <= Len(seen'[v]) <=> p <= Len(seen[v])
          BY <1>2, <1>3, <4>3
        <5>2. ASSUME p <= Len(seen[v]) PROVE seen'[v][p] = seen[v][p]
          <6>1. p \in 1 .. n - 1
            BY <1>2, <4>3, <5>2
          <6> QED BY <1>3, <4>3, <6>1
        <5> QED BY <5>1, <5>2
      <4> QED BY <4>1, <4>2, <4>3
    <3>2. IT!Places(k)' = IT!Places(k)
      BY <3>1 DEF IT!Places
    <3>3. Given(k)' <=> Given(k)
      BY <1>1, <2>3 DEF Given
    <3> QED BY <3>2, <3>3 DEF IterGiven
  <2>4. CASE k = m_iCurrent
    <3>1. IT!Places(k) = {}
      BY <2>2, <2>4 DEF IterGiven, Given, IterTypes
    <3>2. \A v \in Walkers, p \in 1 .. MaxItems : ~(p <= Len(seen[v]) /\ seen[v][p] = k)
      <4> SUFFICES ASSUME NEW v \in Walkers, NEW p \in 1 .. MaxItems, p <= Len(seen[v]) /\ seen[v][p] = k
                   PROVE  FALSE
        OBVIOUS
      <4>1. <<v, p>> \in IT!Places(k)
        BY DEF IT!Places
      <4> QED BY <3>1, <4>1
    <3>3. \A v \in Walkers, p \in 1 .. MaxItems : p <= Len(seen'[v]) /\ seen'[v][p] = k <=> v = w /\ p = n
      <4> SUFFICES ASSUME NEW v \in Walkers, NEW p \in 1 .. MaxItems
                   PROVE  p <= Len(seen'[v]) /\ seen'[v][p] = k <=> v = w /\ p = n
        OBVIOUS
      <4>1. CASE v # w
        BY <1>2, <3>2, <4>1
      <4>2. CASE v = w /\ p = n
        BY <1>2, <1>3, <2>4, <4>2
      <4>3. CASE v = w /\ p # n
        <5>1. p <= Len(seen'[v]) <=> p <= Len(seen[v])
          BY <1>2, <1>3, <4>3
        <5>2. ASSUME p <= Len(seen[v]) PROVE seen'[v][p] = seen[v][p]
          <6>1. p \in 1 .. n - 1
            BY <1>2, <4>3, <5>2
          <6> QED BY <1>3, <4>3, <6>1
        <5> QED BY <5>1, <5>2, <3>2, <4>3
      <4> QED BY <4>1, <4>2, <4>3
    <3>4. n \in 1 .. MaxItems
      BY <1>2, <2>1, ObjectsAssumption DEF IT!IteratorAssumption
    <3>5. IT!Places(k)' = {<<w, n>>}
      BY <3>3, <3>4 DEF IT!Places
    <3>6. Given(k)'
      BY <1>1, <2>2, <2>4 DEF Given
    <3> QED BY <3>5, <3>6
  <2> QED BY <2>3, <2>4
<1> QED BY <1>4, <1>5, <1>6, <1>7, <1>8, <1>9

LEMMA PushStep == ASSUME IterInv, IT!Push PROVE IterInv'
<1> USE DEF IterInv
<1>1. count' = count + 1 /\ count < MaxItems /\ UNCHANGED <<isMade, m_iCurrent, at, seen, nested>>
  BY DEF IT!Push
<1>2. IterTypes'
  BY <1>1, ObjectsAssumption DEF IterTypes, IT!IteratorAssumption
<1>3. ASSUME NEW v \in Walkers PROVE Climbing(v)'
  <2>1. seen[v] \in Seq(Int) /\ count \in Nat
    BY DEF IterTypes
  <2>2. \A p \in 1 .. Len(seen[v]) : seen[v][p] \in Int
    BY <2>1
  <2>3. ASSUME NEW p \in 1 .. Len(seen[v])
        PROVE  /\ p - 1 <= seen[v][p] /\ seen[v][p] < count + 1 /\ seen[v][p] <= m_iCurrent
               /\ seen[v][p] = m_iCurrent => at[v] = "body"
               /\ p > 1 => seen[v][p - 1] < seen[v][p]
    BY <2>1, <2>2 DEF Climbing
  <2> QED BY <1>1, <2>3 DEF Climbing
<1>4. IterAlone'
  BY <1>1 DEF IterAlone, InABody, IterTypes
<1>5. IterOver'
  <2>1. IT!InBody' = IT!InBody
    BY <1>1 DEF IT!InBody
  <2> QED BY <1>1, <2>1, BodyCount DEF IterOver, IterTypes
<1>6. IterGiven'
  <2> SUFFICES ASSUME ~nested', NEW k \in 0 .. count' - 1
               PROVE  IF Given(k)' THEN \E s : IT!Places(k)' = {s} ELSE IT!Places(k)' = {}
    BY DEF IterGiven
  <2>0. ~nested /\ count \in Nat /\ k \in Nat /\ k <= count
    BY <1>1 DEF IterTypes
  <2>1. IT!Places(k)' = IT!Places(k) /\ (Given(k)' <=> Given(k))
    BY <1>1 DEF IT!Places, Given, InABody
  <2>2. CASE k < count
    <3>1. k \in 0 .. count - 1
      BY <2>0, <2>2
    <3>2. IF Given(k) THEN \E s : IT!Places(k) = {s} ELSE IT!Places(k) = {}
      BY <2>0, <3>1 DEF IterGiven
    <3> QED BY <2>1, <3>2
  <2>3. CASE k = count
    <3>1. ~Given(k)
      BY <2>0, <2>3 DEF Given, IterAlone, IterTypes
    <3>2. ASSUME NEW v \in Walkers, NEW p \in 1 .. MaxItems, p <= Len(seen[v]), seen[v][p] = k
          PROVE  FALSE
      <4>1. p \in 1 .. Len(seen[v])
        BY <3>2 DEF IterTypes
      <4> QED BY <2>3, <3>2, <4>1 DEF Climbing, IterTypes
    <3>3. IT!Places(k) = {}
      BY <3>2 DEF IT!Places
    <3>4. ~Given(k)'
      BY <2>1, <3>1
    <3>5. IT!Places(k)' = {}
      BY <2>1, <3>3
    <3> QED BY <3>4, <3>5
  <2>4. k < count \/ k = count
    BY <2>0
  <2> QED BY <2>2, <2>3, <2>4
<1> QED BY <1>2, <1>3, <1>4, <1>5, <1>6

(* Beginning a walk and leaving it move nobody's body.                     *)
LEMMA OutOrHead ==
  ASSUME IterInv, NEW w \in Walkers, IT!CreateIterator(w) \/ IT!Leave(w) PROVE IterInv'
<1> USE DEF IterInv
<1>1. /\ at[w] # "body" /\ at' = [at EXCEPT ![w] = at'[w]] /\ at'[w] \in {"out", "head"}
      /\ UNCHANGED <<count, seen>>
  BY DEF IT!CreateIterator, IT!Leave, IterTypes
<1>2. m_iCurrent' = m_iCurrent /\ m_iCurrent \in Nat
  BY DEF IT!CreateIterator, IT!Leave, IterTypes
<1>3. at'[w] # "body" /\ \A v \in Walkers \ {w} : at'[v] = at[v]
  BY <1>1 DEF IterTypes
<1>4. IT!InBody' = IT!InBody /\ (InABody' <=> InABody)
  BY <1>1, <1>3 DEF IT!InBody, InABody
<1>5. IterTypes'
  BY <1>1, <1>2 DEF IterTypes, IT!CreateIterator, IT!Leave
<1>6. ASSUME NEW v \in Walkers PROVE Climbing(v)'
  BY <1>1, <1>2, <1>3 DEF Climbing
<1>7. ~nested' => ~nested
  BY DEF IT!CreateIterator, IT!Leave
<1>8. IterAlone'
  <2>1. CASE IT!Leave(w)
    <3>1. at'[w] = "out" /\ nested' = nested
      BY <2>1 DEF IT!Leave, IterTypes
    <3> QED BY <1>1, <1>2, <1>3, <1>4, <3>1 DEF IterAlone
  <2>2. CASE IT!CreateIterator(w)
    <3>1. ~nested' => \A v \in Walkers \ {w} : at[v] = "out"
      BY <2>2 DEF IT!CreateIterator
    <3> QED BY <1>1, <1>2, <1>3, <1>4, <1>7, <3>1 DEF IterAlone
  <2> QED BY <2>1, <2>2
<1>9. IterOver'
  BY <1>1, <1>2, <1>4 DEF IterOver
<1>10. IterGiven'
  BY <1>1, <1>2, <1>4, <1>7 DEF IterGiven, Given, IT!Places
<1> QED BY <1>5, <1>6, <1>8, <1>9, <1>10

LEMMA NextStep == ASSUME IterInv, NEW w \in Walkers, IT!NextItem(w) PROVE IterInv'
<1> USE DEF IterInv
<1>1. /\ at[w] = "body" /\ at' = [at EXCEPT ![w] = "head"] /\ m_iCurrent' = m_iCurrent + 1
      /\ UNCHANGED <<count, isMade, seen, nested>> /\ m_iCurrent \in Nat
  BY DEF IT!NextItem, IterTypes
<1>2. at'[w] = "head" /\ \A v \in Walkers \ {w} : at'[v] = at[v]
  BY <1>1 DEF IterTypes
<1>3. IterTypes'
  BY <1>1 DEF IterTypes
<1>4. ASSUME NEW v \in Walkers PROVE Climbing(v)'
  <2>1. seen[v] \in Seq(Int) /\ \A p \in 1 .. Len(seen[v]) : seen[v][p] \in Int
    BY DEF IterTypes
  <2> QED BY <1>1, <2>1 DEF Climbing
<1>5. ~nested => m_iCurrent < count /\ ~InABody' /\ InABody
  BY <1>1, <1>2 DEF IterAlone, InABody
<1>6. IterAlone'
  BY <1>1, <1>2, <1>5 DEF IterAlone, IterTypes
<1>7. IterOver'
  <2>1. IT!InBody' = IT!InBody \ {w} /\ w \in IT!InBody
    BY <1>1, <1>2 DEF IT!InBody
  <2>2. Cardinality(IT!InBody \ {w}) = Cardinality(IT!InBody) - 1
    BY <2>1, BodyCount, FS_RemoveElement
  <2> QED BY <1>1, <2>1, <2>2, BodyCount DEF IterOver, IterTypes
<1>8. IterGiven'
  <2> SUFFICES ASSUME ~nested', NEW k \in 0 .. count' - 1
               PROVE  IF Given(k)' THEN \E s : IT!Places(k)' = {s} ELSE IT!Places(k)' = {}
    BY DEF IterGiven
  <2>1. ~nested /\ k \in 0 .. count - 1 /\ IT!Places(k)' = IT!Places(k)
    BY <1>1 DEF IT!Places
  <2>2. Given(k)' <=> k < m_iCurrent + 1
    BY <1>1, <1>5, <2>1 DEF Given
  <2>3. Given(k) <=> k <= m_iCurrent
    BY <1>1, <1>5, <2>1 DEF Given
  <2>4. IF Given(k) THEN \E s : IT!Places(k) = {s} ELSE IT!Places(k) = {}
    BY <2>1 DEF IterGiven
  <2>5. Given(k)' <=> Given(k)
    BY <1>1, <2>1, <2>2, <2>3
  <2> QED BY <2>1, <2>4, <2>5
<1> QED BY <1>3, <1>4, <1>6, <1>7, <1>8

LEMMA IterStep == ASSUME IterInv, [IT!Next]_iterVars PROVE IterInv'
<1>1. CASE IT!Push
  BY <1>1, PushStep
<1>2. ASSUME NEW w \in Walkers, IT!CreateIterator(w) PROVE IterInv'
  BY <1>2, OutOrHead
<1>3. ASSUME NEW w \in Walkers, IT!getCur(w) PROVE IterInv'
  BY <1>3, CurStep
<1>4. ASSUME NEW w \in Walkers, IT!Leave(w) PROVE IterInv'
  BY <1>4, OutOrHead
<1>5. ASSUME NEW w \in Walkers, IT!NextItem(w) PROVE IterInv'
  BY <1>5, NextStep
<1>6. CASE UNCHANGED iterVars
  <2>1. /\ UNCHANGED <<count, isMade, m_iCurrent, at, seen, nested>>
        /\ IT!InBody' = IT!InBody /\ (InABody' <=> InABody)
    BY <1>6 DEF iterVars, IT!InBody, InABody
  <2>2. IterTypes' /\ IterAlone' /\ IterOver' /\ \A w \in Walkers : Climbing(w)'
    BY <2>1 DEF IterInv, IterTypes, IterAlone, IterOver, Climbing
  <2>3. IterGiven'
    BY <2>1 DEF IterInv, IterGiven, Given, IT!Places
  <2> QED BY <2>2, <2>3 DEF IterInv
<1> QED
  BY <1>1, <1>2, <1>3, <1>4, <1>5, <1>6
     DEF IT!Next, IT!ConcreteAggregate, IT!ConcreteIterator, IT!ListAggregate, IT!ListIterator, IT!Walk

LEMMA IterMeaning ==
  IterInv => IT!EachOnceInTurn /\ IT!ClimbsOn /\ IT!Overshoot /\ IT!AloneNeverOvershoots
<1> SUFFICES ASSUME IterInv
             PROVE  IT!EachOnceInTurn /\ IT!ClimbsOn /\ IT!Overshoot /\ IT!AloneNeverOvershoots
  OBVIOUS
<1> USE DEF IterInv
<1>1. IT!EachOnceInTurn
  <2> SUFFICES ASSUME ~nested, NEW k \in 0 .. count - 1
               PROVE  IT!Cardinality(IT!Places(k))
                        = IF k < m_iCurrent \/ (k = m_iCurrent /\ IT!InBody # {}) THEN 1 ELSE 0
    BY DEF IT!EachOnceInTurn
  <2>1. (k < m_iCurrent \/ (k = m_iCurrent /\ IT!InBody # {})) <=> Given(k)
    BY DEF Given, InABody, IT!InBody
  <2>2. IF Given(k) THEN \E s : IT!Places(k) = {s} ELSE IT!Places(k) = {}
    BY DEF IterGiven
  <2>3. Cardinality(IT!Places(k)) = IF Given(k) THEN 1 ELSE 0
    BY <2>2, FS_Singleton, FS_EmptySet
  <2> QED BY <2>1, <2>3, SameCount
<1>2. IT!ClimbsOn
  <2> SUFFICES ASSUME NEW w \in Walkers, NEW p \in DOMAIN seen[w]
               PROVE  seen[w][p] >= 0 /\ (p > 1 => seen[w][p - 1] < seen[w][p])
    BY DEF IT!ClimbsOn
  <2>1. seen[w] \in Seq(Int) /\ p \in 1 .. Len(seen[w])
    BY DEF IterTypes
  <2>2. seen[w][p] \in Int /\ p \in Int /\ p >= 1
    BY <2>1
  <2>3. p - 1 <= seen[w][p] /\ (p > 1 => seen[w][p - 1] < seen[w][p])
    BY <2>1 DEF Climbing
  <2> QED BY <2>2, <2>3
<1>3. IT!Overshoot
  BY SameCount DEF IterOver, IT!Overshoot
<1>4. IT!AloneNeverOvershoots
  BY DEF IterAlone, IT!AloneNeverOvershoots
<1> QED BY <1>1, <1>2, <1>3, <1>4

-----------------------------------------------------------------------------
(* The observers and invokers: only Mishu's own loop runs beside its list, *)
(* on what was registered when it began.                                   *)
NotifyInv ==
  /\ class = "Mishu" => list \in Seq(Listed)
  /\ pc \in {"remove", "wild"} => class = "Mishu" /\ before \in Seq(Listed)
  /\ pc = "remove" => iter \in Nat \ {0} /\ NL!Range(list) \subseteq NL!Range(before)
  /\ pc = "wild" => target \cap NL!Range(before) # {}

LEMMA NotifyInitial == NL!Init => NotifyInv
  BY DEF NL!Init, NotifyInv

LEMMA NotifyStep == ASSUME NotifyInv, [NL!Next]_notifyVars PROVE NotifyInv'
<1> USE DEF NotifyInv
<1>1. ASSUME NEW x \in Listed, NL!PushBack(x) PROVE NotifyInv'
  BY <1>1 DEF NL!PushBack
<1>2. ASSUME NEW x \in Listed, class # "Mishu", NL!RemoveAll(x) PROVE NotifyInv'
  BY <1>2 DEF NL!RemoveAll
<1>3. ASSUME NEW x \in Listed, NL!MishuRemove(x) PROVE NotifyInv'
  BY <1>3 DEF NL!MishuRemove
<1>4. CASE NL!MishuPass \/ NL!MishuDone
  BY <1>4 DEF NL!MishuPass, NL!MishuDone
<1>5. CASE NL!MishuErase
  <2>1. /\ class = "Mishu" /\ list \in Seq(Listed) /\ before \in Seq(Listed) /\ iter \in 1 .. Len(list)
        /\ list[iter] \in target /\ UNCHANGED <<class, iter, target, before>>
        /\ list' = NL!RemoveAt(list, iter) /\ pc' \in {"remove", "wild"}
        /\ NL!Range(list) \subseteq NL!Range(before) /\ iter \in Nat \ {0}
    BY <1>5 DEF NL!MishuErase
  <2>2. list[iter] \in NL!Range(before)
    BY <2>1 DEF NL!Range
  <2>3. list' = SubSeq(list, 1, iter - 1) \o SubSeq(list, iter + 1, Len(list))
    BY <2>1 DEF NL!RemoveAt
  <2>4. /\ SubSeq(list, 1, iter - 1) \in Seq(Listed) /\ SubSeq(list, iter + 1, Len(list)) \in Seq(Listed)
        /\ \A p \in 1 .. Len(SubSeq(list, 1, iter - 1)) : SubSeq(list, 1, iter - 1)[p] \in NL!Range(list)
        /\ \A p \in 1 .. Len(SubSeq(list, iter + 1, Len(list))) :
              SubSeq(list, iter + 1, Len(list))[p] \in NL!Range(list)
    BY <2>1 DEF NL!Range
  <2>5. list' \in Seq(Listed) /\ \A p \in 1 .. Len(list') : list'[p] \in NL!Range(list)
    BY <2>3, <2>4
  <2>6. NL!Range(list') \subseteq NL!Range(list)
    BY <2>5 DEF NL!Range
  <2> QED BY <2>1, <2>2, <2>5, <2>6
<1>6. CASE NL!Notify
  BY <1>6 DEF NL!Notify, NL!NotifyBegin, NL!Call, NL!NotifyEnd
<1>7. CASE UNCHANGED notifyVars
  BY <1>7 DEF notifyVars
<1> QED
  BY <1>1, <1>2, <1>3, <1>4, <1>5, <1>6, <1>7
     DEF NL!Next, NL!registerObserver, NL!removeObserver, NL!AddCmd, NL!DelCmd, NL!QueueAddCmd, NL!QueueDelCmd,
         NL!MishuRegister, NL!notifyObservers, NL!notifyObserver, NL!CalcNotify, NL!QueueNotify

LEMMA NotifyMeaning == NotifyInv => NL!WildOnlyByErasing
  BY DEF NotifyInv, NL!WildOnlyByErasing

(* The array: its cells keep their places. *)
ArrayInv == /\ arrSize \in Int /\ model \in Seq(ArrayValues) /\ DOMAIN arr = 0 .. Cap - 1
            /\ st \in {"ok", "fault"} /\ ST!IsAStack

LEMMA ArrayInitial == ST!ArrayInit => ArrayInv
  BY ObjectsAssumption DEF ST!ArrayInit, ArrayInv, ST!IsAStack, ST!StackAssumption

LEMMA ArrayStep == ASSUME ArrayInv, [ST!ArrayNext]_arrayVars PROVE ArrayInv'
<1> USE DEF ArrayInv
<1>1. ASSUME NEW v \in ArrayValues, st = "ok", ST!ArrayPush(v) PROVE ArrayInv'
  <2>1. arrSize' = arrSize + 1 /\ model' = Append(model, v) /\ model' \in Seq(ArrayValues)
        /\ Len(model') = Len(model) + 1 /\ model'[Len(model) + 1] = v
        /\ \A p \in 1 .. Len(model) : model'[p] = model[p]
    BY <1>1 DEF ST!ArrayPush
  <2>2. CASE arrSize \in 0 .. Cap - 1
    <3>1. arr' = [arr EXCEPT ![arrSize] = v] /\ st' = "ok"
      BY <1>1, <2>2 DEF ST!ArrayPush
    <3>2. arr'[arrSize] = v /\ \A p \in (0 .. Cap - 1) \ {arrSize} : arr'[p] = arr[p]
      BY <2>2, <3>1
    <3>3. Len(model) = arrSize /\ \A p \in 1 .. arrSize : arr[p - 1] = model[p]
      BY <1>1, <2>2 DEF ST!IsAStack
    <3>4. ASSUME NEW p \in 1 .. arrSize + 1 PROVE arr'[p - 1] = model'[p]
      <4>1. CASE p = arrSize + 1
        BY <2>1, <2>2, <3>2, <3>3, <4>1
      <4>2. CASE p # arrSize + 1
        <5>1. p \in 1 .. arrSize /\ p - 1 \in (0 .. Cap - 1) \ {arrSize}
          BY <2>2, <4>2, ObjectsAssumption DEF ST!StackAssumption
        <5> QED BY <2>1, <3>2, <3>3, <5>1
      <4> QED BY <4>1, <4>2
    <3>5. ST!IsAStack'
      BY <2>1, <2>2, <3>1, <3>3, <3>4, ObjectsAssumption DEF ST!IsAStack, ST!StackAssumption
    <3> QED BY <2>1, <3>1, <3>5
  <2>3. CASE arrSize \notin 0 .. Cap - 1
    BY <1>1, <2>1, <2>3 DEF ST!ArrayPush, ST!IsAStack
  <2> QED BY <2>2, <2>3
<1>2. ASSUME ST!Pop, st = "ok" PROVE ArrayInv'
  <2>1. arrSize' = arrSize - 1 /\ UNCHANGED <<arr, st>>
        /\ model' = IF model = <<>> THEN <<>> ELSE SubSeq(model, 1, Len(model) - 1)
    BY <1>2 DEF ST!Pop
  <2>2. model' \in Seq(ArrayValues)
    BY <2>1
  <2>3. ASSUME arrSize > 0
        PROVE  Len(model') = arrSize - 1 /\ \A p \in 1 .. arrSize - 1 : model'[p] = model[p]
    BY <1>2, <2>1, <2>3 DEF ST!IsAStack
  <2>4. ST!IsAStack'
    <3>1. CASE arrSize > 0
      <4>1. Len(model) = arrSize /\ arrSize <= Cap /\ \A p \in 1 .. arrSize : arr[p - 1] = model[p]
        BY <1>2, <3>1 DEF ST!IsAStack
      <4>2. \A p \in 1 .. arrSize - 1 : arr'[p - 1] = model'[p]
        BY <2>1, <2>3, <3>1, <4>1
      <4> QED BY <2>1, <2>3, <3>1, <4>1, <4>2, ObjectsAssumption DEF ST!IsAStack, ST!StackAssumption
    <3>2. CASE arrSize <= 0
      BY <2>1, <3>2 DEF ST!IsAStack
    <3> QED BY <3>1, <3>2
  <2> QED BY <2>1, <2>2, <2>4
<1>3. CASE ST!Top
  BY <1>3 DEF ST!Top, ST!IsAStack
<1>4. CASE UNCHANGED arrayVars
  BY <1>4 DEF arrayVars, ST!IsAStack
<1> QED BY <1>1, <1>2, <1>3, <1>4 DEF ST!ArrayNext

LEMMA NeverBack == ArrayInv /\ [ST!ArrayNext]_arrayVars => (arrSize < 0 /\ st' = "ok" => arrSize' < 0)
  BY DEF ArrayInv, ST!ArrayNext, ST!ArrayPush, ST!Pop, ST!Top, arrayVars

-----------------------------------------------------------------------------
(* The two queues: the values are the numbers of their pushes, so each     *)
(* queue rises, and one of them is empty.                                  *)
Rising(s) == \A a, b \in 1 .. Len(s) : a < b => s[a] < s[b]
TwoInv == /\ pushed \in Nat /\ q1 \in Seq(1 .. pushed) /\ q2 \in Seq(1 .. pushed)
          /\ (q1 = <<>> \/ q2 = <<>>) /\ (down <=> q2 # <<>>) /\ Rising(q1) /\ Rising(q2)

LEMMA EmptyJoins == ASSUME NEW n \in Nat, NEW s \in Seq(1 .. n)
                    PROVE  <<>> \o s = s /\ s \o <<>> = s
  OBVIOUS

LEMMA RisingGrows ==
  ASSUME NEW n \in Nat, NEW s \in Seq(1 .. n), Rising(s)
  PROVE  /\ Append(s, n + 1) \in Seq(1 .. n + 1) /\ Append(s, n + 1) # <<>>
         /\ Rising(Append(s, n + 1)) /\ s \in Seq(1 .. n + 1)
<1> DEFINE t == Append(s, n + 1)
<1>1. s \in Seq(1 .. n + 1) /\ t \in Seq(1 .. n + 1) /\ Len(t) = Len(s) + 1 /\ Len(s) \in Nat
      /\ t[Len(s) + 1] = n + 1 /\ \A p \in 1 .. Len(s) : t[p] = s[p] /\ s[p] \in 1 .. n
  OBVIOUS
<1> HIDE DEF t
<1>2. ASSUME NEW a \in 1 .. Len(t), NEW b \in 1 .. Len(t), a < b PROVE t[a] < t[b]
  <2>1. a \in 1 .. Len(s)
    BY <1>1, <1>2
  <2>2. CASE b = Len(s) + 1
    <3>1. s[a] \in 1 .. n /\ t[a] = s[a] /\ t[b] = n + 1
      BY <1>1, <2>1, <2>2
    <3> QED BY <3>1
  <2>3. CASE b # Len(s) + 1
    <3>1. b \in 1 .. Len(s)
      BY <1>1, <2>3
    <3> QED BY <1>1, <1>2, <2>1, <3>1 DEF Rising
  <2> QED BY <2>2, <2>3
<1>3. Rising(t) /\ t # <<>>
  BY <1>1, <1>2 DEF Rising
<1> QED BY <1>1, <1>3 DEF t

LEMMA RisingShrinks ==
  ASSUME NEW n \in Nat, NEW s \in Seq(1 .. n), Rising(s), s # <<>>
  PROVE  /\ SubSeq(s, 1, Len(s) - 1) \in Seq(1 .. n) /\ Rising(SubSeq(s, 1, Len(s) - 1))
         /\ SubSeq(s, 1, Len(s) - 1) # <<>> <=> Len(s) > 1
         /\ Tail(s) \in Seq(1 .. n) /\ Rising(Tail(s)) /\ (Tail(s) # <<>> <=> Len(s) > 1)
         /\ \A p \in 1 .. Len(s) : Head(s) <= s[p] /\ s[p] <= s[Len(s)]
<1> DEFINE f == SubSeq(s, 1, Len(s) - 1)
           t == Tail(s)
<1>0. Len(s) \in Nat \ {0} /\ Head(s) = s[1] /\ \A p \in 1 .. Len(s) : s[p] \in 1 .. n /\ s[p] \in Int
  OBVIOUS
<1>1. /\ f \in Seq(1 .. n) /\ Len(f) = Len(s) - 1
      /\ \A p \in 1 .. Len(s) - 1 : f[p] = s[p]
  <2>1. Len(s) - 1 \in Nat /\ Len(s) - 1 <= Len(s)
    BY <1>0
  <2>2. Len(f) = Len(s) - 1
    <3>1. PICK m \in Nat : m = Len(s) - 1
      BY <2>1
    <3>2. Len(SubSeq(s, 1, m)) = m
      OBVIOUS
    <3> QED BY <3>1, <3>2
  <2>3. \A p \in 1 .. Len(s) - 1 : f[p] = s[p]
    BY <2>1
  <2>4. f \in Seq(1 .. n)
    BY <1>0, <2>1
  <2> QED BY <2>2, <2>3, <2>4
<1>2. /\ t \in Seq(1 .. n) /\ Len(t) = Len(s) - 1
      /\ \A p \in 1 .. Len(s) - 1 : t[p] = s[p + 1]
  BY <1>0
<1> HIDE DEF f, t
<1>3. ASSUME NEW a \in 1 .. Len(s), NEW b \in 1 .. Len(s), a < b PROVE s[a] < s[b]
  BY <1>3 DEF Rising
<1>4. ASSUME NEW a \in 1 .. Len(f), NEW b \in 1 .. Len(f), a < b PROVE f[a] < f[b]
  <2>1. a \in 1 .. Len(s) - 1 /\ b \in 1 .. Len(s) - 1 /\ a \in 1 .. Len(s) /\ b \in 1 .. Len(s)
    BY <1>0, <1>1
  <2> QED BY <1>1, <1>3, <1>4, <2>1
<1>5. ASSUME NEW a \in 1 .. Len(t), NEW b \in 1 .. Len(t), a < b PROVE t[a] < t[b]
  <2>1. /\ a \in 1 .. Len(s) - 1 /\ b \in 1 .. Len(s) - 1 /\ a + 1 \in 1 .. Len(s) /\ b + 1 \in 1 .. Len(s)
        /\ a + 1 < b + 1
    BY <1>0, <1>2, <1>5
  <2> QED BY <1>2, <1>3, <2>1
<1>6. (f # <<>> <=> Len(s) > 1) /\ (t # <<>> <=> Len(s) > 1)
  BY <1>0, <1>1, <1>2
<1>7. ASSUME NEW p \in 1 .. Len(s) PROVE Head(s) <= s[p] /\ s[p] <= s[Len(s)]
  <2>1. 1 \in 1 .. Len(s) /\ Len(s) \in 1 .. Len(s)
    BY <1>0
  <2>2. Head(s) <= s[p]
    <3>1. CASE p = 1
      BY <1>0, <2>1, <3>1
    <3>2. CASE 1 < p
      <4>1. s[1] < s[p] /\ s[1] \in Int /\ s[p] \in Int
        BY <1>0, <1>3, <2>1, <3>2
      <4> QED BY <1>0, <4>1
    <3> QED BY <3>1, <3>2
  <2>3. s[p] <= s[Len(s)]
    <3>1. CASE p = Len(s)
      BY <1>0, <2>1, <3>1
    <3>2. CASE p < Len(s)
      <4>1. s[p] < s[Len(s)] /\ s[Len(s)] \in Int /\ s[p] \in Int
        BY <1>0, <1>3, <2>1, <3>2
      <4> QED BY <4>1
    <3> QED BY <1>0, <3>1, <3>2
  <2> QED BY <2>2, <2>3
<1>8. Rising(f) /\ Rising(t)
  BY <1>4, <1>5 DEF Rising
<1> QED BY <1>1, <1>2, <1>6, <1>7, <1>8 DEF f, t

LEMMA TwoInitial == ST!TwoInit => TwoInv
  BY DEF ST!TwoInit, TwoInv, Rising

LEMMA TwoStep == ASSUME TwoInv, [ST!TwoNext]_twoVars PROVE TwoInv'
<1> USE DEF TwoInv
<1>1. CASE ST!TwoPush
  <2>1. pushed' = pushed + 1 /\ pushed' \in Nat /\ down' = down
    BY <1>1 DEF ST!TwoPush
  <2>2. CASE ST!IsEmpty \/ q1 # <<>>
    <3>1. q1' = Append(q1, pushed + 1) /\ q2' = q2 /\ q2 = <<>>
      BY <1>1, <2>2 DEF ST!TwoPush, ST!IsEmpty
    <3> QED BY <2>1, <3>1, RisingGrows
  <2>3. CASE ~(ST!IsEmpty \/ q1 # <<>>)
    <3>1. q2' = Append(q2, pushed + 1) /\ q1' = q1 /\ q1 = <<>> /\ q2 # <<>>
      BY <1>1, <2>3 DEF ST!TwoPush, ST!IsEmpty
    <3> QED BY <2>1, <3>1, RisingGrows
  <2> QED BY <2>2, <2>3
<1>2. CASE ST!PopFirst
  <2>1. q1 # <<>> /\ q2 = <<>> /\ q1' = <<>> /\ down' = (Len(q1) > 1) /\ pushed' = pushed
        /\ q2' = q2 \o SubSeq(q1, 1, Len(q1) - 1)
    BY <1>2 DEF ST!PopFirst
  <2>2. q2' = SubSeq(q1, 1, Len(q1) - 1)
    BY <2>1, RisingShrinks, EmptyJoins
  <2> QED BY <2>1, <2>2, RisingShrinks DEF Rising
<1>3. CASE ST!PopSecond
  BY <1>3, RisingShrinks DEF ST!PopSecond
<1>4. CASE UNCHANGED twoVars
  BY <1>4 DEF twoVars
<1> QED BY <1>1, <1>2, <1>3, <1>4 DEF ST!TwoNext, ST!PopEmpty, twoVars, ST!twoVars

LEMMA TwoMeaning == TwoInv => ST!OneQueue
<1> SUFFICES ASSUME TwoInv PROVE ST!OneQueue
  OBVIOUS
<1> USE DEF TwoInv
<1>1. ST!All = q1 \/ ST!All = q2
  BY EmptyJoins DEF ST!All
<1>2. Rising(ST!All) /\ Len(ST!All) \in Nat
  BY <1>1
<1> QED BY <1>2 DEF Rising, ST!OneQueue

LEMMA TurnsIntoAQueue ==
  ASSUME TwoInv, [ST!TwoNext]_twoVars PROVE ST!NewestThenOldest
<1> SUFFICES ASSUME pushed' = pushed, gone' # gone
             PROVE  IF down THEN \A k \in 1 .. Len(ST!All) : gone' <= ST!All[k]
                            ELSE \A k \in 1 .. Len(ST!All) : gone' >= ST!All[k]
  BY DEF ST!NewestThenOldest
<1> USE DEF TwoInv
<1>1. ST!PopFirst \/ ST!PopSecond
  BY DEF ST!TwoNext, ST!TwoPush, ST!PopEmpty, ST!twoVars, twoVars
<1>2. CASE ST!PopFirst
  <2>1. ST!All = q1 /\ ~down /\ q1 # <<>> /\ gone' = q1[Len(q1)]
    BY <1>2, EmptyJoins DEF ST!PopFirst, ST!All, ST!Last1
  <2> QED BY <2>1, RisingShrinks
<1>3. CASE ST!PopSecond
  <2>1. ST!All = q2 /\ down /\ q2 # <<>> /\ gone' = Head(q2)
    BY <1>3, EmptyJoins DEF ST!PopSecond, ST!All
  <2> QED BY <2>1, RisingShrinks
<1> QED BY <1>1, <1>2, <1>3

-----------------------------------------------------------------------------
(* All of them in one: a behaviour of MCSpec runs one program, whose own   *)
(* invariant holds all along.                                              *)
ObjectInv ==
  /\ program = "point"    => PointInv /\ FreedIsBoolean
  /\ program = "value"    => ValueInv
  /\ program = "building" => BuildingInv
  /\ program = "fight"    => FightInv
  /\ program = "iterator" => IterInv
  /\ program = "notify"   => NotifyInv
  /\ program = "ring"     => RingInv
  /\ program = "array"    => ArrayInv
  /\ program = "two"      => TwoInv

LEMMA ObjectInitial == MCInit => ObjectInv
<1> SUFFICES ASSUME MCInit PROVE ObjectInv
  OBVIOUS
<1>1. PointInv /\ FreedIsBoolean
  BY PointInvInit DEF MCInit, Init, FreedIsBoolean
<1>2. ValueInv /\ BuildingInv /\ FightInv
  BY ValueInit, BuildingInitial, FightInitial DEF MCInit
<1>3. IterInv /\ NotifyInv
  BY IterInitial, NotifyInitial DEF MCInit
<1>4. RingInv /\ ArrayInv /\ TwoInv
  BY RingInvInit, ArrayInitial, TwoInitial DEF MCInit
<1> QED BY <1>1, <1>2, <1>3, <1>4 DEF ObjectInv

(* A step is one of the program that runs, and leaves the others alone.    *)
LEMMA OneRuns ==
  ASSUME [MCNext]_MCvars
  PROVE  /\ program' = program
         /\ program = "point"    => [Next]_vars
         /\ program = "value"    => [VC!Next]_valueVars
         /\ program = "building" => [PT!BuildingNext]_buildingVars
         /\ program = "fight"    => [PT!FightNext]_fightVars
         /\ program = "iterator" => [IT!Next]_iterVars
         /\ program = "notify"   => [NL!Next]_notifyVars
         /\ program = "ring"     => [RingNext]_ringVars
         /\ program = "array"    => [ST!ArrayNext]_arrayVars
         /\ program = "two"      => [ST!TwoNext]_twoVars
         /\ program # "point"    => UNCHANGED vars
         /\ program # "building" => UNCHANGED buildingVars
         /\ program # "ring"     => UNCHANGED ringVars
         /\ program # "array"    => UNCHANGED arrayVars
         /\ program # "two"      => UNCHANGED twoVars
  BY DEF MCNext, MCvars, Does, Rest, Point, ValueOf, Building, Fight, Tables, Iterator, Notify, Ring, Array,
         Two, Sorts

LEMMA ObjectStep == ObjectInv /\ [MCNext]_MCvars => ObjectInv'
<1> SUFFICES ASSUME ObjectInv, [MCNext]_MCvars PROVE ObjectInv'
  OBVIOUS
<1>0. program' = program
  BY OneRuns
<1>1. CASE program = "point"
  <2>1. PointInv /\ FreedIsBoolean /\ [Next]_vars
    BY <1>1, OneRuns DEF ObjectInv
  <2> QED BY <1>0, <1>1, <2>1, PointInvStep, FreedStays DEF ObjectInv
<1>2. CASE program = "value"
  BY <1>0, <1>2, OneRuns, ValueStep DEF ObjectInv
<1>3. CASE program = "building"
  BY <1>0, <1>3, OneRuns, BuildingStep DEF ObjectInv
<1>4. CASE program = "fight"
  BY <1>0, <1>4, OneRuns, FightStep DEF ObjectInv
<1>5. CASE program = "iterator"
  BY <1>0, <1>5, OneRuns, IterStep DEF ObjectInv
<1>6. CASE program = "notify"
  BY <1>0, <1>6, OneRuns, NotifyStep DEF ObjectInv
<1>7. CASE program = "ring"
  BY <1>0, <1>7, OneRuns, RingInvStep DEF ObjectInv
<1>8. CASE program = "array"
  BY <1>0, <1>8, OneRuns, ArrayStep DEF ObjectInv
<1>9. CASE program = "two"
  BY <1>0, <1>9, OneRuns, TwoStep DEF ObjectInv
<1>10. CASE program \notin {"point", "value", "building", "fight", "iterator", "notify", "ring", "array", "two"}
  BY <1>0, <1>10 DEF ObjectInv
<1> QED BY <1>1, <1>2, <1>3, <1>4, <1>5, <1>6, <1>7, <1>8, <1>9, <1>10

(* What the run shows of one instance holds of every one: each class,      *)
(* container and pattern, for all its numbers of objects, strings, walkers *)
(* and values, keeps its part of ObjectsHold.                              *)
THEOREM ObjectsAreSafe == MCSpec => []ObjectsHold
<1>1. ObjectInv => ObjectsHold
  <2> SUFFICES ASSUME ObjectInv PROVE ObjectsHold
    OBVIOUS
  <2>1. program = "point" => TypeOK /\ SharedAlike
    BY PointMeaning DEF ObjectInv
  <2>2. program = "value" => VC!OwnString /\ VC!KeepsText /\ VC!KeepsIfSet
    BY ValueMeaning DEF ObjectInv
  <2>3. program = "building" => PT!OneActivity /\ PT!LostInTurn
    BY BuildingMeaning DEF ObjectInv
  <2>4. program = "fight" => PT!TypeOK /\ PT!RoundsNeeded /\ PT!OthersDoNot
    BY FightMeaning DEF ObjectInv
  <2>5. program = "iterator" => IT!EachOnceInTurn /\ IT!ClimbsOn /\ IT!Overshoot /\ IT!AloneNeverOvershoots
    BY IterMeaning DEF ObjectInv
  <2>6. program = "notify" => NL!WildOnlyByErasing
    BY NotifyMeaning DEF ObjectInv
  <2>7. program = "ring" => RingTypeOK /\ InsideWithoutGetTop
    BY DEF ObjectInv, RingInv
  <2>8. program = "array" => ST!IsAStack
    BY DEF ObjectInv, ArrayInv
  <2>9. program = "two" => ST!OneQueue
    BY TwoMeaning DEF ObjectInv
  <2> QED BY <2>1, <2>2, <2>3, <2>4, <2>5, <2>6, <2>7, <2>8, <2>9 DEF ObjectsHold
<1> QED BY <1>1, ObjectInitial, ObjectStep, PTL DEF MCSpec

LEMMA DeletedRead == ObjectInv /\ [MCNext]_MCvars => [ReadIfLast]_vars
  BY OneRuns, DeletedIsRead DEF ObjectInv

(* A full ring stays full and takes nothing, only the end of a last owner  *)
(* reads the deleted counter, a stack popped once too often never says     *)
(* again that it is empty, and MyStack takes its newest value once and     *)
(* then the oldest: no step of any instance undoes it (NoStepUndoes).      *)
THEOREM NothingIsUndone == MCSpec => NoStepUndoes
<1>1. MCSpec => []ObjectInv
  BY ObjectInitial, ObjectStep, PTL DEF MCSpec
<1>2. MCSpec => FullForGood
  <2>1. ObjectInv /\ [MCNext]_MCvars => [size = Cap => size' = Cap /\ accepted' = accepted]_ringVars
    BY OneRuns, FullStays DEF ObjectInv
  <2> QED BY <1>1, <2>1, PTL DEF MCSpec, FullForGood
<1>3. MCSpec => ReadsDeleted
  BY <1>1, DeletedRead, PTL DEF MCSpec, ReadsDeleted
<1>4. MCSpec => ST!NeverEmptyAgain
  <2>1. ObjectInv /\ [MCNext]_MCvars => [arrSize < 0 /\ st' = "ok" => arrSize' < 0]_ST!arrayVars
    BY OneRuns, NeverBack DEF ObjectInv, arrayVars, ST!arrayVars
  <2> QED BY <1>1, <2>1, PTL DEF MCSpec, ST!NeverEmptyAgain
<1>5. MCSpec => ST!StackThenQueue
  <2>1. ObjectInv /\ [MCNext]_MCvars => [ST!NewestThenOldest]_ST!twoVars
    BY OneRuns, TurnsIntoAQueue DEF ObjectInv, twoVars, ST!twoVars
  <2> QED BY <1>1, <2>1, PTL DEF MCSpec, ST!StackThenQueue
<1> QED BY <1>2, <1>3, <1>4, <1>5 DEF NoStepUndoes
=============================================================================
