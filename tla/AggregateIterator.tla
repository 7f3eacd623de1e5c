-------------------------- MODULE AggregateIterator --------------------------
(***************************************************************************)
(* design/iterator: an aggregate keeps one iterator and gives it to        *)
(* everybody who asks.  A walk is the loop of main; walks may be nested or *)
(* follow one another, and items are pushed meanwhile.  An item is the     *)
(* number of its place.                                                    *)
(***************************************************************************)
EXTENDS Integers, Sequences, FiniteSets

CONSTANTS Walkers, MaxItems, MaxWalks
IteratorAssumption == IsFiniteSet(Walkers) /\ Walkers # {} /\ MaxItems \in Nat /\ MaxWalks \in Nat

VARIABLES class,        \* of the aggregate: "Concrete" or "List"
          count,        \* Count(): how many items there are
          made,         \* m_pIterator is not NULL
          m_iCurrent,   \* of that iterator
          at,           \* per walker: "out", "head" of the loop or its "body"
          seen,         \* per walker: the items getCur gave it
          walks,        \* per walker: the walks it has begun
          nested        \* two walks have overlapped

vars == <<class, count, made, m_iCurrent, at, seen, walks, nested>>

Init == /\ class \in {"Concrete", "List"} /\ count = 0 /\ made = FALSE /\ m_iCurrent = 0
        /\ at = [w \in Walkers |-> "out"] /\ seen = [w \in Walkers |-> <<>>]
        /\ walks = [w \in Walkers |-> 0] /\ nested = FALSE

Pop(i) == IF i < count THEN i ELSE -1           \* -1: the empty string

Push == /\ count < MaxItems /\ count' = count + 1
        /\ UNCHANGED <<class, made, m_iCurrent, at, seen, walks, nested>>

(* CreateIterator makes the iterator once; First shows the first item and  *)
(* does not go back to it.                                                 *)
CreateIterator(w) == /\ at[w] = "out" /\ walks[w] < MaxWalks /\ at' = [at EXCEPT ![w] = "head"]
                     /\ made' = TRUE /\ m_iCurrent' = (IF made THEN m_iCurrent ELSE 0)
                     /\ walks' = [walks EXCEPT ![w] = @ + 1]
                     /\ nested' = (nested \/ \E v \in Walkers \ {w} : at[v] # "out")
                     /\ UNCHANGED <<class, count, seen>>

isEnd == m_iCurrent >= count

(* The loop's condition, and getCur in its body. *)
getCur(w) == /\ at[w] = "head" /\ ~isEnd /\ at' = [at EXCEPT ![w] = "body"]
             /\ seen' = [seen EXCEPT ![w] = Append(@, Pop(m_iCurrent))]
             /\ UNCHANGED <<class, count, made, m_iCurrent, walks, nested>>

(* Mutant of Leave: the loop waits for one place more. *)
LeaveLate(w) == /\ at[w] = "head" /\ m_iCurrent > count /\ at' = [at EXCEPT ![w] = "out"]
                /\ UNCHANGED <<class, count, made, m_iCurrent, seen, walks, nested>>

Leave(w)  == /\ at[w] = "head" /\ isEnd /\ at' = [at EXCEPT ![w] = "out"]
             /\ UNCHANGED <<class, count, made, m_iCurrent, seen, walks, nested>>

(* Next moves on whether or not there is an item. *)
NextItem(w) == /\ at[w] = "body" /\ at' = [at EXCEPT ![w] = "head"] /\ m_iCurrent' = m_iCurrent + 1
               /\ UNCHANGED <<class, count, made, seen, walks, nested>>

Walk(w) == getCur(w) \/ Leave(w) \/ NextItem(w)

(* The two classes of aggregates and of iterators have the same bodies.    *)
ConcreteAggregate == class = "Concrete" /\ (Push \/ \E w \in Walkers : CreateIterator(w))
ConcreteIterator  == class = "Concrete" /\ \E w \in Walkers : Walk(w)
ListAggregate     == class = "List" /\ (Push \/ \E w \in Walkers : CreateIterator(w))
ListIterator      == class = "List" /\ \E w \in Walkers : Walk(w)

Next == ConcreteAggregate \/ ConcreteIterator \/ ListAggregate \/ ListIterator
Spec == Init /\ [][Next]_vars /\ \A w \in Walkers : WF_vars(Walk(w))

-----------------------------------------------------------------------------
InBody == {w \in Walkers : at[w] = "body"}

(* Where item i was given to somebody: <<walker, place in what it saw>>.   *)
Places(i) == {s \in Walkers \X (1 .. MaxItems) : s[2] <= Len(seen[s[1]]) /\ seen[s[1]][s[2]] = i}

(* As long as walks do not overlap, all of them together see every item    *)
(* once, in its order, up to where the iterator stands: the second walk    *)
(* sees only what was pushed after the first.                              *)
EachOnceInTurn ==
  ~nested => \A i \in 0 .. count - 1 :
               Cardinality(Places(i)) = IF i < m_iCurrent \/ (i = m_iCurrent /\ InBody # {}) THEN 1 ELSE 0

(* Nobody is ever given an item twice or in another order, and never       *)
(* getCur's empty string, however the walks are nested.                    *)
ClimbsOn == \A w \in Walkers : \A p \in DOMAIN seen[w] :
              seen[w][p] >= 0 /\ (p > 1 => seen[w][p - 1] < seen[w][p])

(* Nested walks push the iterator past the end, each walk but one by one   *)
(* place: so many items pushed later will not be seen by anybody.          *)
Overshoot == m_iCurrent + Cardinality(InBody) <= count + Cardinality(Walkers) - 1
AloneNeverOvershoots == ~nested => m_iCurrent <= count

(* Every walk ends. *)
WalksEnd == \A w \in Walkers : at[w] # "out" ~> at[w] = "out"
=============================================================================
