----------------------------- MODULE PointClass -----------------------------
(***************************************************************************)
(* C++/Prime/class/point_class: objects that share a string through a      *)
(* pointer and count its owners.  A block stands for the string *ps and    *)
(* its counter *use, which are made and deleted together; the allocator    *)
(* may hand out a freed block again.                                       *)
(***************************************************************************)
EXTENDS Integers, FiniteSets

CONSTANTS Objects, Blocks, Numbers
ASSUME PointAssumption == IsFiniteSet(Objects) /\ Numbers # {} /\ "none" \notin Blocks

VARIABLES ps,           \* per object: its block; "none" before and after its life
          i,            \* per object
          use,          \* per block: the counter, 0 when it is free
          freed         \* the last destructor printed *use after deleting it

vars == <<ps, i, use, freed>>
None == "none"

Alive       == {o \in Objects : ps[o] # None}
Owners(b)   == {o \in Alive : ps[o] = b}
Free        == {b \in Blocks : use[b] = 0}

TypeOK == /\ ps \in [Objects -> Blocks \cup {None}] /\ i \in [Objects -> Numbers]
          /\ use \in [Blocks -> 0 .. Cardinality(Objects)] /\ freed \in BOOLEAN

Init == /\ ps = [o \in Objects |-> None] /\ i = [o \in Objects |-> CHOOSE n \in Numbers : TRUE]
        /\ use = [b \in Blocks |-> 0] /\ freed = FALSE

(* The constructors make a block, with the number given. *)
Construct(o) == /\ ps[o] = None /\ \E b \in Free, n \in Numbers :
                     ps' = [ps EXCEPT ![o] = b] /\ use' = [use EXCEPT ![b] = 1] /\ i' = [i EXCEPT ![o] = n]
                /\ freed' = FALSE

Copy(o, ref) == /\ ps[o] = None /\ ps[ref] # None /\ ps' = [ps EXCEPT ![o] = ps[ref]]
                /\ i' = [i EXCEPT ![o] = i[ref]] /\ use' = [use EXCEPT ![ps[ref]] = @ + 1] /\ freed' = FALSE

(* Mutant of Assign: the old block is let go before the new one is held,   *)
(* so that an assignment to itself deletes it.                             *)
AssignReleasesFirst(o, ref) ==
  /\ ps[o] # None /\ ps[ref] # None /\ ps' = [ps EXCEPT ![o] = ps[ref]] /\ i' = [i EXCEPT ![o] = i[ref]]
  /\ LET let == [use EXCEPT ![ps[o]] = @ - 1] IN
       use' = IF let[ps[ref]] = 0 THEN let ELSE [let EXCEPT ![ps[ref]] = @ + 1]
  /\ freed' = FALSE

Assign(o, ref) == /\ ps[o] # None /\ ps[ref] # None /\ ps' = [ps EXCEPT ![o] = ps[ref]] /\ i' = [i EXCEPT ![o] = i[ref]]
                  /\ LET held == [use EXCEPT ![ps[ref]] = @ + 1] IN use' = [held EXCEPT ![ps[o]] = @ - 1]
                  /\ freed' = FALSE

(* The destructor prints *use at its end, deleted or not. *)
Destroy(o) == /\ ps[o] # None /\ use' = [use EXCEPT ![ps[o]] = @ - 1] /\ ps' = [ps EXCEPT ![o] = None]
              /\ freed' = (use[ps[o]] = 1) /\ UNCHANGED i

Next == \E o \in Objects : \/ Construct(o) \/ Destroy(o)
                           \/ \E ref \in Objects : Copy(o, ref) \/ Assign(o, ref)
Spec == Init /\ [][Next]_vars

-----------------------------------------------------------------------------
(* The counter of a block is the number of the objects that hold it, so no *)
(* object ever holds a block that was deleted or handed out again, and no  *)
(* block outlives its owners, self-assignment included.                    *)
CountsOwners == \A b \in Blocks : use[b] = Cardinality(Owners(b))

(* Objects that share a block agree on the number that came with it. *)
SharedAlike == \A o, q \in Alive : ps[o] = ps[q] => i[o] = i[q]

(* The deleted counter is read whenever an object dies that nobody shares  *)
(* its block with, and by no other step: neither by the end of one of      *)
(* several owners nor by an assignment that lets the last one go.          *)
LastOwnerGoes == \E o \in Alive : ps'[o] = None /\ Owners(ps[o]) = {o}
ReadIfLast    == freed' <=> LastOwnerGoes
ReadsDeleted  == [][ReadIfLast]_vars
=============================================================================
