----------------------------- MODULE ValueClass -----------------------------
(***************************************************************************)
(* C++/Prime/class/value_class: objects with a string of their own.  The   *)
(* allocator may hand out a freed string's memory again.                   *)
(***************************************************************************)
EXTENDS Integers, FiniteSets

CONSTANTS Objects, Blocks, Texts, Numbers
ValueAssumption == /\ IsFiniteSet(Blocks) /\ "none" \notin Blocks
                   /\ 0 \in Numbers /\ "" \in Texts /\ "free" \notin Texts

VARIABLES ps,           \* per object: its block, or "none"
          text,         \* per block: the string in it, or "free"
          i,            \* per object: m_i as it is
          value,        \* per object: the text and number it should hold
          unset         \* objects whose i was never written, or copied from one

vars == <<ps, text, i, value, unset>>
None == "none"
Free == {b \in Blocks : text[b] = "free"}

Init == /\ ps = [o \in Objects |-> None] /\ text = [b \in Blocks |-> "free"]
        /\ i = [o \in Objects |-> 0] /\ value = [o \in Objects |-> <<"", 0>>] /\ unset = {}

(* A new string at o's place. *)
Place(o, s, n, should) == \E b \in Free : /\ ps' = [ps EXCEPT ![o] = b] /\ text' = [text EXCEPT ![b] = s]
                                          /\ i' = [i EXCEPT ![o] = n] /\ value' = [value EXCEPT ![o] = should]

Default(o) == ps[o] = None /\ Place(o, "", 0, <<"", 0>>) /\ unset' = unset \ {o}

(* The parameter has no name in the definition: i(i) copies the member,    *)
(* never written before, to itself.                                        *)
Construct(o, s, n) == ps[o] = None /\ \E garbage \in Numbers : Place(o, s, garbage, <<s, n>>) /\ unset' = unset \cup {o}

Spread(o, ref) == unset' = IF ref \in unset THEN unset \cup {o} ELSE unset \ {o}

Copy(o, ref) == /\ ps[o] = None /\ ps[ref] # None /\ Place(o, text[ps[ref]], i[ref], value[ref]) /\ Spread(o, ref)

(* Mutant of Assign: the old string is deleted first, and the new one may  *)
(* be made where it was.                                                   *)
AssignDeletesFirst(o, ref) ==
  /\ ps[o] # None /\ ps[ref] # None
  /\ LET deleted == [text EXCEPT ![ps[o]] = "free"]
     IN  \E b \in Free \cup {ps[o]} : ps' = [ps EXCEPT ![o] = b] /\ text' = [deleted EXCEPT ![b] = deleted[ps[ref]]]
  /\ i' = [i EXCEPT ![o] = i[ref]] /\ value' = [value EXCEPT ![o] = value[ref]] /\ Spread(o, ref)

(* The new string is made before the old one is deleted: for both there    *)
(* must be memory.                                                         *)
Assign(o, ref) == /\ ps[o] # None /\ ps[ref] # None
                  /\ \E b \in Free : /\ ps' = [ps EXCEPT ![o] = b]
                                     /\ text' = [text EXCEPT ![b] = text[ps[ref]], ![ps[o]] = "free"]
                  /\ i' = [i EXCEPT ![o] = i[ref]] /\ value' = [value EXCEPT ![o] = value[ref]] /\ Spread(o, ref)

Destroy(o) == /\ ps[o] # None /\ text' = [text EXCEPT ![ps[o]] = "free"] /\ ps' = [ps EXCEPT ![o] = None]
              /\ unset' = unset \ {o} /\ UNCHANGED <<i, value>>

Next == \E o \in Objects : \/ Default(o) \/ Destroy(o)
                           \/ \E s \in Texts, n \in Numbers : Construct(o, s, n)
                           \/ \E ref \in Objects : Copy(o, ref) \/ Assign(o, ref)
Spec == Init /\ [][Next]_vars

-----------------------------------------------------------------------------
Alive == {o \in Objects : ps[o] # None}

(* Each object has a string of its own, and every string has an object.    *)
OwnString == /\ \A o, q \in Alive : ps[o] = ps[q] => o = q
             /\ {ps[o] : o \in Alive} = Blocks \ Free

(* It holds the text it was given, through every copy and assignment, an   *)
(* assignment to itself included; and the number too, unless that goes     *)
(* back to a constructor that never set it.                                *)
KeepsText   == \A o \in Alive : text[ps[o]] = value[o][1]
KeepsIfSet  == \A o \in Alive \ unset : i[o] = value[o][2]
=============================================================================
