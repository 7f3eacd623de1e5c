------------------------------- MODULE Stacks --------------------------------
EXTENDS Integers, Sequences, Naturals, FiniteSets, SequencesExt

(***************************************************************************)
(* class Stack of date_struct/stack/Stack: an array and a size that nobody *)
(* compares with anything but 0.  Pop of an empty stack only moves the     *)
(* size, its reference is into nothing; a write or a read outside of the   *)
(* array is a fault.                                                       *)
(***************************************************************************)

CONSTANTS Cap, ArrayValues, Junk,
          Room          \* how far outside the size is followed
StackAssumption == Cap \in Nat /\ Room \in Nat /\ Junk \notin ArrayValues

VARIABLES size, arr,    \* stack_size and the array
          model,        \* the values pushed and not popped
          st            \* "ok" or "fault"

arrayVars == <<size, arr, model, st>>

ArrayInit == size = 0 /\ arr = [i \in 0 .. Cap - 1 |-> Junk] /\ model = <<>> /\ st = "ok"

ArrayPush(v) == /\ size' = size + 1 /\ model' = Append(model, v)
                /\ IF size \in DOMAIN arr THEN arr' = [arr EXCEPT ![size] = v] /\ UNCHANGED st
                   ELSE st' = "fault" /\ UNCHANGED arr

Pop == /\ size > -Room /\ size' = size - 1 /\ UNCHANGED <<arr, st>>
       /\ model' = (IF model = <<>> THEN <<>> ELSE SubSeq(model, 1, Len(model) - 1))

Top == size - 1 \notin DOMAIN arr /\ st' = "fault" /\ UNCHANGED <<size, arr, model>>

ArrayNext == st = "ok" /\ ((\E v \in ArrayValues : ArrayPush(v)) \/ Pop \/ Top)
ArraySpec == ArrayInit /\ [][ArrayNext]_arrayVars

-----------------------------------------------------------------------------
(* Until somebody pops an empty stack or pushes onto a full one the array  *)
(* up to the size is what was pushed and not popped, and Top reads its     *)
(* last value; nothing but the size tells when that is over.               *)
IsAStack == st = "ok" /\ size >= 0 =>
  Len(model) = size /\ size <= Cap /\ \A i \in 1 .. size : arr[i - 1] = model[i]

(* A stack popped once too often never says again that it is empty: no     *)
(* call brings the size back without writing in front of the array.        *)
NeverEmptyAgain == [][size < 0 /\ st' = "ok" => size' < 0]_arrayVars

------------------------------------------------------------------------------
(***************************************************************************)
(* class MyStack of date_struct/queue/queue2stack.cpp, a stack made of two *)
(* queues.  Pop returns nothing, and compiles under -fpermissive only; its *)
(* test !q2.size() > 1 is never true, so the second queue is popped at its *)
(* front.  The values are the numbers of the Pushes.                       *)
(***************************************************************************)

CONSTANT Pushes         \* how many there are
PushAssumption == Pushes \in Nat

VARIABLES q1, q2, pushed,
          down,         \* Pop has emptied the first queue into the second,
                        \* and the second was not empty since
          gone          \* the value the last Pop took off, 0 before

twoVars == <<q1, q2, pushed, down, gone>>

TwoInit == q1 = <<>> /\ q2 = <<>> /\ pushed = 0 /\ down = FALSE /\ gone = 0

IsEmpty == q1 = <<>> /\ q2 = <<>>

TwoPush == /\ pushed < Pushes /\ pushed' = pushed + 1
           /\ IF IsEmpty \/ q1 # <<>> THEN q1' = Append(q1, pushed + 1) /\ UNCHANGED q2
              ELSE q2' = Append(q2, pushed + 1) /\ UNCHANGED q1
           /\ UNCHANGED <<down, gone>>

Last1 == q1[Len(q1)]

(* Mutant of PopFirst: all but the first are moved. *)
PopFirstFront == /\ q1 # <<>> /\ gone' = Head(q1) /\ q2' = q2 \o Tail(q1)
                 /\ q1' = <<>> /\ down' = (Len(q1) > 1) /\ UNCHANGED pushed

PopFirst == /\ q1 # <<>> /\ gone' = Last1 /\ q2' = q2 \o SubSeq(q1, 1, Len(q1) - 1)
            /\ q1' = <<>> /\ down' = (Len(q1) > 1) /\ UNCHANGED pushed

PopSecond == /\ q1 = <<>> /\ q2 # <<>> /\ gone' = Head(q2) /\ q2' = Tail(q2)
             /\ down' = (Len(q2) > 1) /\ UNCHANGED <<q1, pushed>>

PopEmpty == IsEmpty /\ UNCHANGED twoVars

TwoNext == TwoPush \/ PopFirst \/ PopSecond \/ PopEmpty
TwoSpec == TwoInit /\ [][TwoNext]_twoVars

-----------------------------------------------------------------------------
All == q1 \o q2

(* One of the queues is empty, so Top, the back of the one that is not, is *)
(* the last value pushed of those that are left, which are in the order of *)
(* their pushes.                                                           *)
OneQueue == /\ q1 = <<>> \/ q2 = <<>>
            /\ \A i \in 2 .. Len(All) : All[i - 1] < All[i]
            /\ down <=> q2 # <<>>

(* Pop takes the newest value once, and from then on the oldest, until     *)
(* nothing is left: a stack that turns into a queue.                       *)
NewestThenOldest == pushed' = pushed /\ gone' # gone =>
  IF down THEN \A i \in 1 .. Len(All) : gone' <= All[i] ELSE \A i \in 1 .. Len(All) : gone' >= All[i]
StackThenQueue == [][NewestThenOldest]_twoVars

------------------------------------------------------------------------------
(***************************************************************************)
(* SortStack (stack/sortStack.cpp), ReverseQueue (queue/sortQueue.cpp) and *)
(* RevertQueue (queue/resverQueue.cpp): sorting and turning over with one  *)
(* more stack or queue, a value at a time.  A stack has its top first.     *)
(***************************************************************************)

CONSTANTS SortValues,       \* a finite set of integers
          MaxLen        \* of what is sorted
SortAssumption == SortValues \subseteq Int /\ MaxLen \in Nat

VARIABLES what,         \* "stack", "queue" or "revert"
          orig, main, tmp,      \* the input, what is left of it, the other container
          held,         \* cur_value or max, in hand: a sequence of at most one
          left, count,  \* ReverseQueue's old_size and count
          shown,        \* what RevertQueue's Show has printed
          sortPc            \* "outer", "inner", "back" or "done"

sortVars == <<what, orig, main, tmp, held, left, count, shown, sortPc>>

SortInit == /\ what \in {"stack", "queue", "revert"} /\ orig \in BoundedSeq(SortValues, MaxLen)
            /\ main = orig /\ tmp = <<>> /\ held = <<>> /\ left = Len(orig) /\ count = 0
            /\ shown = <<>> /\ sortPc = "outer"

At(w, p)  == what = w /\ sortPc = p /\ UNCHANGED <<what, orig>>
Go(p)     == sortPc' = p
Keep      == UNCHANGED <<left, count, shown>>

-----------------------------------------------------------------------------
(* SortStack. *)
TakeTop == At("stack", "outer") /\ main # <<>> /\ held' = <<Head(main)>> /\ main' = Tail(main)
           /\ Go("inner") /\ UNCHANGED tmp /\ Keep

PutBack == At("stack", "inner") /\ tmp # <<>> /\ held[1] < tmp[1]
           /\ main' = <<Head(tmp)>> \o main /\ tmp' = Tail(tmp) /\ Go("inner") /\ UNCHANGED held /\ Keep

PutCur == At("stack", "inner") /\ (tmp # <<>> => held[1] >= tmp[1])
          /\ tmp' = held \o tmp /\ held' = <<>> /\ Go("outer") /\ UNCHANGED main /\ Keep

StackBack == At("stack", "outer") /\ main = <<>> /\ Go("done")
             /\ main' = Reverse(tmp) /\ tmp' = <<>> /\ UNCHANGED held /\ Keep

-----------------------------------------------------------------------------
(* ReverseQueue: a round finds the smallest value and queues the others.   *)
TakeFront == At("queue", "outer") /\ left > 0 /\ held' = <<Head(main)>> /\ main' = Tail(main)
             /\ count' = left - 1 /\ Go("inner") /\ UNCHANGED <<tmp, left, shown>>

Compare == /\ At("queue", "inner") /\ count > 0 /\ count' = count - 1 /\ Go("inner")
           /\ IF Head(main) < held[1]
              THEN main' = Append(Tail(main), held[1]) /\ held' = <<Head(main)>>
              ELSE main' = Append(Tail(main), Head(main)) /\ UNCHANGED held
           /\ UNCHANGED <<tmp, left, shown>>

PutMax == At("queue", "inner") /\ count = 0 /\ tmp' = tmp \o held /\ held' = <<>>
          /\ left' = left - 1 /\ Go("outer") /\ UNCHANGED <<main, count, shown>>

QueueBack == At("queue", "outer") /\ left = 0 /\ main' = tmp /\ tmp' = <<>> /\ Go("done")
             /\ UNCHANGED held /\ Keep

-----------------------------------------------------------------------------
(* RevertQueue: through a stack and back, and Show takes everything out.   *)
Stack  == At("revert", "outer") /\ main # <<>> /\ tmp' = <<Head(main)>> \o tmp /\ main' = Tail(main)
          /\ Go("outer") /\ UNCHANGED held /\ Keep
Turn   == At("revert", "outer") /\ main = <<>> /\ Go("back") /\ UNCHANGED <<main, tmp, held>> /\ Keep
Queue  == At("revert", "back") /\ tmp # <<>> /\ main' = Append(main, Head(tmp)) /\ tmp' = Tail(tmp)
          /\ Go("back") /\ UNCHANGED held /\ Keep
Show   == At("revert", "back") /\ tmp = <<>> /\ shown' = main /\ main' = <<>> /\ Go("done")
          /\ UNCHANGED <<tmp, held, left, count>>

SortNext == TakeTop \/ PutBack \/ PutCur \/ StackBack \/ TakeFront \/ Compare \/ PutMax \/ QueueBack
            \/ Stack \/ Turn \/ Queue \/ Show
SortSpec == SortInit /\ [][SortNext]_sortVars /\ WF_sortVars(SortNext)

-----------------------------------------------------------------------------
Copies(v, s) == Cardinality({i \in 1 .. Len(s) : s[i] = v})
Sorted(s)    == \A i \in 2 .. Len(s) : s[i - 1] <= s[i]

(* At every moment the values are those of the input, in the two           *)
(* containers and the hand.                                                *)
NothingLost == \A v \in SortValues : Copies(v, orig) = Copies(v, main \o tmp \o held \o shown)

(* SortStack's second stack is sorted at every moment; ReverseQueue's      *)
(* second queue is sorted and after a round below everything that is left. *)
SortedSoFar ==
  /\ what = "stack" => /\ Sorted(Reverse(tmp)) /\ sortPc = "done" => Sorted(main)
  /\ what = "queue" => /\ Sorted(tmp) /\ sortPc = "done" => Sorted(main)
                       /\ sortPc = "outer" => \A a \in Range(tmp), b \in Range(main) : a <= b

(* RevertQueue shows the queue turned over and leaves it empty. *)
TurnedOver == what = "revert" /\ sortPc = "done" => shown = Reverse(orig) /\ main = <<>>

Ends == <>(sortPc = "done")
==============================================================================
