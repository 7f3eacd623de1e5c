----------------------------- MODULE RingQueue -----------------------------
(***************************************************************************)
(* class Queue of date_struct/queue/Queue: a ring of ints with a capacity. *)
(* Nothing ever takes away from m_QueueSize; GetTop moves the head down,   *)
(* and the remainder of a negative int is negative.                        *)
(***************************************************************************)
EXTENDS Integers, Sequences

CONSTANTS Cap,          \* m_QueueCapaticy
          Values,
          Junk          \* what lies in cells never written and outside
ASSUME RingAssumption == Cap \in Nat \ {0} /\ Junk \notin Values

VARIABLES size, head, tail, cells,
          accepted,     \* the values Enqueue has taken, in order
          served,       \* how many Dequeues returned true, counted up to Cap
          topped,       \* GetTop has moved the head
          out           \* what the last Dequeue printed or GetTop returned

ringVars == <<size, head, tail, cells, accepted, served, topped, out>>

RingInit == /\ size = 0 /\ head = 0 /\ tail = 0 /\ cells = [k \in 0 .. Cap - 1 |-> Junk]
        /\ accepted = <<>> /\ served = 0 /\ topped = FALSE /\ out = Junk

(* The % of C, which takes the sign of its left operand. *)
Rem(a, n) == IF a >= 0 THEN a % n ELSE -((-a) % n)

ReadHead == IF head \in DOMAIN cells THEN cells[head] ELSE Junk

CheckSize == size < Cap

Enqueue(v) ==
  /\ CheckSize
  /\ cells' = [cells EXCEPT ![tail] = v] /\ tail' = Rem(tail + 1, Cap)
  /\ size' = size + 1 /\ accepted' = Append(accepted, v)
  /\ UNCHANGED <<head, served, topped, out>>

(* Enqueue, Dequeue and GetTop refuse: nothing changes. *)
Refuse == (~CheckSize \/ size = 0) /\ UNCHANGED ringVars

Served == served' = IF served < Cap THEN served + 1 ELSE served

(* Mutant of Dequeue: the size goes down and the head stays. *)
DequeueShrinks ==
  /\ size # 0 /\ out' = ReadHead /\ size' = size - 1 /\ Served
  /\ UNCHANGED <<head, tail, cells, accepted, topped>>

(* m_QueueHead = m_QueueHead++ is undefined in the standards before C++17  *)
(* and leaves the head where it is from then on.                           *)
Dequeue ==
  /\ size # 0 /\ out' = ReadHead /\ Served
  /\ \E h \in {head, head + 1} : head' = Rem(h, Cap)
  /\ UNCHANGED <<size, tail, cells, accepted, topped>>

GetTop ==
  /\ size # 0 /\ out' = ReadHead /\ head' = Rem(head - 1, Cap) /\ topped' = TRUE
  /\ UNCHANGED <<size, tail, cells, accepted, served>>

RingNext == (\E v \in Values : Enqueue(v)) \/ Refuse \/ Dequeue \/ GetTop
RingSpec == RingInit /\ [][RingNext]_ringVars

-----------------------------------------------------------------------------
(* The head may leave the array at its lower end, by less than a round.    *)
RingTypeOK ==
  /\ size \in 0 .. Cap /\ head \in (1 - Cap) .. (Cap - 1) /\ tail \in 0 .. Cap - 1
  /\ cells \in [0 .. Cap - 1 -> Values \cup {Junk}] /\ accepted \in Seq(Values)
  /\ served \in 0 .. Cap /\ topped \in BOOLEAN /\ out \in Values \cup {Junk}

(* Whatever mixture of calls, a value that was accepted stays where it is: *)
(* since the size never goes down, the tail never laps.                    *)
NothingOverwritten ==
  /\ Len(accepted) = size /\ tail = (IF size = Cap THEN 0 ELSE size)
  /\ \A k \in 1 .. Len(accepted) : cells[k - 1] = accepted[k]

(* Only GetTop brings the head outside the array (Queue.cpp:70-71): with   *)
(* Enqueue and Dequeue alone, however often, every read is of a cell.      *)
InsideWithoutGetTop == ~topped => head \in DOMAIN cells

(* No call makes room, however much was dequeued: a queue that has been    *)
(* full once stays full and takes no value any more.                       *)
FullForGood == [][size = Cap => size' = Cap /\ accepted' = accepted]_ringVars
=============================================================================
