----------------------------- MODULE SemThreads -----------------------------
(***************************************************************************)
(* c/pthread/sem.c: a producer posts a semaphore and a consumer waits on   *)
(* it, both while running; main clears running after a second and joins    *)
(* first the producer, then the consumer.                                  *)
(***************************************************************************)
EXTENDS Naturals

CONSTANTS Initial,      \* the semaphore's first value, 10 at line 38
          SemMax        \* SEM_VALUE_MAX of the C library
SemAssumption == Initial \in Nat /\ SemMax \in Nat /\ Initial <= SemMax

VARIABLES running,      \* the global flag
          sem,          \* the semaphore's value
          destroyed,    \* sem_destroy has been called
          prod, cons,   \* where the two threads are
          main          \* where main is

vars == <<running, sem, destroyed, prod, cons, main>>

(* main has created the threads, lines 38-41. *)
Init == /\ running = TRUE /\ sem = Initial /\ destroyed = FALSE
        /\ prod = "test" /\ cons = "test" /\ main = "sleep"

-----------------------------------------------------------------------------
(* while(running) and usleep of product, lines 12-14. *)
ProducerTest == /\ prod = "test" /\ prod' = (IF running THEN "post" ELSE "end")
                /\ UNCHANGED <<running, sem, destroyed, cons, main>>

(* sem_post, line 15.  At SemMax it fails and leaves the semaphore alone;   *)
(* the program does not look.                                               *)
Post == /\ prod = "post" /\ prod' = "test"
        /\ sem' = IF sem < SemMax THEN sem + 1 ELSE sem
        /\ UNCHANGED <<running, destroyed, cons, main>>

(* while(running) and usleep of consume, lines 24-26. *)
ConsumerTest == /\ cons = "test" /\ cons' = (IF running THEN "wait" ELSE "end")
                /\ UNCHANGED <<running, sem, destroyed, prod, main>>

(* Mutant of Wait: the consumer takes two units a round. *)
WaitTwo == /\ cons = "wait" /\ sem > 1 /\ sem' = sem - 2 /\ cons' = "test"
           /\ UNCHANGED <<running, destroyed, prod, main>>

(* sem_wait, line 27: it returns when there is a unit to take. *)
Wait == /\ cons = "wait" /\ sem > 0 /\ sem' = sem - 1 /\ cons' = "test"
        /\ UNCHANGED <<running, destroyed, prod, main>>

(* sleep has passed, lines 43-44. *)
Clear == /\ main = "sleep" /\ running' = FALSE /\ main' = "join prod"
         /\ UNCHANGED <<sem, destroyed, prod, cons>>

JoinProducer == /\ main = "join prod" /\ prod = "end" /\ main' = "join cons"
                /\ UNCHANGED <<running, sem, destroyed, prod, cons>>

(* pthread_join of the consumer, sem_destroy and return, lines 46-49. *)
JoinConsumer == /\ main = "join cons" /\ cons = "end"
                /\ destroyed' = TRUE /\ main' = "exit"
                /\ UNCHANGED <<running, sem, prod, cons>>

Producer == ProducerTest \/ Post
Consumer == ConsumerTest \/ Wait
Main     == Clear \/ JoinProducer \/ JoinConsumer
Ended    == main = "exit" /\ UNCHANGED vars

(* The consumer is asleep and nobody is left to post. *)
Starved == cons = "wait" /\ sem = 0 /\ prod = "end"
Hung    == main = "join cons" /\ cons = "wait" /\ prod = "end" /\ UNCHANGED vars

Next == Producer \/ Consumer \/ Main \/ Ended \/ Hung

(* Both threads and main are scheduled; sleep ends. *)
Fairness == WF_vars(Producer) /\ WF_vars(Consumer) /\ WF_vars(Main)
Spec == Init /\ [][Next]_vars /\ Fairness

-----------------------------------------------------------------------------
TypeOK == /\ running \in BOOLEAN /\ destroyed \in BOOLEAN /\ sem \in 0 .. SemMax
          /\ prod \in {"test", "post", "end"} /\ cons \in {"test", "wait", "end"}
          /\ main \in {"sleep", "join prod", "join cons", "exit"}

(* The semaphore is destroyed only when no thread can touch it any more    *)
(* (lines 45-47): the order of the joins and of the test of running.       *)
DestroyedIdle == destroyed => prod = "end" /\ cons = "end"

(* Starvation is final: the unit the consumer waits for can only come from *)
(* the producer, which has left its loop (lines 12 and 27).                *)
StarvedForGood == [][Starved => Starved']_vars

(* The only way in which the program does not end is that the consumer     *)
(* went to sleep on an empty semaphore after the producer's last post.     *)
EndsUnlessStarved == <>(main = "exit" \/ Starved)

(* One unit left when running is cleared is enough: whatever the threads   *)
(* are doing then, the consumer waits at most once more and main ends.     *)
OneUnitEnds == [](main = "join prod" /\ sem > 0 => <>(main = "exit"))
=============================================================================
