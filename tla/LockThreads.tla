---------------------------- MODULE LockThreads ----------------------------
(***************************************************************************)
(* c/pthread/lock.c: one thread increments buffer_item, the other          *)
(* decrements it, both under a mutex.  main joins with the addresses of    *)
(* the functions instead of the thread handles, then destroys the mutex.   *)
(***************************************************************************)
EXTENDS Integers

CONSTANTS MaxRounds,    \* bound on the rounds of each thread
          Nobody        \* the mutex is free
Parties == {"prodect", "consume"}
RoundsAssumption == MaxRounds \in Nat /\ Nobody \notin Parties

VARIABLES running, buffer_item,
          owner,        \* who holds the mutex
          dead,         \* pthread_mutex_destroy has succeeded
          at,           \* thread -> where it is
          loaded,       \* thread -> the value it has read
          rounds,       \* thread -> updates it has stored
          main          \* where main is

vars == <<running, buffer_item, owner, dead, at, loaded, rounds, main>>

Init == /\ running = TRUE /\ buffer_item = 0 /\ owner = Nobody /\ dead = FALSE
        /\ at = [t \in Parties |-> "test"] /\ loaded = [t \in Parties |-> 0]
        /\ rounds = [t \in Parties |-> 0] /\ main = "usleep"

Alive      == main \notin {"exit", "crashed"}
Go(t, a, b) == Alive /\ at[t] = a /\ at' = [at EXCEPT ![t] = b]
Delta(t)   == IF t = "prodect" THEN 1 ELSE -1

-----------------------------------------------------------------------------
(* Mutant of Test: the thread never looks at running. *)
TestForever(t) == /\ Go(t, "test", "lock")
                  /\ UNCHANGED <<running, buffer_item, owner, dead, loaded, rounds, main>>

(* while(running). *)
Test(t) ==
  /\ running => rounds[t] < MaxRounds
  /\ Go(t, "test", IF running THEN "lock" ELSE "end")
  /\ UNCHANGED <<running, buffer_item, owner, dead, loaded, rounds, main>>

(* pthread_mutex_lock.  On the destroyed mutex it fails at once and the     *)
(* thread goes on without it: the result is not looked at.                  *)
Lock(t) ==
  /\ Go(t, "lock", "load")
  /\ IF dead THEN UNCHANGED owner ELSE owner = Nobody /\ owner' = t
  /\ UNCHANGED <<running, buffer_item, dead, loaded, rounds, main>>

(* buffer_item++ and buffer_item-- are a load and a store. *)
Load(t) == /\ Go(t, "load", "store") /\ loaded' = [loaded EXCEPT ![t] = buffer_item]
           /\ UNCHANGED <<running, buffer_item, owner, dead, rounds, main>>

Store(t) == /\ Go(t, "store", "unlock") /\ buffer_item' = loaded[t] + Delta(t)
            /\ rounds' = [rounds EXCEPT ![t] = @ + 1]
            /\ UNCHANGED <<running, owner, dead, loaded, main>>

(* pthread_mutex_unlock; on the destroyed mutex it does nothing. *)
Unlock(t) == /\ Go(t, "unlock", "test")
             /\ owner' = IF dead THEN owner ELSE Nobody
             /\ UNCHANGED <<running, buffer_item, dead, loaded, rounds, main>>

(* usleep has passed, lines 42-43. *)
Clear == /\ main = "usleep" /\ running' = FALSE /\ main' = "join"
         /\ UNCHANGED <<buffer_item, owner, dead, at, loaded, rounds>>

(* pthread_join of a function's address, lines 45-46: what is there taken   *)
(* for a thread descriptor crashes the process, is refused, or is waited    *)
(* for and never ends (main stays at "join").                               *)
Join == /\ main = "join" /\ main' \in {"crashed", "destroy"}
        /\ UNCHANGED <<running, buffer_item, owner, dead, at, loaded, rounds>>

(* pthread_mutex_destroy, line 47: refused (EBUSY) while the mutex is held. *)
Destroy == /\ main = "destroy" /\ main' = "return" /\ dead' = (owner = Nobody)
           /\ UNCHANGED <<running, buffer_item, owner, at, loaded, rounds>>

(* return ends the process whatever the threads are doing. *)
Return == /\ main = "return" /\ main' = "exit"
          /\ UNCHANGED <<running, buffer_item, owner, dead, at, loaded, rounds>>

Thread(t) == Test(t) \/ Lock(t) \/ Load(t) \/ Store(t) \/ Unlock(t)
Next == Clear \/ Join \/ Destroy \/ Return \/ \E t \in Parties : Thread(t)
Spec == Init /\ [][Next]_vars

-----------------------------------------------------------------------------
Inside(t) == at[t] \in {"load", "store", "unlock"}
Made == rounds["prodect"]
Taken == rounds["consume"]

TypeOK == /\ running \in BOOLEAN /\ dead \in BOOLEAN /\ buffer_item \in Int
          /\ owner \in Parties \cup {Nobody}
          /\ at \in [Parties -> {"test", "lock", "load", "store", "unlock", "end"}]
          /\ loaded \in [Parties -> Int] /\ rounds \in [Parties -> 0 .. MaxRounds]
          /\ main \in {"usleep", "join", "crashed", "destroy", "return", "exit"}

(* Until main destroys the mutex the counter is what was produced less what *)
(* was consumed, although main has not waited for the threads.              *)
ExactUntilDestroyed == ~dead => buffer_item = Made - Taken

(* A thread inside the critical section owns the mutex until main takes it  *)
(* away, so no two are inside.                                              *)
InsideOwns == ~dead => \A t \in Parties : Inside(t) => owner = t

(* The missing joins cost one update at most: when the mutex can be         *)
(* destroyed running is cleared and each thread has one round left, and     *)
(* those two can overwrite each other once.                                 *)
AtMostOneLost == buffer_item - (Made - Taken) \in {-1, 0, 1}
=============================================================================
