--------------------------- MODULE SingletonLock ---------------------------
(***************************************************************************)
(* Singleton::getInstance of design/singleton/singleton_= (and of          *)
(* singleton_mutex, the same lines): double-checked locking whose          *)
(* constructor calls pthread_mutex_init on the mutex it runs under.        *)
(*                                                                         *)
(* What that call undoes is the state of the mutex, so the mutex is        *)
(* modelled by its word in memory and the threads that sleep on it: 0 is   *)
(* free, 1 taken, 2 taken with possible sleepers.  The build is            *)
(* unoptimised for x86, where the pointer is read and written whole and    *)
(* stored after the constructor has returned.                              *)
(***************************************************************************)
EXTENDS Integers, FiniteSets

CONSTANTS Threads,      \* the callers of getInstance, each any number of times
          NULL          \* no instance

ASSUME ThreadsAssumption == NULL \notin Threads

VARIABLES m_pInstance,  \* NULL, or the object, named after its constructor's
                        \* thread: nobody constructs twice
          word,         \* the word of mutex
          at,           \* thread -> where it is in getInstance
          got           \* thread -> the instances it has been given

vars == <<m_pInstance, word, at, got>>

Goto(t, l) == at' = [at EXCEPT ![t] = l]

Init == /\ m_pInstance = NULL /\ word = 0
        /\ at = [t \in Threads |-> "idle"]
        /\ got = [t \in Threads |-> {}]

(* The call and its first test, line 8. *)
Call(t) == /\ at[t] = "idle"
           /\ Goto(t, IF m_pInstance = NULL THEN "lock" ELSE "return")
           /\ UNCHANGED <<m_pInstance, word, got>>

(* Mutant of Lock: the mutex is taken whatever its word says. *)
LockIgnored(t) == at[t] = "lock" /\ word' = 1 /\ Goto(t, "check")
                  /\ UNCHANGED <<m_pInstance, got>>

(* pthread_mutex_lock, line 10: a free mutex is taken at once. *)
Lock(t) == /\ at[t] = "lock"
           /\ IF word = 0 THEN word' = 1 /\ Goto(t, "check")
                          ELSE word' = word /\ Goto(t, "contend")
           /\ UNCHANGED <<m_pInstance, got>>

(* The slow path writes 2, which takes the mutex if it has become free, and *)
(* otherwise sleeps, provided that the word is still 2.                     *)
Contend(t) == /\ at[t] = "contend" /\ word' = 2
              /\ Goto(t, IF word = 0 THEN "check" ELSE "park")
              /\ UNCHANGED <<m_pInstance, got>>

Park(t) == /\ at[t] = "park"
           /\ Goto(t, IF word = 2 THEN "sleep" ELSE "contend")
           /\ UNCHANGED <<m_pInstance, word, got>>

(* Mutants of Check: the pointer is not tested again, or the test is       *)
(* inverted.                                                               *)
CheckSkipped(t) == at[t] = "check" /\ Goto(t, "new")
                   /\ UNCHANGED <<m_pInstance, word, got>>
CheckInverted(t) == /\ at[t] = "check"
                    /\ Goto(t, IF m_pInstance = NULL THEN "unlock" ELSE "new")
                    /\ UNCHANGED <<m_pInstance, word, got>>

(* The second test, line 11. *)
Check(t) == /\ at[t] = "check"
            /\ Goto(t, IF m_pInstance = NULL THEN "new" ELSE "unlock")
            /\ UNCHANGED <<m_pInstance, word, got>>

(* The constructor, Singleton.h line 20, makes the mutex as new. *)
Construct(t) == /\ at[t] = "new" /\ word' = 0 /\ Goto(t, "assign")
                /\ UNCHANGED <<m_pInstance, got>>

(* The assignment of line 13. *)
Assign(t) == /\ at[t] = "assign" /\ m_pInstance' = t /\ Goto(t, "unlock")
             /\ UNCHANGED <<word, got>>

Sleepers == {u \in Threads : at[u] = "sleep"}

(* One sleeper, if there is any, tries again; t goes on. *)
Wake(t) == \/ Sleepers = {} /\ Goto(t, "return")
           \/ \E u \in Sleepers :
                at' = [at EXCEPT ![t] = "return", ![u] = "contend"]

(* Mutant of Unlock: it is forgotten. *)
UnlockMissing(t) == at[t] = "unlock" /\ Goto(t, "return")
                    /\ UNCHANGED <<m_pInstance, word, got>>

(* pthread_mutex_unlock, line 15: the word says whether to wake a sleeper. *)
(* Unlocking a free mutex is undefined: the C library of the build may     *)
(* wake a sleeper or not.                                                  *)
Unlock(t) == /\ at[t] = "unlock" /\ word' = 0
             /\ \/ word = 2 /\ Wake(t)
                \/ word = 1 /\ Goto(t, "return")
                \/ word = 0 /\ (Wake(t) \/ Goto(t, "return"))
             /\ UNCHANGED <<m_pInstance, got>>

(* The pointer is read once more, line 18. *)
Return(t) == /\ at[t] = "return" /\ Goto(t, "idle")
             /\ got' = [got EXCEPT ![t] = @ \cup {m_pInstance}]
             /\ UNCHANGED <<m_pInstance, word>>

Step(t) == Lock(t) \/ Contend(t) \/ Park(t) \/ Check(t) \/ Construct(t)
           \/ Assign(t) \/ Unlock(t) \/ Return(t)

Next == \E t \in Threads : Call(t) \/ Step(t)

(* A thread that is not asleep is scheduled; nobody has to call. *)
Spec == Init /\ [][Next]_vars /\ \A t \in Threads : WF_vars(Step(t))
-----------------------------------------------------------------------------
TypeOK == /\ m_pInstance \in Threads \cup {NULL}
          /\ word \in 0 .. 2
          /\ at \in [Threads -> {"idle", "lock", "contend", "park", "sleep", "check",
                                 "new", "assign", "unlock", "return"}]
          /\ got \in [Threads -> SUBSET (Threads \cup {NULL})]

(* Although the constructor opens the mutex to the next caller, no two     *)
(* threads are ever about to construct at the same time (lines 10-13):     *)
(* until the first assignment only the constructor opens it, after that    *)
(* the second test turns everybody away.                                   *)
OneBuilderAtATime == \A s, t \in Threads : at[s] = "new" /\ at[t] = "new" => s = t

(* No caller is ever given NULL, whichever of the races it has been        *)
(* through (lines 8, 11, 13 and 18).                                       *)
NeverNull == \A t \in Threads : NULL \notin got[t]

(* Once there is an instance and nobody is between the second test and the *)
(* assignment, the instance is settled for good, whoever is still on the   *)
(* way to the lock (lines 8-13).                                           *)
Settled == m_pInstance # NULL /\ \A t \in Threads : at[t] \notin {"new", "assign"}
SettledForGood == [][Settled => Settled' /\ m_pInstance' = m_pInstance]_vars

(* A caller returns, unless it sleeps on a mutex that the constructor has  *)
(* made forget its sleepers: then it sleeps for ever on a free mutex.      *)
OnlyForgottenSleepersHang ==
  \A t \in Threads :
    at[t] = "lock" ~> (at[t] = "idle" \/ [](at[t] = "sleep" /\ word = 0))

(* main.cpp line 11 compares two results and prints "one": a thread is     *)
(* always given the same instance.                                         *)
OneInstance == \A t \in Threads : Cardinality(got[t]) <= 1
=============================================================================
