--------------------------- MODULE ThreadsProofs ---------------------------
(***************************************************************************)
(* The programs whose threads and processes share memory, a mutex, a       *)
(* semaphore, a pipe or a listening socket, one after the other, for all   *)
(* numbers of threads, rounds and clients; and at the end all in one.      *)
(***************************************************************************)
EXTENDS MCThreads, Sequences, TLAPS

-----------------------------------------------------------------------------
(* What is left of the double-checked locking of singleton_=, although its *)
(* constructor reopens the mutex.                                          *)

(* While there is no instance the mutex still works: it is free only when  *)
(* nobody is between lock and constructor, and nobody has unlocked it.     *)
UnbuiltIsLocked ==
  m_pInstance = NULL =>
    /\ \A s, t \in Threads : at[s] \in {"check", "new"} /\ at[t] \in {"check", "new"} => s = t
    /\ \A t \in Threads : at[t] \in {"check", "new"} => word # 0
    /\ \A t \in Threads : at[t] \notin {"unlock", "return"}

LockInv == TypeOK /\ UnbuiltIsLocked /\ OneBuilderAtATime /\ NeverNull

LEMMA LockInvInit == Init => LockInv
  BY DEF Init, LockInv, TypeOK, UnbuiltIsLocked, OneBuilderAtATime, NeverNull

LEMMA LockInvStep == LockInv /\ [Next]_vars => LockInv'
<1> SUFFICES ASSUME LockInv, [Next]_vars PROVE LockInv'
  OBVIOUS
<1> USE ThreadsAssumption
        DEF LockInv, TypeOK, UnbuiltIsLocked, OneBuilderAtATime, NeverNull, Goto
<1>1. CASE UNCHANGED vars
  BY <1>1 DEF vars
<1>2. ASSUME NEW t \in Threads, Call(t) PROVE LockInv'
  BY <1>2 DEF Call
<1>3. ASSUME NEW t \in Threads, Lock(t) PROVE LockInv'
  BY <1>3 DEF Lock
<1>4. ASSUME NEW t \in Threads, Contend(t) PROVE LockInv'
  BY <1>4 DEF Contend
<1>5. ASSUME NEW t \in Threads, Park(t) PROVE LockInv'
  BY <1>5 DEF Park
<1>6. ASSUME NEW t \in Threads, Check(t) PROVE LockInv'
  BY <1>6 DEF Check
<1>7. ASSUME NEW t \in Threads, Construct(t) PROVE LockInv'
  BY <1>7 DEF Construct
<1>8. ASSUME NEW t \in Threads, Assign(t) PROVE LockInv'
  BY <1>8 DEF Assign
<1>9. ASSUME NEW t \in Threads, Unlock(t) PROVE LockInv'
  <2>1. m_pInstance # NULL /\ UNCHANGED <<m_pInstance, got>> /\ word' = 0
    BY <1>9 DEF Unlock
  <2>2. /\ at' \in [Threads -> {"idle", "lock", "contend", "park", "sleep", "check",
                                "new", "assign", "unlock", "return"}]
        /\ \A s \in Threads : at'[s] = "new" => at[s] = "new"
    BY <1>9 DEF Unlock, Wake, Sleepers
  <2> QED BY <2>1, <2>2
<1>10. ASSUME NEW t \in Threads, Return(t) PROVE LockInv'
  BY <1>10 DEF Return
<1> QED BY <1>1, <1>2, <1>3, <1>4, <1>5, <1>6, <1>7, <1>8, <1>9, <1>10 DEF Next, Step

LEMMA LockInvAlways == Spec => []LockInv
  BY LockInvInit, LockInvStep, PTL DEF Spec

(* The variables never leave their types.                                  *)
THEOREM SingletonTypes == Spec => []TypeOK
<1>1. LockInv => TypeOK
  BY DEF LockInv
<1> QED BY <1>1, LockInvAlways, PTL

(* However many threads race for the instance, no two of them are about to *)
(* construct at the same time (lines 10-13).                               *)
THEOREM BuildersExclude == Spec => []OneBuilderAtATime
<1>1. LockInv => OneBuilderAtATime
  BY DEF LockInv
<1> QED BY <1>1, LockInvAlways, PTL

(* No caller is given NULL (lines 8 to 18).                                *)
THEOREM AlwaysAnInstance == Spec => []NeverNull
<1>1. LockInv => NeverNull
  BY DEF LockInv
<1> QED BY <1>1, LockInvAlways, PTL

(* Once nobody is between the second test and the assignment, the instance *)
(* never changes again, whatever the mutex is like (lines 8-13).           *)
THEOREM SettledInstance == Spec => SettledForGood
<1>1. LockInv /\ [Next]_vars => (Settled => Settled' /\ m_pInstance' = m_pInstance)
  <2> SUFFICES ASSUME LockInv, Settled, [Next]_vars
               PROVE  Settled' /\ m_pInstance' = m_pInstance
    OBVIOUS
  <2> USE DEF Settled, LockInv, TypeOK, Goto
  <2>1. CASE UNCHANGED vars
    BY <2>1 DEF vars
  <2>2. ASSUME NEW t \in Threads, Call(t) \/ Lock(t) \/ Contend(t) \/ Park(t)
        PROVE  Settled' /\ m_pInstance' = m_pInstance
    BY <2>2 DEF Call, Lock, Contend, Park
  <2>3. ASSUME NEW t \in Threads, Check(t) \/ Construct(t) \/ Assign(t) \/ Return(t)
        PROVE  Settled' /\ m_pInstance' = m_pInstance
    BY <2>3 DEF Check, Construct, Assign, Return
  <2>4. ASSUME NEW t \in Threads, Unlock(t)
        PROVE  Settled' /\ m_pInstance' = m_pInstance
    BY <2>4 DEF Unlock, Wake, Sleepers
  <2> QED BY <2>1, <2>2, <2>3, <2>4 DEF Next, Step
<1> QED BY <1>1, LockInvAlways, PTL DEF Spec, SettledForGood

-----------------------------------------------------------------------------
(* The order in which sem.c ends.                                          *)

(* main comes past a join only when the thread has left its loop.          *)
JoinOrder ==
  /\ semMain \in {"join cons", "exit"} => prod = "end"
  /\ semMain = "exit" => cons = "end"
  /\ destroyed = TRUE => semMain = "exit"

SemInv == SE!TypeOK /\ JoinOrder

LEMMA SemInvInit == ASSUME SE!SemAssumption PROVE SE!Init => SemInv
<1> SUFFICES ASSUME SE!Init PROVE SemInv
  OBVIOUS
<1>1. sem \in 0 .. SemMax
  BY DEF SE!SemAssumption, SE!Init
<1>2. semRunning \in BOOLEAN /\ destroyed \in BOOLEAN
  BY DEF SE!Init
<1>3. JoinOrder /\ prod = "test" /\ cons = "test" /\ semMain = "sleep"
  BY DEF SE!Init, JoinOrder
<1> QED BY <1>1, <1>2, <1>3 DEF SemInv, SE!TypeOK

LEMMA SemInvStep == ASSUME SE!SemAssumption PROVE SemInv /\ [SE!Next]_SE!vars => SemInv'
<1> SUFFICES ASSUME SemInv, [SE!Next]_SE!vars PROVE SemInv'
  OBVIOUS
<1>0. sem \in 0 .. SemMax
  BY DEF SemInv, SE!TypeOK
<1> USE DEF SemInv, SE!TypeOK, JoinOrder
<1>1. CASE UNCHANGED SE!vars
  BY <1>1 DEF SE!vars
<1>2. CASE SE!ProducerTest
  BY <1>2 DEF SE!ProducerTest
<1>3. CASE SE!Post
  <2>1. sem' \in 0 .. SemMax
    <3> HIDE DEF SemInv, SE!TypeOK, JoinOrder
    <3> QED BY <1>0, <1>3 DEF SE!SemAssumption, SE!Post
  <2>2. semRunning' \in BOOLEAN /\ destroyed' \in BOOLEAN
    BY <1>3 DEF SE!Post
  <2>3. prod' = "test" /\ prod # "end" /\ cons' = cons /\ semMain' = semMain
        /\ destroyed' = destroyed
    BY <1>3 DEF SE!Post
  <2>4. SE!TypeOK'
    BY <2>1, <2>2, <2>3
  <2>5. JoinOrder'
    BY <2>3
  <2> QED BY <2>4, <2>5
<1>4. CASE SE!ConsumerTest
  BY <1>4 DEF SE!ConsumerTest
<1>5. CASE SE!Wait
  <2>1. sem' \in 0 .. SemMax
    <3> HIDE DEF SemInv, SE!TypeOK, JoinOrder
    <3> QED BY <1>0, <1>5 DEF SE!SemAssumption, SE!Wait
  <2>2. semRunning' \in BOOLEAN /\ destroyed' \in BOOLEAN
    BY <1>5 DEF SE!Wait
  <2>3. cons' = "test" /\ cons # "end" /\ prod' = prod /\ semMain' = semMain
        /\ destroyed' = destroyed
    BY <1>5 DEF SE!Wait
  <2>4. SE!TypeOK'
    BY <2>1, <2>2, <2>3
  <2>5. JoinOrder'
    BY <2>3
  <2> QED BY <2>4, <2>5
<1>6. CASE SE!Clear
  BY <1>6 DEF SE!Clear
<1>7. CASE SE!JoinProducer
  BY <1>7 DEF SE!JoinProducer
<1>8. CASE SE!JoinConsumer
  BY <1>8 DEF SE!JoinConsumer
<1>9. CASE SE!Ended \/ SE!Hung
  BY <1>9 DEF SE!Ended, SE!Hung, SE!vars
<1> QED BY <1>1, <1>2, <1>3, <1>4, <1>5, <1>6, <1>7, <1>8, <1>9
        DEF SE!Next, SE!Producer, SE!Consumer, SE!Main

LEMMA SemInvAlways == ASSUME SE!SemAssumption PROVE SE!Spec => []SemInv
  BY SemInvInit, SemInvStep, PTL DEF SE!Spec

(* The semaphore stays between zero and its limit, and every thread at one *)
(* of its places.                                                          *)
THEOREM SemTypes == ASSUME SE!SemAssumption PROVE SE!Spec => []SE!TypeOK
<1>1. SemInv => SE!TypeOK
  BY DEF SemInv
<1> QED BY <1>1, SemInvAlways, PTL

(* No thread can use the semaphore after sem_destroy (lines 45-47).        *)
THEOREM NoUseAfterDestroy == ASSUME SE!SemAssumption PROVE SE!Spec => []SE!DestroyedIdle
<1>1. SemInv => SE!DestroyedIdle
  BY DEF SemInv, JoinOrder, SE!DestroyedIdle
<1> QED BY <1>1, SemInvAlways, PTL

(* A consumer that sleeps when the producer has ended sleeps for ever.     *)
THEOREM StarvationIsFinal == ASSUME SE!SemAssumption PROVE SE!Spec => SE!StarvedForGood
<1>1. SemInv /\ [SE!Next]_SE!vars => (SE!Starved => SE!Starved')
  <2> SUFFICES ASSUME SE!Starved, [SE!Next]_SE!vars PROVE SE!Starved'
    OBVIOUS
  <2>1. CASE UNCHANGED SE!vars
    BY <2>1 DEF SE!vars, SE!Starved
  <2>2. CASE SE!Producer \/ SE!Consumer
    BY <2>2 DEF SE!Starved, SE!Producer, SE!Consumer, SE!ProducerTest, SE!Post, SE!ConsumerTest,
       SE!Wait
  <2>3. CASE SE!Main
    BY <2>3 DEF SE!Starved, SE!Main, SE!Clear, SE!JoinProducer, SE!JoinConsumer
  <2>4. CASE SE!Ended \/ SE!Hung
    BY <2>4 DEF SE!Starved, SE!Ended, SE!Hung, SE!vars
  <2> QED BY <2>1, <2>2, <2>3, <2>4 DEF SE!Next
<1> QED BY <1>1, SemInvAlways, PTL DEF SE!Spec, SE!StarvedForGood

-----------------------------------------------------------------------------
(* How wrong the counter of lock.c can be: exact until main destroys the   *)
(* mutex the threads still use, and one off at most ever after.            *)

Pending(t) == lockAt[t] \in {"lock", "load", "store"}
P == "prodect"
C == "consume"
Types == /\ buffer_item \in Int /\ owner \in LO!Parties \cup {Nobody}
         /\ lockAt \in [LO!Parties -> {"test", "lock", "load", "store", "unlock", "end"}]
         /\ loaded \in [LO!Parties -> Int] /\ rounds \in [LO!Parties -> 0 .. MaxRounds]
         /\ lockMain \in {"usleep", "join", "crashed", "destroy", "return", "exit"}

(* The mutex is destroyed after running was cleared, and never held then;  *)
(* a thread in a round has not used up its rounds.                         *)
Shutdown == /\ dead = TRUE => owner = Nobody /\ lockRunning = FALSE /\ lockMain \in {"return", "exit"}
            /\ lockMain # "usleep" => lockRunning = FALSE
            /\ \A t \in LO!Parties : Pending(t) => rounds[t] < MaxRounds

(* With the mutex alive, its owner is the one inside and has read the      *)
(* counter as it is.                                                       *)
Locked == dead = FALSE =>
  /\ \A t \in LO!Parties : LO!Inside(t) <=> owner = t
  /\ buffer_item = LO!Made - LO!Taken
  /\ \A t \in LO!Parties : lockAt[t] = "store" => loaded[t] = buffer_item

(* Without it, each thread stores once more at most.  The first store is   *)
(* right; the other thread may have read the counter before it.            *)
Unlocked == dead = TRUE =>
  /\ Pending(P) /\ Pending(C) => /\ buffer_item = LO!Made - LO!Taken
                                 /\ \A t \in LO!Parties : lockAt[t] = "store" => loaded[t] = buffer_item
  /\ Pending(P) /\ ~Pending(C) =>
       /\ buffer_item = LO!Made - LO!Taken
       /\ lockAt[P] = "store" => loaded[P] \in {buffer_item, buffer_item + 1}
  /\ ~Pending(P) /\ Pending(C) =>
       /\ buffer_item = LO!Made - LO!Taken
       /\ lockAt[C] = "store" => loaded[C] \in {buffer_item, buffer_item - 1}
  /\ buffer_item - (LO!Made - LO!Taken) \in {-1, 0, 1}

Bools == lockRunning \in BOOLEAN /\ dead \in BOOLEAN
CounterInv == Types /\ Bools /\ Shutdown /\ Locked /\ Unlocked

LEMMA CounterInvInit == ASSUME LO!RoundsAssumption PROVE LO!Init => CounterInv
<1> SUFFICES ASSUME LO!Init PROVE CounterInv
  OBVIOUS
<1>1. Bools /\ dead = FALSE /\ lockRunning = TRUE
  BY DEF LO!Init, Bools
<1>2. Types
  BY DEF LO!RoundsAssumption, LO!Init, Types, LO!Parties
<1>3. Shutdown /\ Locked /\ Unlocked
  BY <1>1 DEF LO!RoundsAssumption, LO!Init, Shutdown, Locked, Unlocked, LO!Parties, Pending,
     LO!Inside, LO!Made, LO!Taken
<1> QED BY <1>1, <1>2, <1>3 DEF CounterInv

LEMMA TestStep ==
  ASSUME LO!RoundsAssumption, CounterInv, NEW t \in LO!Parties, LO!Test(t)
  PROVE  CounterInv'
<1> USE DEF LO!RoundsAssumption, CounterInv, Types, LO!Test, LO!Go
<1>1. Bools' /\ dead' = dead /\ lockRunning' = lockRunning
  BY DEF Bools
<1>2. lockRunning = TRUE \/ lockRunning = FALSE
  BY DEF Bools
<1>3. Types'
  BY <1>2
<1>4. /\ lockAt' = [lockAt EXCEPT ![t] = IF lockRunning = TRUE THEN "lock" ELSE "end"] /\ lockAt[t] = "test"
      /\ lockRunning = TRUE => rounds[t] < MaxRounds
      /\ UNCHANGED <<buffer_item, owner, loaded, rounds, lockMain>>
  BY <1>2
<1> HIDE DEF LO!Test
<1>5. Shutdown'
  BY <1>1, <1>4 DEF Shutdown, Pending
<1>6. Locked'
  BY <1>1, <1>4 DEF Locked, LO!Inside, LO!Made, LO!Taken, LO!Parties
<1>7. Unlocked'
  BY <1>1, <1>4 DEF Unlocked, Shutdown, Pending, LO!Made, LO!Taken, LO!Parties, P, C
<1> QED BY <1>1, <1>3, <1>5, <1>6, <1>7

LEMMA RoundStep ==
  ASSUME LO!RoundsAssumption, CounterInv, NEW t \in LO!Parties, LO!Lock(t) \/ LO!Load(t) \/ LO!Unlock(t)
  PROVE  CounterInv'
<1> USE DEF LO!RoundsAssumption, CounterInv, Types, LO!Lock, LO!Load, LO!Unlock, LO!Go
<1>1. Bools' /\ dead' = dead /\ lockRunning' = lockRunning
  BY DEF Bools
<1>2. dead = TRUE \/ dead = FALSE
  BY DEF Bools
<1>3. Types'
  BY <1>2
<1>5. Shutdown'
  BY <1>1, <1>2 DEF Shutdown, Pending
<1>6. Locked'
  BY <1>1, <1>2 DEF Locked, LO!Inside, LO!Made, LO!Taken, LO!Parties
<1>7. Unlocked'
  BY <1>1, <1>2 DEF Unlocked, Shutdown, Pending, LO!Made, LO!Taken, LO!Parties, P, C
<1> QED BY <1>1, <1>3, <1>5, <1>6, <1>7

LEMMA StoreStep ==
  ASSUME LO!RoundsAssumption, CounterInv, NEW t \in LO!Parties, LO!Store(t)
  PROVE  CounterInv'
<1> USE DEF LO!RoundsAssumption, CounterInv, Types, LO!Store, LO!Go
<1>1. Bools' /\ dead' = dead /\ lockRunning' = lockRunning
  BY DEF Bools
<1>2. t = P \/ t = C
  BY DEF LO!Parties, P, C
<1>3. Types' /\ rounds' = [rounds EXCEPT ![t] = rounds[t] + 1]
  BY <1>2 DEF Shutdown, Pending, LO!Delta
<1>5. Shutdown'
  BY <1>1, <1>3 DEF Shutdown, Pending
<1>6. Locked'
  BY <1>1, <1>2 DEF Locked, LO!Inside, LO!Made, LO!Taken, LO!Parties, P, C, LO!Delta
<1>7. Unlocked'
  BY <1>1, <1>2 DEF Unlocked, Pending, LO!Made, LO!Taken, LO!Parties, P, C, LO!Delta
<1> QED BY <1>1, <1>3, <1>5, <1>6, <1>7

LEMMA MainStep ==
  ASSUME LO!RoundsAssumption, CounterInv, LO!Clear \/ LO!Join \/ LO!Destroy \/ LO!Return
  PROVE  CounterInv'
<1> USE DEF LO!RoundsAssumption, CounterInv, LO!Clear, LO!Join, LO!Destroy, LO!Return
<1>1. Bools'
  BY DEF Bools
<1>2. Types'
  BY DEF Types
<1>3. Shutdown'
  BY <1>1 DEF Shutdown, Bools, Pending
<1>4. Locked'
  BY <1>1 DEF Locked, Shutdown, Bools, LO!Inside, LO!Made, LO!Taken
<1>5. Unlocked'
  <2>1. UNCHANGED <<buffer_item, lockAt, loaded, rounds>>
    OBVIOUS
  <2>2. CASE LO!Destroy
    <3>1. dead = FALSE /\ (dead' = TRUE => owner = Nobody)
      BY <2>2 DEF Shutdown, Bools
    <3>2. dead' = TRUE => \A t \in LO!Parties : ~LO!Inside(t)
      BY <3>1 DEF LO!RoundsAssumption, Locked
    <3>3. dead' = TRUE => buffer_item = LO!Made - LO!Taken /\ \A t \in LO!Parties : lockAt[t] # "store"
      BY <3>1, <3>2 DEF Locked, LO!Inside
    <3>4. buffer_item \in Int /\ LO!Made \in Int /\ LO!Taken \in Int
      BY DEF Types, LO!Made, LO!Taken, LO!Parties
    <3> QED BY <2>1, <3>3, <3>4 DEF Unlocked, Pending, LO!Made, LO!Taken, LO!Parties, P, C
  <2>3. CASE LO!Clear \/ LO!Join \/ LO!Return
    <3>1. dead' = dead
      BY <2>3
    <3> QED BY <2>1, <3>1 DEF Unlocked, Pending, LO!Made, LO!Taken
  <2> QED BY <2>2, <2>3
<1> QED BY <1>1, <1>2, <1>3, <1>4, <1>5

LEMMA CounterInvStep ==
  ASSUME LO!RoundsAssumption
  PROVE  CounterInv /\ [LO!Next]_LO!vars => CounterInv'
<1> SUFFICES ASSUME CounterInv, [LO!Next]_LO!vars PROVE CounterInv'
  OBVIOUS
<1>1. CASE UNCHANGED LO!vars
  <2>1. Types' /\ Bools'
    BY <1>1 DEF LO!vars, CounterInv, Types, Bools
  <2>2. Shutdown'
    BY <1>1 DEF LO!vars, CounterInv, Shutdown, Pending
  <2>3. Locked'
    BY <1>1 DEF LO!vars, CounterInv, Locked, LO!Inside, LO!Made, LO!Taken
  <2>4. Unlocked'
    BY <1>1 DEF LO!vars, CounterInv, Unlocked, Pending, LO!Made, LO!Taken
  <2> QED BY <2>1, <2>2, <2>3, <2>4 DEF CounterInv
<1> QED BY <1>1, TestStep, RoundStep, StoreStep, MainStep DEF LO!Next, LO!Thread

LEMMA CounterInvAlways == ASSUME LO!RoundsAssumption PROVE LO!Spec => []CounterInv
  BY CounterInvInit, CounterInvStep, PTL DEF LO!Spec

LEMMA CounterMeaning ==
  ASSUME LO!RoundsAssumption, CounterInv
  PROVE  LO!TypeOK /\ LO!ExactUntilDestroyed /\ LO!InsideOwns /\ LO!AtMostOneLost
<1>1. LO!TypeOK
  BY DEF CounterInv, Types, Bools, LO!TypeOK
<1>2. LO!ExactUntilDestroyed /\ LO!InsideOwns
  BY DEF CounterInv, Bools, Locked, LO!ExactUntilDestroyed, LO!InsideOwns
<1>3. LO!AtMostOneLost
  <2>1. dead = TRUE \/ dead = FALSE
    BY DEF CounterInv, Bools
  <2>2. LO!Made \in Int /\ LO!Taken \in Int /\ buffer_item \in Int
    BY DEF LO!RoundsAssumption, CounterInv, Types, LO!Made, LO!Taken, LO!Parties
  <2> QED BY <2>1, <2>2 DEF CounterInv, Locked, Unlocked, LO!AtMostOneLost
<1> QED BY <1>1, <1>2, <1>3

(* The variables never leave their types, and no thread makes more rounds  *)
(* than the bound.                                                         *)
THEOREM LockTypes == ASSUME LO!RoundsAssumption PROVE LO!Spec => []LO!TypeOK
  BY CounterMeaning, CounterInvAlways, PTL

(* Until the mutex is destroyed the counter is exact, whatever main does   *)
(* instead of joining (lines 45-47).                                       *)
THEOREM CounterIsExact == ASSUME LO!RoundsAssumption PROVE LO!Spec => []LO!ExactUntilDestroyed
  BY CounterMeaning, CounterInvAlways, PTL

(* Until then the thread inside owns the mutex.                            *)
THEOREM OwnerInside == ASSUME LO!RoundsAssumption PROVE LO!Spec => []LO!InsideOwns
  BY CounterMeaning, CounterInvAlways, PTL

(* The missing joins cost one update at most.                              *)
THEOREM OneUpdateAtMost == ASSUME LO!RoundsAssumption PROVE LO!Spec => []LO!AtMostOneLost
  BY CounterMeaning, CounterInvAlways, PTL

-----------------------------------------------------------------------------
(* test.c: the flag, the join and the value.                               *)
JoinedAfterStore ==
  /\ run \in {0, 1} /\ late \in 0 .. 1 /\ printed \subseteq {8}
  /\ son = "ended" => retvalue = 8
  /\ ret_join = "&retvalue" => son = "ended"
  /\ run = 1 \/ son = "body" => late = 0
  /\ flagMain = "create" => son = "unborn"

LEMMA FlagInit == DA!FlagInit => JoinedAfterStore
  BY DEF DA!FlagInit, JoinedAfterStore

LEMMA FlagStep == JoinedAfterStore /\ [DA!FlagNext]_DA!flagVars => JoinedAfterStore'
<1> SUFFICES ASSUME JoinedAfterStore, [DA!FlagNext]_DA!flagVars PROVE JoinedAfterStore'
  OBVIOUS
<1> USE DEF JoinedAfterStore
<1>1. CASE UNCHANGED DA!flagVars
  BY <1>1 DEF DA!flagVars
<1>2. CASE DA!Create \/ DA!CreateFails \/ DA!Round
  BY <1>2 DEF DA!Create, DA!CreateFails, DA!Round
<1>3. CASE DA!Clear \/ DA!Join \/ DA!PrintValue
  BY <1>3 DEF DA!Clear, DA!Join, DA!PrintValue
<1>4. CASE DA!Start \/ DA!Test
  BY <1>4 DEF DA!Start, DA!Test
<1>5. CASE DA!Body
  BY <1>5 DEF DA!Body
<1>6. CASE DA!Leave
  BY <1>6 DEF DA!Leave
<1> QED BY <1>1, <1>2, <1>3, <1>4, <1>5, <1>6 DEF DA!FlagNext, DA!Main, DA!Son

LEMMA FlagMeaning == ASSUME JoinedAfterStore PROVE DA!PrintsEight /\ DA!OneRoundMore
  BY DEF JoinedAfterStore, DA!PrintsEight, DA!OneRoundMore

(* main prints what its thread stored, and after the flag is cleared the   *)
(* thread makes one round at most, for every number of main's rounds.      *)
THEOREM FlagIsSeen == DA!FlagSpec => [](DA!PrintsEight /\ DA!OneRoundMore)
  BY FlagMeaning, FlagInit, FlagStep, PTL DEF DA!FlagSpec

-----------------------------------------------------------------------------
(* ctime: what a thread finds in the shared buffer is its own time or that *)
(* of a thread that has been answering while it was.                       *)
Mine(w, t) == t = now[w] \/ \E v \in CtimeWorkers \ {w} : <<v, t>> \in met[w]
OwnOrMet ==
  /\ ctimeAt \in [CtimeWorkers -> {"idle", "date", "clock", "copy date", "copy clock"}]
  /\ DOMAIN now = CtimeWorkers /\ DOMAIN met = CtimeWorkers /\ DOMAIN shared = DA!Parts
  /\ DOMAIN buf = CtimeWorkers /\ \A w \in CtimeWorkers : DOMAIN buf[w] = DA!Parts
  /\ \A v, w \in DA!Busy : v # w => <<v, now[v]>> \in met[w]
  /\ \A w \in CtimeWorkers :
       /\ ctimeAt[w] \in {"clock", "copy date"} => Mine(w, shared["date"])
       /\ ctimeAt[w] \in {"copy date", "copy clock"} => Mine(w, shared["clock"])
       /\ ctimeAt[w] \in {"copy clock", "idle"} => Mine(w, buf[w]["date"])
       /\ ctimeAt[w] = "idle" => Mine(w, buf[w]["clock"])

LEMMA CtimeInit == DA!CtimeInit => OwnOrMet
  BY DEF DA!CtimeInit, OwnOrMet, DA!Busy, DA!Parts, Mine

LEMMA CtimeStep == OwnOrMet /\ [DA!CtimeNext]_DA!ctimeVars => OwnOrMet'
<1> SUFFICES ASSUME OwnOrMet, [DA!CtimeNext]_DA!ctimeVars PROVE OwnOrMet'
  OBVIOUS
<1> USE DEF OwnOrMet, DA!Busy
<1>1. CASE UNCHANGED DA!ctimeVars \/ DA!Tick
  BY <1>1 DEF DA!ctimeVars, DA!Tick, Mine
<1>2. ASSUME NEW w \in CtimeWorkers, DA!Time(w) PROVE OwnOrMet'
  <2>1. /\ ctimeAt[w] = "idle" /\ ctimeAt' = [ctimeAt EXCEPT ![w] = "date"]
        /\ now' = [now EXCEPT ![w] = time] /\ UNCHANGED <<shared, buf>>
        /\ DOMAIN met' = CtimeWorkers
        /\ met'[w] = {<<u, now[u]>> : u \in DA!Busy}
        /\ \A v \in DA!Busy : v # w => met'[v] = met[v] \cup {<<w, time>>}
        /\ \A v \in CtimeWorkers \ DA!Busy : v # w => met'[v] = met[v]
    BY <1>2 DEF DA!Time
  <2>2. \A t : \A u \in CtimeWorkers \ {w} : Mine(u, t) => Mine(u, t)'
    BY <2>1 DEF Mine
  <2>3. \A u, v \in DA!Busy' : u # v => (<<u, now[u]>> \in met[v])'
    BY <2>1
  <2> QED BY <2>1, <2>2, <2>3
<1>3. ASSUME NEW w \in CtimeWorkers, DA!CtimeDate(w) \/ DA!CtimeClock(w) PROVE OwnOrMet'
  <2>1. /\ ctimeAt[w] # "idle" /\ UNCHANGED <<now, buf, met>>
        /\ DA!Busy' = DA!Busy
    BY <1>3 DEF DA!CtimeDate, DA!CtimeClock
  <2>2. \A u \in DA!Busy : Mine(u, now[w])
    BY <2>1 DEF Mine
  <2>3. \A t : \A u \in CtimeWorkers : Mine(u, t)' <=> Mine(u, t)
    BY <2>1 DEF Mine
  <2>4. CASE DA!CtimeDate(w)
    <3>1. /\ ctimeAt' = [ctimeAt EXCEPT ![w] = "clock"] /\ ctimeAt[w] = "date"
          /\ shared' = [shared EXCEPT !["date"] = now[w]]
      BY <2>4 DEF DA!CtimeDate
    <3>2. shared'["date"] = now[w] /\ shared'["clock"] = shared["clock"]
          /\ DOMAIN shared' = DA!Parts
      BY <3>1 DEF DA!Parts
    <3> QED BY <2>1, <2>2, <2>3, <3>1, <3>2
  <2>5. CASE DA!CtimeClock(w)
    <3>1. /\ ctimeAt' = [ctimeAt EXCEPT ![w] = "copy date"] /\ ctimeAt[w] = "clock"
          /\ shared' = [shared EXCEPT !["clock"] = now[w]]
      BY <2>5 DEF DA!CtimeClock
    <3>2. shared'["clock"] = now[w] /\ shared'["date"] = shared["date"] /\ DOMAIN shared' = DA!Parts
      BY <3>1 DEF DA!Parts
    <3> QED BY <2>1, <2>2, <2>3, <3>1, <3>2
  <2> QED BY <1>3, <2>4, <2>5
<1>4. ASSUME NEW w \in CtimeWorkers, DA!CopyDate(w) \/ DA!CopyClock(w) PROVE OwnOrMet'
  <2>1. UNCHANGED <<now, shared, met>> /\ ctimeAt[w] # "idle" /\ DA!Busy' \subseteq DA!Busy
    BY <1>4 DEF DA!CopyDate, DA!CopyClock
  <2>2. \A t : \A u \in CtimeWorkers : Mine(u, t)' <=> Mine(u, t)
    BY <2>1 DEF Mine
  <2>3. DOMAIN buf[w] = DA!Parts /\ "date" \in DA!Parts /\ "clock" \in DA!Parts
    BY DEF DA!Parts
  <2>4. CASE DA!CopyDate(w)
    <3>1. /\ ctimeAt' = [ctimeAt EXCEPT ![w] = "copy clock"] /\ ctimeAt[w] = "copy date"
          /\ buf' = [buf EXCEPT ![w] = [buf[w] EXCEPT !["date"] = shared["date"]]]
      BY <2>4 DEF DA!CopyDate
    <3>2. /\ DOMAIN buf' = CtimeWorkers /\ \A u \in CtimeWorkers : DOMAIN buf'[u] = DA!Parts
          /\ buf'[w]["date"] = shared["date"] /\ \A u \in CtimeWorkers \ {w} : buf'[u] = buf[u]
      BY <2>3, <3>1
    <3> QED BY <2>1, <2>2, <3>1, <3>2
  <2>5. CASE DA!CopyClock(w)
    <3>1. /\ ctimeAt' = [ctimeAt EXCEPT ![w] = "idle"] /\ ctimeAt[w] = "copy clock"
          /\ buf' = [buf EXCEPT ![w] = [buf[w] EXCEPT !["clock"] = shared["clock"]]]
      BY <2>5 DEF DA!CopyClock
    <3>2. /\ DOMAIN buf' = CtimeWorkers /\ \A u \in CtimeWorkers : DOMAIN buf'[u] = DA!Parts
          /\ buf'[w]["clock"] = shared["clock"] /\ buf'[w]["date"] = buf[w]["date"]
          /\ \A u \in CtimeWorkers \ {w} : buf'[u] = buf[u]
      BY <2>3, <3>1
    <3>3. ctimeAt'[w] = "idle" /\ \A u \in CtimeWorkers \ {w} : ctimeAt'[u] = ctimeAt[u]
      BY <3>1
    <3>4. Mine(w, buf'[w]["date"]) /\ Mine(w, buf'[w]["clock"])
      BY <3>1, <3>2
    <3>5. ASSUME NEW u \in CtimeWorkers
          PROVE  /\ ctimeAt'[u] \in {"clock", "copy date"} => Mine(u, shared["date"])
                 /\ ctimeAt'[u] \in {"copy date", "copy clock"} => Mine(u, shared["clock"])
                 /\ ctimeAt'[u] \in {"copy clock", "idle"} => Mine(u, buf'[u]["date"])
                 /\ ctimeAt'[u] = "idle" => Mine(u, buf'[u]["clock"])
      BY <3>2, <3>3, <3>4
    <3> QED BY <2>1, <2>2, <3>1, <3>2, <3>5
  <2> QED BY <1>4, <2>4, <2>5
<1> QED BY <1>1, <1>2, <1>3, <1>4 DEF DA!CtimeNext

LEMMA CtimeMeaning == ASSUME OwnOrMet PROVE DA!WrongOnlyByOverlap
  BY DEF OwnOrMet, DA!WrongOnlyByOverlap, DA!Busy, DA!Parts, Mine

(* A wrong part of an answer is the time of a thread that was answering    *)
(* meanwhile, for every number of threads and however the four copies of   *)
(* each interleave.                                                        *)
THEOREM WrongTimesAreRecent == DA!CtimeSpec => []DA!WrongOnlyByOverlap
  BY CtimeMeaning, CtimeInit, CtimeStep, PTL DEF DA!CtimeSpec

-----------------------------------------------------------------------------
(* pipe.c.  Until the child writes it keeps its write end and the parent   *)
(* has read nothing, so the parent is on its way to the read or was killed *)
(* there.                                                                  *)
Unwritten == prog = "pipe" /\ forkAt["child"] \in {"label", "close", "write"}
Unread    == prog = "pipe" /\ forkAt["parent"] \in {"label", "close", "read"}
Killed(p) == forkAt[p] = "ended" /\ status[p] = "killed"

PipeTypes ==
  /\ prog \in {"pipe", "fork"} /\ pipe \in {0, Message} /\ readers \subseteq PI!Procs
  /\ writers \subseteq PI!Procs
  /\ forkAt \in [PI!Procs -> {"pipe", "fork", "unborn", "label", "close", "write", "read", "print", "return", "ended"}]
  /\ DOMAIN status = PI!Procs
PipeOrder ==
  /\ forkAt["child"] \notin {"pipe", "fork", "read", "print"}
  /\ forkAt["parent"] \notin {"unborn", "write"}
  /\ forkAt["parent"] \in {"pipe", "fork"} => forkAt["child"] = "unborn"
  /\ \A p \in PI!Procs : forkAt[p] \in {"close", "write", "read", "print"} => prog = "pipe"
  /\ Unread => "parent" \in readers /\ size = <<>> /\ forkAt["child"] # "unborn"
  /\ Unwritten => /\ pipe = 0 /\ size = <<>> /\ "child" \in writers
                  /\ Unread \/ Killed("parent")
  /\ Unread /\ pipe = 0 /\ ~Unwritten => Killed("child")
  /\ forkAt["child"] = "unborn" => size = <<>> /\ pipe = 0
  /\ size = <<>> \/ size = <<Message>> \/ (size = <<0>> /\ prog = "pipe" /\ Killed("child"))
PipeInv == PipeTypes /\ PipeOrder

LEMMA PipeInit == ASSUME PI!PipeAssumption PROVE PI!Init => PipeInv
  BY DEF PI!Init, PI!Procs, PipeInv, PipeTypes, PipeOrder, Unwritten, Unread, Killed

LEMMA PipeStep == ASSUME PI!PipeAssumption PROVE PipeInv /\ [PI!Next]_PI!vars => PipeInv'
<1> SUFFICES ASSUME PipeInv, [PI!Next]_PI!vars PROVE PipeInv'
  OBVIOUS
<1> USE DEF PI!PipeAssumption, PI!Procs, PI!Go, PipeInv, PipeTypes, PipeOrder, Unwritten, Unread, Killed
<1>1. CASE UNCHANGED PI!vars
  BY <1>1 DEF PI!vars
<1>2. CASE PI!MakePipe
  BY <1>2 DEF PI!MakePipe
<1>3. CASE PI!PipeFails \/ PI!ForkFails
  BY <1>3 DEF PI!PipeFails, PI!ForkFails, PI!Exit
<1>4. CASE PI!Fork
  BY <1>4 DEF PI!Fork
<1>5. ASSUME NEW p \in PI!Procs, PI!PrintLabel(p) PROVE PipeInv'
  BY <1>5 DEF PI!PrintLabel
<1>6. ASSUME NEW p \in PI!Procs, PI!CloseOther(p) PROVE PipeInv'
  BY <1>6 DEF PI!CloseOther
<1>7. CASE PI!Write
  BY <1>7 DEF PI!Write
<1>8. CASE PI!BrokenPipe
  BY <1>8 DEF PI!BrokenPipe
<1>9. CASE PI!Read
  BY <1>9 DEF PI!Read
<1>10. CASE PI!ShowRead
  BY <1>10 DEF PI!ShowRead
<1>11. ASSUME NEW p \in PI!Procs, PI!Return(p) PROVE PipeInv'
  BY <1>11 DEF PI!Return, PI!Exit
<1>12. ASSUME NEW p \in PI!Procs, PI!Kill(p) PROVE PipeInv'
  BY <1>12 DEF PI!Kill
<1> QED BY <1>1, <1>2, <1>3, <1>4, <1>5, <1>6, <1>7, <1>8, <1>9, <1>10, <1>11, <1>12
        DEF PI!Next, PI!Parent, PI!Child

LEMMA PipeMeaning ==
  ASSUME PI!PipeAssumption, PipeInv PROVE PI!WholeOrNothing /\ PI!BrokenByAKill
  BY DEF PipeInv, PipeTypes, PipeOrder, Unwritten, Unread, Killed, PI!Procs, PI!PipeAssumption,
         PI!WholeOrNothing, PI!BrokenByAKill

(* The parent reads the whole message, or nothing only after its child was *)
(* killed; and the child is killed by a broken pipe only after its parent  *)
(* was killed, whichever of them runs first and wherever one of them dies. *)
THEOREM PipeIsSafe == ASSUME PI!PipeAssumption
                      PROVE  PI!Spec => [](PI!WholeOrNothing /\ PI!BrokenByAKill)
  BY PipeMeaning, PipeInit, PipeStep, PTL DEF PI!Spec

-----------------------------------------------------------------------------
(* The forking echo server, c/server.c.                                    *)
LEMMA RangeAppend ==
  ASSUME NEW S, NEW s \in Seq(S), NEW c \in S
  PROVE  FE!Range(Append(s, c)) = FE!Range(s) \cup {c}
<1>1. /\ DOMAIN Append(s, c) = DOMAIN s \cup {Len(s) + 1} /\ Append(s, c)[Len(s) + 1] = c
      /\ \A k \in DOMAIN s : Append(s, c)[k] = s[k]
  OBVIOUS
<1> QED BY <1>1 DEF FE!Range

LEMMA RangeTail ==
  ASSUME NEW S, NEW s \in Seq(S), s # <<>>, \A k, l \in DOMAIN s : s[k] = s[l] => k = l
  PROVE  /\ Head(s) \in S /\ Head(s) \in FE!Range(s) /\ FE!Range(Tail(s)) = FE!Range(s) \ {Head(s)}
         /\ \A k, l \in DOMAIN Tail(s) : Tail(s)[k] = Tail(s)[l] => k = l
<1>1. /\ Len(s) \in Nat \ {0} /\ DOMAIN s = 1 .. Len(s) /\ Head(s) = s[1] /\ Head(s) \in S
      /\ DOMAIN Tail(s) = 1 .. Len(s) - 1 /\ \A k \in 1 .. Len(s) - 1 : Tail(s)[k] = s[k + 1]
  OBVIOUS
<1>2. Head(s) \in FE!Range(s)
  BY <1>1 DEF FE!Range
<1>3. \A k, l \in DOMAIN Tail(s) : Tail(s)[k] = Tail(s)[l] => k = l
  BY <1>1
<1>4. ASSUME NEW x \in FE!Range(Tail(s)) PROVE x \in FE!Range(s) \ {Head(s)}
  <2>1. PICK k \in 1 .. Len(s) - 1 : x = s[k + 1]
    BY <1>1, <1>4 DEF FE!Range
  <2>2. k + 1 \in 1 .. Len(s) /\ k + 1 # 1
    BY <1>1
  <2> QED BY <1>1, <2>1, <2>2 DEF FE!Range
<1>5. ASSUME NEW x \in FE!Range(s) \ {Head(s)} PROVE x \in FE!Range(Tail(s))
  <2>1. PICK k \in 1 .. Len(s) : x = s[k] /\ k # 1
    BY <1>1, <1>5 DEF FE!Range
  <2>2. k - 1 \in 1 .. Len(s) - 1 /\ x = Tail(s)[k - 1]
    BY <1>1, <2>1
  <2> QED BY <1>1, <2>2 DEF FE!Range
<1> QED BY <1>1, <1>2, <1>3, <1>4, <1>5

(* The queue and the parent: a connection waits in the queue once, or is   *)
(* the one in the parent's hand.                                           *)
Unmade(c)  == fCpc[c] \in {"start", "refused"}
EchoQueue ==
  /\ \A k, l \in DOMAIN fBacklog : fBacklog[k] = fBacklog[l] => k = l
  /\ \A c \in FE!Range(fBacklog) : ~Unmade(c) /\ fCur # c
  /\ fCur \in Clients => ~Unmade(fCur)
  /\ fCur \in Clients <=> par \in {"fork", "close"}
  /\ par = "fork" => kid[fCur] = "none"

(* One connection: who holds it, that nobody accepted is served or reset   *)
(* by mistake, and what is under way on it until it is cut.                *)
Unaccepted(c) == Unmade(c) \/ c \in FE!Range(fBacklog)
Dropped(c)    == kid[c] = "none" /\ ~Unaccepted(c) /\ fCur # c
EchoConn(c) ==
  /\ held[c] = (IF fCur = c THEN {"parent"} ELSE {})
               \cup (IF kid[c] \in {"read", "write", "spin"} THEN {"kid"} ELSE {})
  /\ kid[c] \in {"spin", "zombie"} => fCpc[c] = "dead"
  /\ kid[c] = "none" => outbox[c] = 0
  /\ Unaccepted(c) => kid[c] = "none"
  /\ Unmade(c) => fInbox[c] = 0
  /\ c \in fReset => fCpc[c] = "dead" \/ Dropped(c)
  /\ FE!Alive(c) /\ ~Dropped(c) =>
       fInbox[c] + outbox[c] + (IF kid[c] = "write" THEN 1 ELSE 0) = (IF fCpc[c] = "waiting" THEN 1 ELSE 0)

EchoInv == FE!TypeOK /\ EchoQueue /\ \A c \in Clients : EchoConn(c)

LEMMA EchoInit == ASSUME FE!EchoAssumption PROVE FE!Init => EchoInv
<1> SUFFICES ASSUME FE!Init PROVE EchoInv
  OBVIOUS
<1>1. FE!TypeOK
  BY DEF FE!EchoAssumption, FE!Init, FE!TypeOK
<1>2. FE!Range(fBacklog) = {}
  BY DEF FE!Init, FE!Range
<1>3. EchoQueue
  BY <1>2 DEF FE!EchoAssumption, FE!Init, EchoQueue
<1>4. \A c \in Clients : EchoConn(c)
  BY <1>2 DEF FE!EchoAssumption, FE!Init, EchoConn, Unaccepted, Unmade, FE!Alive
<1> QED BY <1>1, <1>3, <1>4 DEF EchoInv

(* A step leaves the connections alone that are not its own.               *)
LEMMA EchoFrame ==
  ASSUME NEW d \in Clients, EchoConn(d), fCpc'[d] = fCpc[d], fInbox'[d] = fInbox[d],
         outbox'[d] = outbox[d], held'[d] = held[d], kid'[d] = kid[d],
         d \in fReset' <=> d \in fReset, fCur' = d <=> fCur = d,
         d \in FE!Range(fBacklog)' <=> d \in FE!Range(fBacklog)
  PROVE  EchoConn(d)'
  BY DEF EchoConn, Dropped, Unaccepted, Unmade, FE!Alive

(* A client whose server end is cut is one that was dropped.               *)
LEMMA CutIsDropped ==
  ASSUME EchoInv, NEW c \in Clients, FE!Alive(c)
  PROVE  FE!Cut(c) <=> Dropped(c)
<1>1. kid[c] \in {"none", "read", "write", "spin", "zombie"} /\ EchoConn(c)
      /\ fCpc[c] \in {"typing", "waiting"}
  BY DEF EchoInv, FE!TypeOK, FE!Alive
<1>2. kid[c] \in {"none", "read", "write"}
  BY <1>1 DEF EchoConn
<1>3. held[c] = {} <=> fCur # c /\ kid[c] = "none"
  <2>1. CASE fCur = c
    <3>1. "parent" \in held[c]
      BY <1>1, <2>1 DEF EchoConn
    <3> QED BY <2>1, <3>1
  <2>2. CASE fCur # c /\ kid[c] = "none"
    <3>1. held[c] = {} \cup {}
      BY <1>1, <2>2 DEF EchoConn
    <3> QED BY <2>2, <3>1
  <2>3. CASE fCur # c /\ kid[c] # "none"
    <3>1. "kid" \in held[c]
      BY <1>1, <1>2, <2>3 DEF EchoConn
    <3> QED BY <2>3, <3>1
  <2> QED BY <2>1, <2>2, <2>3
<1>4. FE!Accepted(c) <=> ~Unaccepted(c) /\ fCur # c
  BY <1>1 DEF FE!Accepted, Unaccepted, Unmade
<1> QED BY <1>3, <1>4 DEF FE!Cut, Dropped

LEMMA EchoConnect == ASSUME FE!EchoAssumption, EchoInv, NEW c \in Clients, FE!Connect(c),
                            UNCHANGED <<FE!pvars, held, kid>> PROVE EchoInv'
<1>1. /\ fCpc[c] = "start" /\ fCpc' = [fCpc EXCEPT ![c] = "typing"] /\ Len(fBacklog) < EchoBacklog
      /\ fBacklog' = Append(fBacklog, c)
      /\ UNCHANGED <<fInbox, outbox, fReset, par, fCur, held, kid>>
  BY DEF FE!Connect, FE!Is, FE!pvars
<1>2. FE!TypeOK
  BY DEF EchoInv
<1>3. FE!Range(fBacklog') = FE!Range(fBacklog) \cup {c}
  BY <1>1, <1>2, RangeAppend DEF FE!TypeOK
<1>4. FE!Range(fBacklog)' = FE!Range(fBacklog) \cup {c}
  BY <1>3 DEF FE!Range
<1>5. Unmade(c) /\ ~Unmade(c)' /\ \A d \in Clients \ {c} : Unmade(d)' = Unmade(d)
  BY <1>1, <1>2 DEF Unmade, FE!TypeOK
<1>6. c \notin FE!Range(fBacklog) /\ fCur # c
  BY <1>5 DEF EchoInv, EchoQueue
<1>7. FE!TypeOK'
  <2>1. fBacklog' \in Seq(Clients) /\ Len(fBacklog') <= EchoBacklog
    BY <1>1, <1>2 DEF FE!TypeOK, FE!EchoAssumption
  <2> QED BY <1>1, <1>2, <2>1 DEF FE!TypeOK
<1>8. EchoQueue'
  <2>1. /\ DOMAIN fBacklog' = DOMAIN fBacklog \cup {Len(fBacklog) + 1}
        /\ fBacklog'[Len(fBacklog) + 1] = c
        /\ \A k \in DOMAIN fBacklog : fBacklog'[k] = fBacklog[k]
    BY <1>1, <1>2 DEF FE!TypeOK
  <2>2. \A k \in DOMAIN fBacklog : fBacklog[k] # c
    BY <1>6 DEF FE!Range
  <2>3. \A k, l \in DOMAIN fBacklog' : fBacklog'[k] = fBacklog'[l] => k = l
    BY <2>1, <2>2 DEF EchoInv, EchoQueue
  <2>4. FE!Range(fBacklog) \subseteq Clients
    BY <1>2 DEF FE!TypeOK, FE!Range
  <2> QED BY <1>1, <1>4, <1>5, <1>6, <2>3, <2>4 DEF EchoInv, EchoQueue
<1>9. ASSUME NEW d \in Clients PROVE EchoConn(d)'
  <2>1. CASE d # c
    <3>1. fCpc'[d] = fCpc[d]
      BY <1>1, <1>2, <2>1 DEF FE!TypeOK
    <3> QED BY <1>1, <1>4, <2>1, <3>1, EchoFrame DEF EchoInv
  <2>2. CASE d = c
    <3>1. fCpc'[c] = "typing" /\ EchoConn(c)
      BY <1>1, <1>2 DEF FE!TypeOK, EchoInv
    <3>2. kid[c] = "none" /\ outbox[c] = 0 /\ fInbox[c] = 0 /\ c \notin fReset
      BY <1>5, <3>1 DEF EchoConn, Unaccepted, Dropped, Unmade
    <3> QED BY <1>1, <1>4, <1>6, <2>2, <3>1, <3>2
               DEF EchoConn, Dropped, Unaccepted, Unmade, FE!Alive
  <2> QED BY <2>1, <2>2
<1> QED BY <1>7, <1>8, <1>9 DEF EchoInv

(* The other steps of a client leave the queue as it is.                   *)
LEMMA EchoTalks ==
  ASSUME EchoInv, NEW c \in Clients, FE!ConnectFails(c) \/ FE!Write(c) \/ FE!Show(c) \/ FE!Kill(c),
         UNCHANGED <<FE!pvars, held, kid>>
  PROVE  EchoInv'
<1>0. FE!TypeOK /\ EchoConn(c)
  BY DEF EchoInv
<1>1. UNCHANGED <<fBacklog, par, fCur, held, kid>> /\ FE!Range(fBacklog)' = FE!Range(fBacklog)
  BY DEF FE!ConnectFails, FE!Write, FE!Show, FE!Kill, FE!pvars, FE!Range
<1>2. /\ \A d \in Clients \ {c} : fCpc'[d] = fCpc[d] /\ fInbox'[d] = fInbox[d] /\ outbox'[d] = outbox[d]
                                  /\ (d \in fReset' <=> d \in fReset)
      /\ Unmade(c)' = Unmade(c)
  BY <1>0 DEF FE!TypeOK, FE!ConnectFails, FE!Write, FE!Show, FE!Kill, FE!Is, Unmade
<1>3. Dropped(c)' = Dropped(c) /\ Unaccepted(c)' = Unaccepted(c)
  BY <1>1, <1>2 DEF Dropped, Unaccepted
<1>4. FE!Alive(c) => (FE!Cut(c) <=> Dropped(c))
  BY CutIsDropped
<1>5. FE!TypeOK' /\ EchoConn(c)'
  <2>0. /\ fCpc[c] \in {"start", "refused", "typing", "waiting", "dead"} /\ fInbox[c] \in 0 .. 1
        /\ outbox[c] \in 0 .. 1 /\ kid[c] \in {"none", "read", "write", "spin", "zombie"}
    BY <1>0 DEF FE!TypeOK
  <2>1. CASE FE!ConnectFails(c)
    BY <1>0, <1>1, <1>3, <2>0, <2>1
       DEF FE!TypeOK, FE!ConnectFails, FE!Is, EchoConn, Unmade, FE!Alive
  <2>2. CASE FE!Write(c)
    <3>1. fCpc[c] = "typing" /\ FE!Alive(c) /\ (FE!Cut(c) <=> Dropped(c)) /\ outbox' = outbox
      BY <1>4, <2>2 DEF FE!Write, FE!Is, FE!Alive
    <3>2. CASE Dropped(c)
      <4>1. /\ fCpc' = [fCpc EXCEPT ![c] = IF c \in fReset THEN "dead" ELSE "waiting"]
            /\ fInbox'[c] = fInbox[c] /\ fInbox' \in [Clients -> 0 .. 1]
            /\ fReset' = fReset \cup {c}
        BY <1>0, <2>2, <3>1, <3>2 DEF FE!TypeOK, FE!Write, FE!Is
      <4> QED BY <1>0, <1>1, <1>3, <3>1, <3>2, <4>1 DEF FE!TypeOK, EchoConn, Unmade, FE!Alive
    <3>3. CASE ~Dropped(c)
      <4>1. /\ fCpc' = [fCpc EXCEPT ![c] = "waiting"] /\ fReset' = fReset
            /\ fInbox' = [fInbox EXCEPT ![c] = fInbox[c] + 1]
        BY <1>0, <2>2, <3>1, <3>3 DEF FE!TypeOK, FE!Write, FE!Is
      <4>2. fInbox[c] = 0 /\ outbox[c] = 0 /\ kid[c] # "write"
        BY <1>0, <2>0, <3>1, <3>3 DEF EchoConn
      <4>3. FE!TypeOK' /\ fCpc'[c] = "waiting" /\ fInbox'[c] = 1
        BY <1>0, <1>1, <3>1, <4>1, <4>2 DEF FE!TypeOK
      <4> QED BY <1>0, <1>1, <1>3, <3>1, <4>1, <4>2, <4>3 DEF EchoConn, Unmade, FE!Alive
    <3> QED BY <3>2, <3>3
  <2>3. CASE FE!Show(c)
    <3>1. /\ fCpc[c] = "waiting" /\ FE!Alive(c) /\ (FE!Cut(c) <=> Dropped(c))
          /\ fInbox' = fInbox /\ fReset' = fReset
          /\ fCpc' = [fCpc EXCEPT ![c] = "typing"] /\ outbox' = [outbox EXCEPT ![c] = 0]
          /\ outbox[c] > 0 \/ FE!Cut(c)
      BY <1>4, <2>3 DEF FE!Show, FE!Is, FE!Alive
    <3>2. FE!TypeOK' /\ fCpc'[c] = "typing" /\ outbox'[c] = 0
      BY <1>0, <1>1, <3>1 DEF FE!TypeOK
    <3>3. ~Dropped(c) => fInbox[c] = 0 /\ kid[c] # "write"
      BY <1>0, <2>0, <3>1 DEF EchoConn
    <3> QED BY <1>0, <1>1, <1>3, <3>1, <3>2, <3>3 DEF EchoConn, Unmade, FE!Alive
  <2>4. CASE FE!Kill(c)
    <3>1. /\ fCpc[c] \in {"typing", "waiting"} /\ fCpc' = [fCpc EXCEPT ![c] = "dead"]
          /\ fReset' = (IF outbox[c] > 0 THEN fReset \cup {c} ELSE fReset)
          /\ UNCHANGED <<fInbox, outbox>>
      BY <2>4 DEF FE!Kill
    <3>2. FE!TypeOK' /\ fCpc'[c] = "dead"
      BY <1>0, <1>1, <3>1 DEF FE!TypeOK
    <3> QED BY <1>0, <1>1, <1>3, <3>1, <3>2 DEF EchoConn, Unmade, FE!Alive
  <2> QED BY <2>1, <2>2, <2>3, <2>4
<1>6. EchoQueue'
  <2>1. \A d \in Clients : Unmade(d)' = Unmade(d)
    BY <1>2 DEF Unmade
  <2>2. FE!Range(fBacklog) \subseteq Clients
    BY <1>0 DEF FE!TypeOK, FE!Range
  <2> QED BY <1>1, <2>1, <2>2 DEF EchoInv, EchoQueue
<1>7. \A d \in Clients \ {c} : EchoConn(d)'
  BY <1>1, <1>2, EchoFrame DEF EchoInv
<1> QED BY <1>5, <1>6, <1>7 DEF EchoInv

(* The parent takes the head of the queue in its hand.                     *)
LEMMA EchoAccept == ASSUME FE!EchoAssumption, EchoInv, FE!Accept PROVE EchoInv'
<1> DEFINE c == Head(fBacklog)
<1>1. FE!TypeOK /\ EchoQueue
  BY DEF EchoInv
<1>2. /\ par = "accept" /\ fBacklog # <<>> /\ par' = "fork" /\ fCur' = c
      /\ fBacklog' = Tail(fBacklog)
      /\ held' = [held EXCEPT ![c] = {"parent"}] /\ UNCHANGED <<fCpc, fInbox, outbox, fReset, kid>>
  BY DEF FE!Accept
<1>3. fBacklog \in Seq(Clients) /\ \A k, l \in DOMAIN fBacklog : fBacklog[k] = fBacklog[l] => k = l
  BY <1>1 DEF FE!TypeOK, EchoQueue
<1>4. /\ c \in Clients /\ c \in FE!Range(fBacklog)
      /\ FE!Range(Tail(fBacklog)) = FE!Range(fBacklog) \ {c}
      /\ \A k, l \in DOMAIN Tail(fBacklog) : Tail(fBacklog)[k] = Tail(fBacklog)[l] => k = l
  BY <1>2, <1>3, RangeTail
<1>5. FE!Range(fBacklog)' = FE!Range(fBacklog) \ {c}
  <2>1. FE!Range(fBacklog') = FE!Range(fBacklog) \ {c}
    BY <1>2, <1>4
  <2> QED BY <2>1 DEF FE!Range
<1>6. fCur \notin Clients /\ ~Unmade(c) /\ EchoConn(c)
  BY <1>1, <1>2, <1>4 DEF EchoQueue, EchoInv
<1>7. kid[c] = "none"
  BY <1>4, <1>6 DEF EchoConn, Unaccepted
<1>8. FE!TypeOK'
  <2>1. fBacklog' \in Seq(Clients) /\ Len(fBacklog') <= EchoBacklog
    BY <1>1, <1>2, <1>3 DEF FE!TypeOK, FE!EchoAssumption
  <2>2. held' \in [Clients -> SUBSET {"parent", "kid"}]
    BY <1>1, <1>2, <1>4 DEF FE!TypeOK
  <2> HIDE DEF c
  <2> QED BY <1>1, <1>2, <1>4, <2>1, <2>2 DEF FE!TypeOK
<1>9. \A d \in Clients : held'[d] = IF d = c THEN {"parent"} ELSE held[d]
  BY <1>1, <1>2, <1>4 DEF FE!TypeOK
<1>10. \A k, l \in DOMAIN fBacklog' : fBacklog'[k] = fBacklog'[l] => k = l
  BY <1>2, <1>4
<1> HIDE DEF c
<1>11. EchoQueue'
  <2>1. \A d : Unmade(d)' = Unmade(d)
    BY <1>2 DEF Unmade
  <2>2. \A d \in FE!Range(fBacklog)' : ~Unmade(d)' /\ fCur' # d
    BY <1>1, <1>2, <1>5, <2>1 DEF EchoQueue
  <2>3. fCur' \in Clients /\ ~Unmade(fCur') /\ par' = "fork" /\ kid'[fCur'] = "none"
    BY <1>2, <1>4, <1>6, <1>7
  <2> QED BY <1>10, <1>2, <2>2, <2>3 DEF EchoQueue, Unmade
<1>12. ASSUME NEW d \in Clients PROVE EchoConn(d)'
  <2>1. CASE d # c
    BY <1>2, <1>5, <1>6, <1>9, <2>1, EchoFrame DEF EchoInv
  <2>2. CASE d = c
    <3>1. ~Unaccepted(d)' /\ ~Dropped(d)' /\ ~Dropped(d)
      BY <1>2, <1>4, <1>5, <1>6, <2>2 DEF Unaccepted, Unmade, Dropped
    <3>2. held'[d] = {"parent"} \cup {} /\ kid'[d] = "none" /\ fCur' = d
      BY <1>2, <1>7, <1>9, <2>2
    <3> QED BY <1>2, <1>6, <1>7, <2>2, <3>1, <3>2 DEF EchoConn, Unmade, FE!Alive
  <2> QED BY <2>1, <2>2
<1> QED BY <1>8, <1>11, <1>12 DEF EchoInv

(* The parent boots, forks and closes its copy.                            *)
LEMMA EchoParent ==
  ASSUME FE!EchoAssumption, EchoInv,
         FE!Start \/ FE!StartFails \/ FE!Fork \/ FE!ForkFails \/ FE!ParentClose
  PROVE  EchoInv'
<1>1. FE!TypeOK /\ EchoQueue
  BY DEF EchoInv
<1>2. UNCHANGED <<fCpc, fBacklog, fInbox, outbox, fReset>>
      /\ FE!Range(fBacklog)' = FE!Range(fBacklog)
  BY DEF FE!Start, FE!StartFails, FE!Fork, FE!ForkFails, FE!ParentClose, FE!cvars, FE!Range
<1>3. \A d : Unmade(d)' = Unmade(d) /\ Unaccepted(d)' = Unaccepted(d)
  BY <1>2 DEF Unmade, Unaccepted
<1>4. CASE FE!Start \/ FE!StartFails \/ FE!ForkFails
  <2>1. /\ UNCHANGED <<fCur, held, kid>> /\ par' \in {"accept", "exit", "close"}
        /\ par' = "close" <=> par \in {"fork", "close"}
    BY <1>4 DEF FE!Start, FE!StartFails, FE!ForkFails
  <2>2. FE!TypeOK' /\ EchoQueue'
    <3>1. FE!TypeOK'
      BY <1>1, <1>2, <2>1 DEF FE!TypeOK
    <3>2. EchoQueue'
      BY <1>1, <1>2, <2>1 DEF EchoQueue, Unmade
    <3> QED BY <3>1, <3>2
  <2>3. \A d \in Clients : EchoConn(d)'
    BY <1>2, <2>1, EchoFrame DEF EchoInv
  <2> QED BY <2>2, <2>3 DEF EchoInv
<1>5. CASE FE!Fork
  <2>1. /\ par = "fork" /\ kid' = [kid EXCEPT ![fCur] = "read"] /\ fCur' = fCur
        /\ held' = [held EXCEPT ![fCur] = held[fCur] \cup {"kid"}] /\ par' = "close"
    BY <1>5 DEF FE!Fork
  <2>2. fCur \in Clients /\ kid[fCur] = "none" /\ ~Unmade(fCur) /\ ~Unaccepted(fCur)
        /\ EchoConn(fCur)
    BY <1>1, <2>1 DEF EchoInv, EchoQueue, Unaccepted
  <2>3. \A d \in Clients : /\ kid'[d] = (IF d = fCur THEN "read" ELSE kid[d])
                           /\ held'[d] = (IF d = fCur THEN held[d] \cup {"kid"} ELSE held[d])
    BY <1>1, <2>1, <2>2 DEF FE!TypeOK
  <2>4. FE!TypeOK'
    <3>1. kid' \in [Clients -> {"none", "read", "write", "spin", "zombie"}]
          /\ held' \in [Clients -> SUBSET {"parent", "kid"}]
      BY <1>1, <2>1, <2>2 DEF FE!TypeOK
    <3> QED BY <1>1, <1>2, <2>1, <3>1 DEF FE!TypeOK
  <2>5. EchoQueue'
    BY <1>1, <1>2, <2>1, <2>2 DEF EchoQueue, Unmade
  <2>6. ASSUME NEW d \in Clients PROVE EchoConn(d)'
    <3>1. CASE d # fCur
      BY <1>2, <2>1, <2>3, <3>1, EchoFrame DEF EchoInv
    <3>2. CASE d = fCur
      <4>1. held[d] = {"parent"} \cup {} /\ held'[d] = {"parent"} \cup {"kid"}
            /\ kid'[d] = "read" /\ fCur' = d
        BY <2>1, <2>2, <2>3, <3>2 DEF EchoConn
      <4>2. ~Unaccepted(d)' /\ ~Dropped(d) /\ ~Dropped(d)'
        BY <1>3, <2>2, <3>2, <4>1 DEF Dropped
      <4> QED BY <1>2, <1>3, <2>2, <3>2, <4>1, <4>2 DEF EchoConn, Unmade, FE!Alive
    <3> QED BY <3>1, <3>2
  <2> QED BY <2>4, <2>5, <2>6 DEF EchoInv
<1>6. CASE FE!ParentClose
  <2>1. /\ par = "close" /\ held' = [held EXCEPT ![fCur] = held[fCur] \ {"parent"}]
        /\ par' = "accept" /\ fCur' = NoConn /\ kid' = kid
    BY <1>6 DEF FE!ParentClose
  <2>2. fCur \in Clients /\ ~Unaccepted(fCur) /\ EchoConn(fCur) /\ fCur' \notin Clients
    BY <1>1, <2>1 DEF EchoInv, EchoQueue, Unaccepted, FE!EchoAssumption
  <2>3. \A d \in Clients : held'[d] = (IF d = fCur THEN held[d] \ {"parent"} ELSE held[d])
    BY <1>1, <2>1, <2>2 DEF FE!TypeOK
  <2>4. FE!TypeOK'
    <3>1. held' \in [Clients -> SUBSET {"parent", "kid"}]
      BY <1>1, <2>1, <2>2 DEF FE!TypeOK
    <3> QED BY <1>1, <1>2, <2>1, <3>1 DEF FE!TypeOK
  <2>5. EchoQueue'
    <3>1. FE!Range(fBacklog) \subseteq Clients
      BY <1>1 DEF FE!TypeOK, FE!Range
    <3>2. \A d \in FE!Range(fBacklog)' : ~Unmade(d)' /\ fCur' # d
      BY <1>1, <1>2, <1>3, <2>2, <3>1 DEF EchoQueue
    <3> QED BY <1>1, <1>2, <2>1, <2>2, <3>2 DEF EchoQueue
  <2>6. ASSUME NEW d \in Clients PROVE EchoConn(d)'
    <3>1. CASE d # fCur
      BY <1>2, <2>1, <2>2, <2>3, <3>1, EchoFrame DEF EchoInv
    <3>2. CASE d = fCur
      <4>1. held'[d] = {} \cup (IF kid[d] \in {"read", "write", "spin"} THEN {"kid"} ELSE {})
        BY <2>2, <2>3, <3>2 DEF EchoConn
      <4>2. ~Unaccepted(d)' /\ ~Dropped(d) /\ fCur' # d
        BY <1>3, <2>2, <3>2 DEF Dropped
      <4> QED BY <1>2, <1>3, <2>1, <2>2, <3>2, <4>1, <4>2 DEF EchoConn, Unmade, FE!Alive, Dropped
    <3> QED BY <3>1, <3>2
  <2> QED BY <2>4, <2>5, <2>6 DEF EchoInv
<1> QED BY <1>4, <1>5, <1>6

(* The child serves a connection that was accepted, and was not dropped.   *)
LEMMA EchoKid == ASSUME EchoInv, NEW c \in Clients, FE!Kid(c) PROVE EchoInv'
<1>0. /\ FE!TypeOK /\ EchoQueue /\ EchoConn(c)
      /\ fCpc[c] \in {"start", "refused", "typing", "waiting", "dead"}
      /\ fInbox[c] \in 0 .. 1 /\ outbox[c] \in 0 .. 1
  BY DEF EchoInv, FE!TypeOK
<1>1. /\ UNCHANGED <<fCpc, fBacklog, par, fCur>> /\ FE!Range(fBacklog)' = FE!Range(fBacklog)
      /\ kid[c] \in {"read", "write"}
      /\ \E to \in {"read", "write", "spin", "zombie"} : kid' = [kid EXCEPT ![c] = to]
  BY DEF FE!Kid, FE!KidEnd, FE!KidRead, FE!KidWrite, FE!KidPipe, FE!Becomes, FE!cvars, FE!pvars,
     FE!Range
<1>2. /\ kid' \in [Clients -> {"none", "read", "write", "spin", "zombie"}]
      /\ kid'[c] # "none" /\ \A d \in Clients \ {c} : kid'[d] = kid[d]
  BY <1>0, <1>1 DEF FE!TypeOK
<1>3. ~Unaccepted(c) /\ ~Unaccepted(c)' /\ ~Dropped(c) /\ ~Dropped(c)' /\ ~Unmade(c)
  BY <1>0, <1>1, <1>2 DEF EchoConn, Unaccepted, Unmade, Dropped
<1>4. EchoQueue'
  <2>1. par = "fork" => fCur \in Clients /\ fCur # c
    BY <1>0, <1>1 DEF EchoQueue
  <2> QED BY <1>0, <1>1, <1>2, <2>1 DEF EchoQueue, Unmade
<1>5. c \in fReset => fCpc[c] = "dead"
  BY <1>0, <1>3 DEF EchoConn
<1>6. \A d \in Clients \ {c} : /\ fInbox'[d] = fInbox[d] /\ outbox'[d] = outbox[d] /\ held'[d] = held[d]
                               /\ d \in fReset' <=> d \in fReset
  BY <1>0 DEF FE!TypeOK, FE!Kid, FE!KidEnd, FE!KidRead, FE!KidWrite, FE!KidPipe, FE!cvars
<1>7. \A d \in Clients \ {c} : EchoConn(d)'
  BY <1>1, <1>2, <1>6, EchoFrame DEF EchoInv
<1>8. FE!TypeOK' /\ EchoConn(c)'
  <2>1. CASE FE!KidEnd(c)
    <3>1. /\ fCpc[c] = "dead" /\ kid[c] = "read" /\ kid'[c] = "spin"
          /\ UNCHANGED <<fInbox, outbox, held, fReset>>
      BY <1>0, <2>1 DEF FE!KidEnd, FE!Becomes, FE!TypeOK, FE!cvars
    <3> QED BY <1>0, <1>1, <1>2, <1>3, <3>1 DEF EchoConn, FE!TypeOK, Unmade, FE!Alive
  <2>2. CASE FE!KidRead(c)
    <3>1. /\ kid[c] = "read" /\ (fInbox[c] > 0 \/ c \in fReset)
          /\ fInbox' = [fInbox EXCEPT ![c] = 0]
          /\ kid'[c] = "write" /\ UNCHANGED <<outbox, held, fReset>>
      BY <1>0, <2>2 DEF FE!KidRead, FE!Becomes, FE!TypeOK
    <3>2. fInbox' \in [Clients -> 0 .. 1] /\ fInbox'[c] = 0
      BY <1>0, <3>1 DEF FE!TypeOK
    <3>3. FE!Alive(c) => fInbox[c] = 1 /\ outbox[c] = 0 /\ fCpc[c] = "waiting"
      BY <1>0, <1>3, <1>5, <3>1 DEF EchoConn, FE!Alive
    <3>4. FE!TypeOK'
      BY <1>0, <1>1, <1>2, <3>1, <3>2 DEF FE!TypeOK
    <3> QED BY <1>0, <1>1, <1>3, <3>1, <3>2, <3>3, <3>4 DEF EchoConn, Unmade, FE!Alive
  <2>3. CASE FE!KidWrite(c)
    <3>1. /\ kid[c] = "write" /\ kid'[c] = "read" /\ UNCHANGED <<fInbox, held>>
          /\ outbox' = [outbox EXCEPT ![c] = IF fCpc[c] = "dead" THEN outbox[c] ELSE outbox[c] + 1]
          /\ fReset' = IF fCpc[c] = "dead" THEN fReset \cup {c} ELSE fReset
      BY <1>0, <2>3 DEF FE!KidWrite, FE!Becomes, FE!TypeOK
    <3>2. fCpc[c] # "dead" => FE!Alive(c)
      BY <1>0, <1>3 DEF Unmade, FE!Alive
    <3>3. FE!Alive(c) => fInbox[c] = 0 /\ outbox[c] = 0 /\ fCpc[c] = "waiting"
      BY <1>0, <1>3, <3>1 DEF EchoConn
    <3>4. /\ outbox' \in [Clients -> 0 .. 1]
          /\ outbox'[c] = IF fCpc[c] = "dead" THEN outbox[c] ELSE 1
      BY <1>0, <3>1, <3>2, <3>3 DEF FE!TypeOK
    <3>5. FE!TypeOK'
      BY <1>0, <1>1, <1>2, <3>1, <3>4 DEF FE!TypeOK
    <3> QED BY <1>0, <1>1, <1>3, <3>1, <3>3, <3>4, <3>5 DEF EchoConn, Unmade, FE!Alive
  <2>4. CASE FE!KidPipe(c)
    <3>1. /\ kid[c] = "write" /\ c \in fReset /\ kid'[c] = "zombie" /\ fCpc[c] = "dead"
          /\ held' = [held EXCEPT ![c] = held[c] \ {"kid"}] /\ UNCHANGED <<fInbox, outbox, fReset>>
      BY <1>0, <1>5, <2>4 DEF FE!KidPipe, FE!Becomes, FE!TypeOK, FE!cvars
    <3>2. held' \in [Clients -> SUBSET {"parent", "kid"}] /\ held'[c] = held[c] \ {"kid"}
      BY <1>0, <3>1 DEF FE!TypeOK
    <3>3. held'[c] = (IF fCur = c THEN {"parent"} ELSE {}) \cup {}
      BY <1>0, <3>1, <3>2 DEF EchoConn
    <3>4. FE!TypeOK'
      BY <1>0, <1>1, <1>2, <3>1, <3>2 DEF FE!TypeOK
    <3> QED BY <1>0, <1>1, <1>3, <3>1, <3>3, <3>4 DEF EchoConn, Unmade, FE!Alive
  <2> QED BY <2>1, <2>2, <2>3, <2>4 DEF FE!Kid
<1> QED BY <1>4, <1>7, <1>8 DEF EchoInv

LEMMA EchoStep == ASSUME FE!EchoAssumption PROVE EchoInv /\ [FE!Next]_FE!vars => EchoInv'
<1> SUFFICES ASSUME EchoInv, [FE!Next]_FE!vars PROVE EchoInv'
  OBVIOUS
<1>1. CASE UNCHANGED FE!vars
  <2>1. UNCHANGED <<fCpc, fBacklog, fInbox, outbox, held, fReset, par, fCur, kid>>
        /\ FE!Range(fBacklog)' = FE!Range(fBacklog)
    BY <1>1 DEF FE!vars, FE!cvars, FE!pvars, FE!Range
  <2>2. FE!TypeOK' /\ EchoQueue'
    <3>1. FE!TypeOK'
      BY <2>1 DEF EchoInv, FE!TypeOK
    <3>2. EchoQueue'
      BY <2>1 DEF EchoInv, EchoQueue, Unmade
    <3> QED BY <3>1, <3>2
  <2>3. \A c \in Clients : EchoConn(c)'
    BY <2>1, EchoFrame DEF EchoInv
  <2> QED BY <2>2, <2>3 DEF EchoInv
<1>2. ASSUME NEW c \in Clients, FE!ClientStep(c) PROVE EchoInv'
  BY <1>2, EchoConnect, EchoTalks DEF FE!ClientStep
<1> QED BY <1>1, <1>2, EchoAccept, EchoParent, EchoKid DEF FE!Next, FE!Parent, FE!AcceptFails

LEMMA EchoMeaning ==
  ASSUME EchoInv PROVE FE!TypeOK /\ FE!CutOnlyByFailedFork /\ FE!OneUnderWay
<1>1. ASSUME NEW c \in Clients, FE!Alive(c)
      PROVE  /\ kid[c] \in {"none", "read", "write"} /\ EchoConn(c)
             /\ FE!Accepted(c) => fCur # c /\ ~Unaccepted(c)
  BY <1>1 DEF EchoInv, EchoConn, FE!TypeOK, FE!Alive, FE!Accepted, Unaccepted, Unmade
<1>2. FE!CutOnlyByFailedFork
  <2>1. ASSUME NEW c \in Clients, FE!Alive(c), FE!Accepted(c), kid[c] = "none" PROVE held[c] = {}
    <3>1. held[c] = {} \cup {}
      BY <1>1, <2>1 DEF EchoConn
    <3> QED BY <3>1
  <2>2. ASSUME NEW c \in Clients, FE!Alive(c), FE!Accepted(c), kid[c] # "none"
        PROVE  held[c] = {"kid"} /\ FE!Serves(c)
    <3>1. held[c] = {} \cup {"kid"}
      BY <1>1, <2>2 DEF EchoConn
    <3> QED BY <1>1, <2>2, <3>1 DEF FE!Serves
  <2> QED BY <2>1, <2>2 DEF FE!CutOnlyByFailedFork
<1>3. FE!OneUnderWay
  BY <1>1 DEF EchoConn, Dropped, FE!Serves, FE!OneUnderWay
<1> QED BY <1>2, <1>3 DEF EchoInv

(* A client of the forking echo server loses its connection only to a fork *)
(* that failed, and a served client has exactly one message under way when *)
(* it waits and none when it types, however the parent, the children and   *)
(* the clients that are killed interleave (lines 54-98).                   *)
THEOREM EchoIsSafe == ASSUME FE!EchoAssumption
                      PROVE  FE!Spec => [](FE!TypeOK /\ FE!CutOnlyByFailedFork /\ FE!OneUnderWay)
<1>1. FE!Spec => []EchoInv
  BY EchoInit, EchoStep, PTL DEF FE!Spec
<1> QED BY <1>1, EchoMeaning, PTL

-----------------------------------------------------------------------------
(* All of them in one: a behaviour of MCSpec runs one program, whose own   *)
(* invariant holds all along.                                              *)
ProgramInv ==
  /\ program = "singleton" => LockInv
  /\ program = "sem"       => SemInv
  /\ program = "lock"      => CounterInv
  /\ program = "flag"      => JoinedAfterStore
  /\ program = "ctime"     => OwnOrMet
  /\ program = "pipe"      => PipeInv
  /\ program = "echo"      => EchoInv

LEMMA ProgramInit == MCInit => ProgramInv
<1> SUFFICES ASSUME MCInit PROVE ProgramInv
  OBVIOUS
<1>1. LockInv /\ SemInv /\ CounterInv
  BY ProgramsAssumption, LockInvInit, SemInvInit, CounterInvInit DEF MCInit
<1>2. JoinedAfterStore /\ OwnOrMet
  BY FlagInit, CtimeInit DEF MCInit
<1>3. PipeInv /\ EchoInv
  BY ProgramsAssumption, PipeInit, EchoInit DEF MCInit
<1> QED BY <1>1, <1>2, <1>3 DEF ProgramInv

LEMMA ProgramStep == ProgramInv /\ [MCNext]_MCvars => ProgramInv'
<1> SUFFICES ASSUME ProgramInv, [MCNext]_MCvars PROVE ProgramInv'
  OBVIOUS
<1> USE DEF MCNext, MCvars, Does, Rest, GetInstance, Sem, Locks, Flag, Ctime, Pipe, Echo, Pool, Pth
<1>1. program' = program
  OBVIOUS
<1>2. CASE program = "singleton"
  <2>1. [Next]_vars
    BY <1>2
  <2> QED BY <1>1, <1>2, <2>1, LockInvStep DEF ProgramInv
<1>3. CASE program = "sem"
  <2>1. [SE!Next]_SE!vars
    BY <1>3 DEF semVars, SE!vars, SE!Next
  <2> QED BY <1>1, <1>3, <2>1, SemInvStep, ProgramsAssumption DEF ProgramInv
<1>4. CASE program = "lock"
  <2>1. [LO!Next]_LO!vars
    BY <1>4 DEF lockVars, LO!vars
  <2> QED BY <1>1, <1>4, <2>1, CounterInvStep, ProgramsAssumption DEF ProgramInv
<1>5. CASE program = "flag"
  <2>1. [DA!FlagNext]_DA!flagVars
    BY <1>5 DEF flagVars, DA!flagVars
  <2> QED BY <1>1, <1>5, <2>1, FlagStep DEF ProgramInv
<1>6. CASE program = "ctime"
  <2>1. [DA!CtimeNext]_DA!ctimeVars
    BY <1>6 DEF ctimeVars, DA!ctimeVars
  <2> QED BY <1>1, <1>6, <2>1, CtimeStep DEF ProgramInv
<1>7. CASE program = "pipe"
  <2>1. [PI!Next]_PI!vars
    BY <1>7 DEF pipeVars, PI!vars
  <2> QED BY <1>1, <1>7, <2>1, PipeStep, ProgramsAssumption DEF ProgramInv
<1>8. CASE program = "echo"
  <2>1. [FE!Next]_FE!vars
    BY <1>8 DEF forkVars, FE!vars, FE!cvars, FE!pvars
  <2> QED BY <1>1, <1>8, <2>1, EchoStep, ProgramsAssumption DEF ProgramInv
<1>9. CASE program \notin {"singleton", "sem", "lock", "flag", "ctime", "pipe", "echo"}
  BY <1>1, <1>9 DEF ProgramInv
<1> QED BY <1>2, <1>3, <1>4, <1>5, <1>6, <1>7, <1>8, <1>9

(* What the run shows of one instance holds of every one: each program,    *)
(* for all its numbers of threads, rounds, processes and clients, keeps    *)
(* its part of ThreadsHold.                                                *)
THEOREM ProgramsAreSafe == MCSpec => []ThreadsHold
<1>1. ProgramInv => ThreadsHold
  <2> SUFFICES ASSUME ProgramInv PROVE ThreadsHold
    OBVIOUS
  <2>1. program = "singleton" => TypeOK
    BY DEF ProgramInv, LockInv
  <2>2. program = "sem" => SE!TypeOK /\ SE!DestroyedIdle
    BY DEF ProgramInv, SemInv, JoinOrder, SE!DestroyedIdle
  <2>3. program = "lock" =>
          LO!TypeOK /\ LO!ExactUntilDestroyed /\ LO!InsideOwns /\ LO!AtMostOneLost
    BY CounterMeaning, ProgramsAssumption DEF ProgramInv
  <2>4. program = "flag" => DA!PrintsEight /\ DA!OneRoundMore
    BY FlagMeaning DEF ProgramInv
  <2>5. program = "ctime" => DA!WrongOnlyByOverlap
    BY CtimeMeaning DEF ProgramInv
  <2>6. program = "pipe" => PI!WholeOrNothing /\ PI!BrokenByAKill
    BY PipeMeaning, ProgramsAssumption DEF ProgramInv
  <2>7. program = "echo" => FE!TypeOK /\ FE!CutOnlyByFailedFork /\ FE!OneUnderWay
    BY EchoMeaning DEF ProgramInv
  <2> QED BY <2>1, <2>2, <2>3, <2>4, <2>5, <2>6, <2>7 DEF ThreadsHold
<1> QED BY <1>1, ProgramInit, ProgramStep, PTL DEF MCSpec
=============================================================================
