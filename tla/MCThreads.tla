----------------------------- MODULE MCThreads -----------------------------
(***************************************************************************)
(* The programs whose threads and processes share memory, a mutex, a       *)
(* semaphore, a pipe or a listening socket, for TLC, one a behaviour: Init *)
(* chooses it, and the variables of the others stay as they begin.         *)
(***************************************************************************)
EXTENDS SingletonLock

CONSTANTS Initial, SemMax,                      \* sem.c
          MaxRounds, Nobody,                    \* lock.c
          Times, MaxTime, CtimeWorkers,         \* test.c and ctime
          Message,                              \* pipe.c
          Clients, EchoBacklog, ProcLimit, NoConn, Prompt       \* the TCP servers

VARIABLES program,
          semRunning, sem, destroyed, prod, cons, semMain,
          lockRunning, buffer_item, owner, dead, lockAt, loaded, rounds, lockMain,
          run, retvalue, ret_join, i, flagMain, son, printed, late,
          time, ctimeAt, now, shared, buf, met,
          prog, forkAt, readers, writers, pipe, size, status,
          fCpc, fBacklog, fInbox, outbox, held, fReset, par, fCur, kid,
          cpc, backlog, listening, inbox, sent, closed, reset,
          main, lock, poolAt, cur,
          pc, fdClient, addrClient, fdTable, pthAt, fd, conn

semVars   == <<semRunning, sem, destroyed, prod, cons, semMain>>
lockVars  == <<lockRunning, buffer_item, owner, dead, lockAt, loaded, rounds, lockMain>>
flagVars  == <<run, retvalue, ret_join, i, flagMain, son, printed, late>>
ctimeVars == <<time, ctimeAt, now, shared, buf, met>>
pipeVars  == <<prog, forkAt, readers, writers, pipe, size, status>>
forkVars  == <<fCpc, fBacklog, fInbox, outbox, held, fReset, par, fCur, kid>>
tcpVars   == <<cpc, backlog, listening, inbox, sent, closed, reset>>
poolVars  == <<main, lock, poolAt, cur>>
pthVars   == <<pc, fdClient, addrClient, fdTable, pthAt, fd, conn>>

SE == INSTANCE SemThreads WITH running <- semRunning, main <- semMain
LO == INSTANCE LockThreads WITH running <- lockRunning, at <- lockAt, main <- lockMain
DA == INSTANCE ThreadData WITH Workers <- CtimeWorkers, main <- flagMain, at <- ctimeAt
PI == INSTANCE ForkPipe WITH at <- forkAt
FE == INSTANCE ForkEcho WITH Backlog <- EchoBacklog,
        cpc <- fCpc, backlog <- fBacklog, inbox <- fInbox, reset <- fReset, cur <- fCur
(* One worker: a failed accept leaves nobody behind. *)
PO == INSTANCE PreThreadTcp WITH TimeClients <- Prompt, Backlog <- 1, Workers <- {"w1"}, at <- poolAt
(* One descriptor: the race of the threads can lose it for good. *)
TH == INSTANCE ThreadTcp WITH TimeClients <- Clients, Backlog <- 2, MaxFds <- 1, at <- pthAt

ASSUME ProgramsAssumption ==
  /\ SE!SemAssumption /\ LO!RoundsAssumption /\ DA!TimesAssumption /\ DA!CtimeAssumption
  /\ PI!PipeAssumption /\ FE!EchoAssumption

Rest(p) == /\ UNCHANGED program
           /\ p # "singleton" => UNCHANGED vars
           /\ p # "sem"       => UNCHANGED semVars
           /\ p # "lock"      => UNCHANGED lockVars
           /\ p # "flag"      => UNCHANGED flagVars
           /\ p # "ctime"     => UNCHANGED ctimeVars
           /\ p # "pipe"      => UNCHANGED pipeVars
           /\ p # "echo"      => UNCHANGED forkVars
           /\ p \notin {"pool", "pth"} => UNCHANGED tcpVars
           /\ p # "pool"      => UNCHANGED poolVars
           /\ p # "pth"       => UNCHANGED pthVars

MCInit == /\ program \in {"singleton", "sem", "lock", "flag", "ctime", "pipe", "echo", "pool", "pth"}
          /\ program # "pipe" => prog = "pipe"
          /\ Init /\ SE!Init /\ LO!Init /\ DA!FlagInit /\ DA!CtimeInit /\ PI!Init
          /\ FE!Init /\ PO!Init /\ TH!Init

Does(p)     == program = p /\ Rest(p)
GetInstance == Does("singleton") /\ Next
Sem         == Does("sem") /\ (SE!Producer \/ SE!Consumer \/ SE!Main)
Locks       == Does("lock") /\ LO!Next
Flag        == Does("flag") /\ DA!FlagNext
Ctime       == Does("ctime") /\ DA!CtimeNext
Pipe        == Does("pipe") /\ PI!Next
Echo        == Does("echo") /\ FE!Next
Pool        == Does("pool") /\ PO!Next
Pth         == Does("pth") /\ TH!Next

(* A thread that is not asleep and a process are scheduled.  Threads of    *)
(* different programs share a condition, since a behaviour runs one.       *)
Caller(t)   == Does("singleton") /\ Step(t)
FirstThread == \/ Does("sem") /\ SE!Producer
               \/ Does("flag") /\ DA!Main
               \/ Does("pipe") /\ PI!Parent
               \/ Does("echo") /\ FE!Parent
               \/ Does("pool") /\ (PO!Start \/ PO!Return \/ PO!Exit \/ PO!Create("w1"))
               \/ Does("pth") /\ (TH!Start \/ TH!Accept \/ TH!Create \/ TH!Return)
OtherThread == \/ Does("sem") /\ SE!Consumer
               \/ Does("flag") /\ DA!Son
               \/ Does("pipe") /\ PI!Child
               \/ Does("pool") /\ (PO!Lock("w1") \/ PO!Work("w1"))
ThirdThread == Does("sem") /\ SE!Main
Serves(c)   == \/ Does("echo") /\ FE!Kid(c)
               \/ Does("pth") /\ TH!Thread(c)
Reads(c)    == Does("echo") /\ FE!Show(c) /\ UNCHANGED <<par, fCur, held, kid>>

MCNext == GetInstance \/ Sem \/ Locks \/ Flag \/ Ctime \/ Pipe \/ Echo \/ Pool \/ Pth
MCvars == <<program, vars, semVars, lockVars, flagVars, ctimeVars, pipeVars, forkVars, tcpVars,
            poolVars, pthVars>>
MCSpec == /\ MCInit /\ [][MCNext]_MCvars
          /\ WF_MCvars(FirstThread) /\ WF_MCvars(OtherThread) /\ WF_MCvars(ThirdThread)
          /\ \A t \in Threads : WF_MCvars(Caller(t))
          /\ \A c \in Clients : WF_MCvars(Serves(c)) /\ WF_MCvars(Reads(c))

-----------------------------------------------------------------------------
(* The semaphore is destroyed idle; the mutex keeps the counter exact      *)
(* until main destroys it, and then one update is lost at most; main reads *)
(* what its thread stored; a wrong time is another thread's that answered  *)
(* meanwhile; the pipe gives the message whole, and breaks only for a      *)
(* parent that was killed; a client of the forking echo server is cut off  *)
(* only by a failed fork and has one answer under way for each request.    *)
ThreadsHold ==
  /\ program = "singleton" => TypeOK
  /\ program = "sem"   => SE!TypeOK /\ SE!DestroyedIdle
  /\ program = "lock"  => LO!TypeOK /\ LO!ExactUntilDestroyed /\ LO!InsideOwns /\ LO!AtMostOneLost
  /\ program = "flag"  => DA!PrintsEight /\ DA!OneRoundMore
  /\ program = "ctime" => DA!WrongOnlyByOverlap
  /\ program = "pipe"  => PI!WholeOrNothing /\ PI!BrokenByAKill
  /\ program = "echo"  => FE!TypeOK /\ FE!CutOnlyByFailedFork /\ FE!OneUnderWay

(* sem.c ends unless its consumer sleeps on an empty semaphore for good,   *)
(* and one unit left is enough; test.c ends; both processes of pipe.c end, *)
(* whoever is killed; a child of the echo server answers, is never got rid *)
(* of, and the full process table drops the others; a pool of one ends     *)
(* with its failed accept; an accept queue drains unless every descriptor  *)
(* is lost or blocked in recv.  (The two servers keep their types.)        *)
ThreadsEnd ==
  /\ SE!StarvedForGood
  /\ program = "sem"  => SE!EndsUnlessStarved /\ SE!OneUnitEnds
  /\ program = "flag" => DA!Ends
  /\ program = "pipe" => PI!BothEnd
  /\ program = "echo" => FE!EveryVisitCostsAProcess /\ FE!Answered /\ FE!FullDrops
  /\ program = "pool" => []PO!TypeOK /\ PO!OneWorkerEnds
  /\ program = "pth"  => []TH!TypeOK /\ TH!QueueDrains
=============================================================================
