----------------------------- MODULE ThreadTcp -----------------------------
(***************************************************************************)
(* pth_tcp/server.c: main accepts and starts a thread per connection.      *)
(* Every thread is handed the address of the one local fd_client of        *)
(* deal_client, which the next accept overwrites; so the descriptor a      *)
(* thread works on is whatever that variable holds when the thread loads   *)
(* it.  A thread is named after the connection it was created for.         *)
(*                                                                         *)
(* The descriptor table is modelled, because a descriptor closed by one    *)
(* thread is reused by the next accept while another thread still has its  *)
(* number; a thread blocked in recv keeps the connection it blocked on,    *)
(* whatever becomes of the descriptor.                                     *)
(***************************************************************************)
EXTENDS TcpClients, FiniteSetsExt

CONSTANTS NoConn,       \* no connection
          MaxFds        \* descriptors the process may open for connections

ASSUME ThreadAssumption == NoConn \notin Clients /\ MaxFds \in Nat \ {0}

VARIABLES pc,           \* where main is
          fdClient,     \* deal_client's fd_client, shared with the threads
          addrClient,   \* its addr_client: whose connection was just accepted
          fdTable,      \* descriptor -> connection
          at,           \* thread -> where it is in deal_data
          fd,           \* thread -> its own fd_client
          conn          \* thread -> the connection its recv waits on

tvars == <<at, fd, conn>>
vars  == <<cvars, pc, fdClient, addrClient, fdTable, tvars>>

Fds  == 1 .. MaxFds
NoFd == 0               \* the -1 of a failed accept, or not yet accepted

Init == /\ ClientsInit
        /\ pc = "start" /\ fdClient = NoFd /\ addrClient = NoConn
        /\ fdTable = [n \in Fds |-> NoConn]
        /\ at = [t \in Clients |-> "none"]
        /\ fd = [t \in Clients |-> NoFd]
        /\ conn = [t \in Clients |-> NoConn]

FreeFds  == {n \in Fds : fdTable[n] = NoConn}
Behind(n) == IF n \in Fds THEN fdTable[n] ELSE NoConn
Goto(t, l) == at' = [at EXCEPT ![t] = l]

(* socket, bind and listen, lines 65-89. *)
Start == /\ pc = "start" /\ pc' = "accept" /\ Listen
         /\ UNCHANGED <<cpc, backlog, inbox, sent, closed, reset,
                        fdClient, addrClient, fdTable, tvars>>

StartFails == pc = "start" /\ pc' = "exit"
              /\ UNCHANGED <<cvars, fdClient, addrClient, fdTable, tvars>>

(* Mutant of Accept: main waits for the threads it has started. *)
AcceptJoins == \E c \in Clients :
  /\ pc = "accept" /\ FreeFds # {} /\ Accepted(c)
  /\ \A t \in Clients : at[t] \in {"none", "end"}
  /\ fdClient' = Min(FreeFds)
  /\ fdTable' = [fdTable EXCEPT ![fdClient'] = c]
  /\ addrClient' = c /\ pc' = "create"
  /\ UNCHANGED <<cpc, listening, inbox, sent, closed, reset, tvars>>

(* accept, line 42, writes the lowest free descriptor into fd_client. *)
Accept == \E c \in Clients :
  /\ pc = "accept" /\ FreeFds # {} /\ Accepted(c)
  /\ fdClient' = Min(FreeFds)
  /\ fdTable' = [fdTable EXCEPT ![fdClient'] = c]
  /\ addrClient' = c /\ pc' = "create"
  /\ UNCHANGED <<cpc, listening, inbox, sent, closed, reset, tvars>>

(* accept fails, line 43: -1 is in fd_client and the loop goes on. *)
AcceptFails == /\ pc = "accept" /\ fdClient' = NoFd
               /\ UNCHANGED <<cvars, pc, addrClient, fdTable, tvars>>

(* Mutant of Create: main closes its descriptor as the forking server's    *)
(* parent does.                                                            *)
CreateCloses == /\ pc = "create" /\ pc' = "accept"
                /\ Goto(addrClient, "load") /\ addrClient' = NoConn
                /\ fdTable' = [fdTable EXCEPT ![fdClient] = NoConn]
                /\ closed' = [closed EXCEPT ![addrClient] = TRUE]
                /\ UNCHANGED <<cpc, backlog, listening, inbox, sent, reset,
                               fdClient, fd, conn>>

(* pthread_create, line 45, with the address of fd_client. *)
Create == /\ pc = "create" /\ pc' = "accept"
          /\ Goto(addrClient, "load") /\ addrClient' = NoConn
          /\ UNCHANGED <<cvars, fdClient, fdTable, fd, conn>>

(* The process ends: every connection it holds is released. *)
Exit == /\ pc' = "exit"
        /\ StopListening({fdTable[n] : n \in Fds} \cup {conn[t] : t \in Clients})
        /\ fdTable' = [n \in Fds |-> NoConn]
        /\ at' = [t \in Clients |-> "none"]
        /\ conn' = [t \in Clients |-> NoConn]
        /\ addrClient' = NoConn
        /\ UNCHANGED <<cpc, inbox, sent, reset, fdClient, fd>>

(* pthread_create fails, lines 46-50: deal_client returns, and its frame   *)
(* is dead while the threads run on.                                       *)
CreateFails == /\ pc = "create" /\ pc' = "return"
               /\ UNCHANGED <<cvars, fdClient, addrClient, fdTable, tvars>>

(* return 0 of main, line 93, ends the process. *)
Return == pc = "return" /\ Exit

(* What a thread finds at its argument: fd_client, or anything at all once *)
(* the frame it was in is gone.                                            *)
Argument == IF pc = "return" THEN Fds \cup {NoFd} ELSE {fdClient}

(* int fd_client = *((int* )arg), line 15. *)
Load(t) == /\ at[t] = "load" /\ Goto(t, "recv")
           /\ \E n \in Argument : fd' = [fd EXCEPT ![t] = n]
           /\ UNCHANGED <<cvars, pc, fdClient, addrClient, fdTable, conn>>

(* Mutant of EnterRecv: the argument is read once more. *)
EnterRecvShared(t) ==
  /\ at[t] = "recv"
  /\ conn' = [conn EXCEPT ![t] = Behind(fdClient)]
  /\ Goto(t, IF Behind(fdClient) = NoConn THEN "close" ELSE "wait")
  /\ UNCHANGED <<cvars, pc, fdClient, addrClient, fdTable, fd>>

(* recv, line 21, looks the descriptor up; a closed one fails at once, and *)
(* the empty buffer is not "TIME".                                         *)
EnterRecv(t) ==
  /\ at[t] = "recv"
  /\ conn' = [conn EXCEPT ![t] = Behind(fd[t])]
  /\ Goto(t, IF Behind(fd[t]) = NoConn THEN "close" ELSE "wait")
  /\ UNCHANGED <<cvars, pc, fdClient, addrClient, fdTable, fd>>

(* c is released when neither the table nor another thread's recv refers   *)
(* to it.                                                                  *)
DropRef(c, table, waits) ==
  Released({c} \ ({table[n] : n \in Fds} \cup {waits[u] : u \in Clients}))

(* Mutants of ReturnRecv: the request is not looked at, or strncmp's       *)
(* outcome is not negated.                                                 *)
ReturnRecvUntested(t) ==
  /\ at[t] = "wait" /\ Read(conn[t]) /\ Goto(t, "send")
  /\ conn' = [conn EXCEPT ![t] = NoConn]
  /\ DropRef(conn[t], fdTable, conn')
  /\ UNCHANGED <<cpc, backlog, listening, sent, reset, pc, fdClient,
                 addrClient, fdTable, fd>>
ReturnRecvInverted(t) ==
  /\ at[t] = "wait" /\ Read(conn[t])
  /\ Goto(t, IF inbox[conn[t]] = "OTHER" THEN "send" ELSE "close")
  /\ conn' = [conn EXCEPT ![t] = NoConn]
  /\ DropRef(conn[t], fdTable, conn')
  /\ UNCHANGED <<cpc, backlog, listening, sent, reset, pc, fdClient,
                 addrClient, fdTable, fd>>

(* recv returns and the request is looked at, lines 21-22. *)
ReturnRecv(t) ==
  /\ at[t] = "wait" /\ Read(conn[t])
  /\ Goto(t, IF inbox[conn[t]] = "TIME" THEN "send" ELSE "close")
  /\ conn' = [conn EXCEPT ![t] = NoConn]
  /\ DropRef(conn[t], fdTable, conn')
  /\ UNCHANGED <<cpc, backlog, listening, sent, reset, pc, fdClient,
                 addrClient, fdTable, fd>>

(* send, line 27, on whatever the descriptor stands for now. *)
SendTime(t) ==
  /\ at[t] = "send" /\ Goto(t, "close")
  /\ IF Behind(fd[t]) = NoConn THEN UNCHANGED <<sent, reset>>
                               ELSE Sent(Behind(fd[t]))
  /\ UNCHANGED <<cpc, backlog, listening, inbox, closed,
                 pc, fdClient, addrClient, fdTable, fd, conn>>

(* A send on a connection that has been reset raises SIGPIPE, which nobody *)
(* handles.                                                                *)
BrokenPipe(t) == at[t] = "send" /\ Behind(fd[t]) \in reset /\ Exit

(* close, line 30, of whatever the descriptor stands for now. *)
Close(t) ==
  /\ at[t] = "close" /\ Goto(t, "end")
  /\ fdTable' = [n \in Fds |-> IF n = fd[t] THEN NoConn ELSE fdTable[n]]
  /\ DropRef(Behind(fd[t]), fdTable', conn)
  /\ UNCHANGED <<cpc, backlog, listening, inbox, sent, reset, pc, fdClient, addrClient,
                 fd, conn>>

Thread(t) == Load(t) \/ EnterRecv(t) \/ ReturnRecv(t) \/ SendTime(t)
             \/ BrokenPipe(t) \/ Close(t)
Client(c) == ClientStep(c) /\ UNCHANGED <<pc, fdClient, addrClient, fdTable, tvars>>

Done == pc = "exit" /\ (\A c \in Clients : Gone(c) \/ cpc[c] = "refused")
        /\ UNCHANGED vars

Next == Start \/ StartFails \/ Accept \/ AcceptFails \/ Create \/ CreateFails
        \/ Return \/ Done
        \/ \E c \in Clients : Thread(c) \/ Client(c)

(* Every thread is scheduled; nothing forces a system call to fail. *)
Fairness == /\ WF_vars(Start) /\ WF_vars(Accept) /\ WF_vars(Create) /\ WF_vars(Return)
            /\ \A t \in Clients : WF_vars(Thread(t))
            /\ ClientFairness

Spec == Init /\ [][Next]_vars /\ Fairness

(* The arrivals the code works for: no connection comes in before the      *)
(* thread of the one before has loaded the descriptor.                     *)
SpacedSpec == Init /\ [][Next /\ (Accept \/ AcceptFails =>
                                    \A t \in Clients : at[t] # "load")]_vars
              /\ Fairness
-----------------------------------------------------------------------------
TypeOK ==
  /\ ClientsTypeOK
  /\ pc \in {"start", "accept", "create", "return", "exit"}
  /\ fdClient \in Fds \cup {NoFd}
  /\ addrClient \in Clients \cup {NoConn}
  /\ fdTable \in [Fds -> Clients \cup {NoConn}]
  /\ at \in [Clients -> {"none", "load", "recv", "wait", "send", "close", "end"}]
  /\ fd \in [Clients -> Fds \cup {NoFd}]
  /\ conn \in [Clients -> Clients \cup {NoConn}]

Answers == UNION {{c} \X (1 .. sent[c]) : c \in Clients}    \* one by one
Sending == {t \in Clients : at[t] = "send"}
Asked   == {c \in TimeClients : /\ cpc[c] \notin {"start", "refused", "connected"}
                                /\ inbox[c] = "none"}

(* However the threads are mixed up, the server sends no more answers than *)
(* it was asked for: every answer stands for a TIME request that has been  *)
(* taken off some connection (lines 21-28).                                *)
AnswersAreAskedFor ==
  Cardinality(Answers) + Cardinality(Sending) <= Cardinality(Asked)

(* 单客户端单线程, line 57: one client, one thread.  The thread created    *)
(* for a connection is the one that serves it.                             *)
OneThreadPerClient == \A t \in Clients : conn[t] \in {t, NoConn}

(* With spaced arrivals an answer, too, goes to the client the thread was  *)
(* created for, and every descriptor has a thread that will close it.      *)
NothingLost ==
  /\ \A t \in Clients : at[t] \in {"send", "close"} =>
       /\ fd[t] \in Fds => fdTable[fd[t]] = t
       /\ sent[t] <= 1
  /\ \A n \in Fds : fdTable[n] # NoConn =>
       \/ pc \in {"create", "return"} /\ fdClient = n
       \/ at[fdTable[n]] = "load" /\ fdClient = n
       \/ at[fdTable[n]] \in {"recv", "wait", "send", "close"} /\ fd[fdTable[n]] = n

(* With spaced arrivals each thread serves its own client, nothing is lost *)
(* and each request has one answer.                                        *)
SpacedHolds == OneThreadPerClient /\ NothingLost /\ OneAnswer

(* Who still answers for descriptor n: main, which has accepted it and     *)
(* creates a thread; a thread that is about to load fd_client; or one that *)
(* holds the number.                                                       *)
Held(n) == \/ fdClient = n /\ (pc \in {"create", "return"} \/ \E t \in Clients : at[t] = "load")
           \/ \E t \in Clients : at[t] \in {"recv", "wait", "send", "close"} /\ fd[t] = n
Lost    == {n \in Fds : fdTable[n] # NoConn /\ ~Held(n)}
InLoop  == pc \notin {"return", "exit"}

(* Main never serves anybody itself, so a queued connection is always      *)
(* accepted in the end, unless every descriptor stays open for good, lost  *)
(* or with a thread in recv on it (line 42).                               *)
QueueDrains ==
  \A c \in Clients : c \in Range(backlog) ~>
    \/ c \notin Range(backlog)
    \/ [](\A n \in Fds : fdTable[n] # NoConn /\
             (n \in Lost \/ \E t \in Clients : at[t] = "wait" /\ fd[t] = n))

(* Somebody asked for the time and its connection has been released with   *)
(* no answer on it.                                                        *)
CutOff(c) == c \in TimeClients /\ Asking(c) /\ closed[c] /\ sent[c] = 0

(* What the race over fd_client costs.  As long as every open descriptor   *)
(* is still answered for, no thread serves another's client, nobody is     *)
(* answered twice and nobody is cut off, by a stale number either (lines   *)
(* 15 and 30): each such mix-up comes after a descriptor has been lost.    *)
(* And what is lost is lost for good, with the connection behind it: no    *)
(* later accept, load or close of the server gets at it (line 42).         *)
MixUpsLoseDescriptors ==
  /\ [](InLoop /\ Lost = {} => SpacedHolds /\ \A c \in Clients : ~CutOff(c))
  /\ [][InLoop' => \A n \in Lost : n \in Lost' /\ fdTable'[n] = fdTable[n]]_vars

(* With spaced arrivals a silent client holds up nobody but itself: prompt *)
(* clients are let go unless the silent ones fill the descriptor table.    *)
NobodyInTheWay ==
  \A c \in Prompt :
    Asking(c) ~> (~Asking(c) \/ [](\A n \in Fds : fdTable[n] \in Clients \ Prompt))

-----------------------------------------------------------------------------
T == INSTANCE TimeService WITH up <- pc \notin {"start", "exit"},
                               phase <- [c \in Clients |-> Phase(c)]

(* With spaced arrivals the server implements the time service. *)
ImplementsTimeService == T!TimeSpec
=============================================================================
