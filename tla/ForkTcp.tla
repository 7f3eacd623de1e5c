------------------------------ MODULE ForkTcp ------------------------------
(***************************************************************************)
(* bf_tcp/server.c: the parent accepts and forks a process per connection. *)
(* A child inherits both descriptors: the connection is released when the  *)
(* parent's copy and the child's are closed, and the listening socket when *)
(* the parent and all the children are gone.  The parent never waits for   *)
(* its children, so each of them keeps its place in the process table for  *)
(* as long as the parent runs.                                             *)
(***************************************************************************)
EXTENDS TcpClients, FiniteSets

CONSTANTS NoConn,       \* the parent holds no connection
          ProcLimit     \* entries of the process table the server may fill

ASSUME ForkAssumption == NoConn \notin Clients /\ ProcLimit \in Nat \ {0}

VARIABLES pc,           \* where the parent is
          cur,          \* the connection behind its fd_client
          kid           \* client -> where the child of its connection is

vars == <<cvars, pc, cur, kid>>

Init == /\ ClientsInit
        /\ pc = "start" /\ cur = NoConn
        /\ kid = [c \in Clients |-> "none"]

Running(c) == kid[c] \in {"recv", "send", "close", "leave"}
Children   == {c \in Clients : kid[c] # "none"}    \* running or zombies

(* socket, bind and listen, lines 19-43. *)
Start == /\ pc = "start" /\ pc' = "accept" /\ Listen
         /\ UNCHANGED <<cpc, backlog, inbox, sent, closed, reset, cur, kid>>

StartFails == pc = "start" /\ pc' = "exit" /\ UNCHANGED <<cvars, cur, kid>>

(* accept, line 59. *)
Accept == \E c \in Clients :
  /\ pc = "accept" /\ Accepted(c)
  /\ cur' = c /\ pc' = "fork"
  /\ UNCHANGED <<cpc, listening, inbox, sent, closed, reset, kid>>

(* The parent or a child exits and S are the connections it was the last   *)
(* to hold; the listening socket goes with the last process.               *)
Exit(S, others) ==
  /\ IF others = {} THEN StopListening(S)
                    ELSE Released(S) /\ UNCHANGED <<listening, backlog>>
  /\ UNCHANGED <<cpc, inbox, sent, reset>>

(* accept fails, lines 60-64: deal_connect returns and main with it. *)
AcceptFails == /\ pc = "accept" /\ pc' = "exit"
               /\ Exit({}, {c \in Clients : Running(c)}) /\ UNCHANGED <<cur, kid>>

(* Mutant of Fork: the parent has reaped the children that are gone. *)
ForkReaped ==
  /\ pc = "fork" /\ 1 + Cardinality({c \in Clients : Running(c)}) < ProcLimit
  /\ kid' = [kid EXCEPT ![cur] = "recv"] /\ pc' = "close"
  /\ UNCHANGED <<cvars, cur>>

(* fork, line 66: the process table has an entry left. *)
Fork == /\ pc = "fork" /\ 1 + Cardinality(Children) < ProcLimit
        /\ kid' = [kid EXCEPT ![cur] = "recv"] /\ pc' = "close"
        /\ UNCHANGED <<cvars, cur>>

(* fork fails, lines 71-75: the parent returns and its exit drops the      *)
(* connection.                                                             *)
ForkFails == /\ pc = "fork" /\ pc' = "exit" /\ cur' = NoConn
             /\ Exit({cur}, {c \in Clients : Running(c)}) /\ UNCHANGED kid

(* Closing one copy of c's descriptor releases the connection when the     *)
(* other process has closed its own.                                       *)
CloseCopy(c, other) == /\ Released(IF other THEN {} ELSE {c})
                       /\ UNCHANGED <<cpc, backlog, listening, inbox, sent, reset>>

(* Mutant of ParentClose: the parent forgets to close its copy. *)
ParentKeeps == /\ pc = "close" /\ pc' = "accept" /\ cur' = NoConn
               /\ UNCHANGED <<cvars, kid>>

(* Mutant of ParentClose: the parent waits for the child. *)
ParentWaits == /\ pc = "close" /\ kid[cur] = "exit"
               /\ pc' = "accept" /\ cur' = NoConn
               /\ CloseCopy(cur, FALSE) /\ UNCHANGED kid

(* The parent's close, line 69. *)
ParentClose == /\ pc = "close" /\ pc' = "accept" /\ cur' = NoConn
               /\ CloseCopy(cur, kid[cur] \in {"recv", "send", "close"})
               /\ UNCHANGED kid

(* Mutant of KidReceive: strncmp's outcome is not negated. *)
KidReceiveInverted(c) ==
  /\ kid[c] = "recv" /\ Read(c)
  /\ kid' = [kid EXCEPT ![c] = IF inbox[c] = "OTHER" THEN "send" ELSE "close"]
  /\ UNCHANGED <<cpc, backlog, listening, sent, closed, reset, pc, cur>>

(* deal_recv in the child: recv and its test, lines 92-93. *)
KidReceive(c) ==
  /\ kid[c] = "recv" /\ Read(c)
  /\ kid' = [kid EXCEPT ![c] = IF inbox[c] = "TIME" THEN "send" ELSE "close"]
  /\ UNCHANGED <<cpc, backlog, listening, sent, closed, reset, pc, cur>>

(* send, lines 95-98. *)
KidSend(c) == /\ kid[c] = "send" /\ Sent(c)
              /\ kid' = [kid EXCEPT ![c] = "close"]
              /\ UNCHANGED <<cpc, backlog, listening, inbox, closed, pc, cur>>

(* close, line 101. *)
KidClose(c) == /\ kid[c] = "close" /\ CloseCopy(c, cur = c)
               /\ kid' = [kid EXCEPT ![c] = "leave"]
               /\ UNCHANGED <<pc, cur>>

(* deal_connect returns in the child (line 79), main closes fd_server and  *)
(* exits (lines 46-48).                                                    *)
KidLeave(c) ==
  /\ kid[c] = "leave"
  /\ kid' = [kid EXCEPT ![c] = "exit"]
  /\ Exit({}, {d \in Clients \ {c} : Running(d)}
              \cup (IF pc = "exit" THEN {} ELSE {"parent"}))
  /\ UNCHANGED <<pc, cur>>

Child(c)  == KidReceive(c) \/ KidSend(c) \/ KidClose(c) \/ KidLeave(c)
Parent    == Accept \/ Fork \/ ForkFails \/ ParentClose
Client(c) == ClientStep(c) /\ UNCHANGED <<pc, cur, kid>>

Done == /\ pc = "exit" /\ ~listening
        /\ \A c \in Clients : Gone(c) \/ cpc[c] = "refused"
        /\ UNCHANGED vars

Next == Start \/ StartFails \/ AcceptFails \/ Parent \/ Done
        \/ \E c \in Clients : Child(c) \/ Client(c)

(* The parent and each child are scheduled, and fork returns; nothing      *)
(* forces a system call to fail.                                           *)
Fairness == /\ WF_vars(Start) /\ WF_vars(Parent)
            /\ \A c \in Clients : WF_vars(Child(c))
            /\ ClientFairness

Spec == Init /\ [][Next]_vars /\ Fairness
-----------------------------------------------------------------------------
TypeOK == /\ ClientsTypeOK
          /\ pc \in {"start", "accept", "fork", "close", "exit"}
          /\ cur \in Clients \cup {NoConn}
          /\ kid \in [Clients -> {"none", "recv", "send", "close", "leave", "exit"}]

(* A connection is released exactly when nobody refers to it any more: not *)
(* while it is queued, held by the parent or held by its child (lines 69   *)
(* and 101 each close one of two copies, in either order), and always      *)
(* afterwards.                                                             *)
ReleasedByTheLast == \A c \in Clients :
  cpc[c] \notin {"start", "refused"} =>
    (closed[c] <=> /\ c \notin Range(backlog)
                   /\ cur # c
                   /\ kid[c] \notin {"recv", "send", "close"})

(* The listening socket is open while any process of the server is left,   *)
(* the children included, which inherited it and close it only when they   *)
(* are done (line 46); so clients still connect to a server whose parent   *)
(* has gone.                                                               *)
ListenerOutlivesParent ==
  pc # "start" =>
    (listening <=> pc # "exit" \/ \E c \in Clients : Running(c))

(* The children are never waited for: whatever their clients do, a server  *)
(* answers fewer connections in its life than the process table has        *)
(* entries (line 66 and the missing wait).                                 *)
NoReaping == Cardinality({c \in Clients : sent[c] > 0}) < ProcLimit

(* A child answers on a connection its peer has not reset: SIGPIPE cannot  *)
(* end it before its close (line 98).                                      *)
NoBrokenPipe == \A c \in Clients : kid[c] = "send" => c \notin reset

(* What is so at every moment, whichever of parent and children has run:   *)
(* the sockets are released with their last copy, each request has one     *)
(* answer, and no child dies of SIGPIPE.                                   *)
ForkHolds == /\ TypeOK /\ ReleasedByTheLast /\ ListenerOutlivesParent
             /\ OneAnswer /\ NoBrokenPipe

(* A silent client holds up nobody but itself while the parent runs: a     *)
(* prompt client that asks is let go, unless the parent has stopped and    *)
(* the child of a silent client keeps the listening socket, and with it    *)
(* the queue nobody will ever accept from, open for ever.                  *)
NobodyInTheWay ==
  \A c \in Prompt :
    Asking(c) ~> (~Asking(c) \/ [](/\ pc = "exit" /\ c \in Range(backlog)
                                   /\ \E d \in Clients \ Prompt : kid[d] = "recv"))

-----------------------------------------------------------------------------
T == INSTANCE TimeService WITH up <- pc \notin {"start", "exit"},
                               phase <- [c \in Clients |-> Phase(c)]

(* Every behaviour of the forking server is one of the time service. *)
ImplementsTimeService == T!TimeSpec
=============================================================================
