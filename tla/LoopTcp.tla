------------------------------ MODULE LoopTcp ------------------------------
(***************************************************************************)
(* loop_tcp/server.c: one process serves one connection at a time.         *)
(***************************************************************************)
EXTENDS TcpClients

CONSTANT NoConn         \* fd_client holds no connection
ASSUME NoConnAssumption == NoConn \notin Clients

VARIABLES pc,           \* where main is
          cur           \* the connection behind fd_client

vars == <<cvars, pc, cur>>

Init == ClientsInit /\ pc = "start" /\ cur = NoConn

(* socket, bind and listen, lines 22-46. *)
Start == /\ pc = "start" /\ pc' = "accept" /\ Listen
         /\ UNCHANGED <<cpc, backlog, inbox, sent, closed, reset, cur>>

(* One of them fails and main returns -1 (lines 23, 35, 42). *)
StartFails == pc = "start" /\ pc' = "exit" /\ UNCHANGED <<cvars, cur>>

(* accept, line 50. *)
Accept == \E c \in Clients :
  /\ pc = "accept" /\ Accepted(c)
  /\ cur' = c /\ pc' = "recv"
  /\ UNCHANGED <<cpc, listening, inbox, sent, closed, reset>>

(* accept fails, lines 51-55: main returns, the process ends. *)
AcceptFails == /\ pc = "accept" /\ pc' = "exit" /\ StopListening({})
               /\ UNCHANGED <<cpc, inbox, sent, reset, cur>>

(* Mutant of Receive: strncmp's outcome is not negated. *)
ReceiveInverted ==
  /\ pc = "recv" /\ Read(cur)
  /\ pc' = IF inbox[cur] = "OTHER" THEN "send" ELSE "close"
  /\ UNCHANGED <<cpc, backlog, listening, sent, closed, reset, cur>>

(* recv and the test of its outcome, lines 57-59. *)
Receive ==
  /\ pc = "recv" /\ Read(cur)
  /\ pc' = IF inbox[cur] = "TIME" THEN "send" ELSE "close"
  /\ UNCHANGED <<cpc, backlog, listening, sent, closed, reset, cur>>

(* Mutant of SendTime: the answer is sent a second time. *)
SendTimeTwice ==
  /\ pc = "send" /\ Sent(cur)
  /\ pc' = IF sent[cur] = 0 THEN "send" ELSE "close"
  /\ UNCHANGED <<cpc, backlog, listening, inbox, closed, cur>>

(* time, ctime and send, lines 61-64. *)
SendTime == /\ pc = "send" /\ Sent(cur) /\ pc' = "close"
            /\ UNCHANGED <<cpc, backlog, listening, inbox, closed, cur>>

(* Mutant of Close: the connection is forgotten and not closed. *)
CloseLeaks == /\ pc = "close" /\ cur' = NoConn /\ pc' = "accept"
              /\ UNCHANGED <<cpc, netvars>>

(* close, line 66, and back to the top of the loop. *)
Close == /\ pc = "close" /\ Released({cur}) /\ cur' = NoConn /\ pc' = "accept"
         /\ UNCHANGED <<cpc, backlog, listening, inbox, sent, reset>>

Serve == Accept \/ Receive \/ SendTime \/ Close

Client(c) == ClientStep(c) /\ UNCHANGED <<pc, cur>>

Done == pc = "exit" /\ (\A c \in Clients : Gone(c) \/ cpc[c] = "refused")
        /\ UNCHANGED vars

Next == Start \/ StartFails \/ AcceptFails \/ Serve \/ Done
        \/ \E c \in Clients : Client(c)

(* The process is scheduled; nothing forces a system call to fail.  *)
Fairness == WF_vars(Start) /\ WF_vars(Serve) /\ ClientFairness

Spec == Init /\ [][Next]_vars /\ Fairness
-----------------------------------------------------------------------------
TypeOK == /\ ClientsTypeOK
          /\ pc \in {"start", "accept", "recv", "send", "close", "exit"}
          /\ cur \in Clients \cup {NoConn}

(* Every connection has exactly one owner: a connection that is            *)
(* established is queued, or is the one main serves, or has been released; *)
(* never two of them, so that no descriptor leaks and none is closed twice *)
(* (accept line 50, close line 66, exit lines 51-55).                      *)
OneOwner == \A c \in Clients :
  LET queued == {i \in DOMAIN backlog : backlog[i] = c} IN
  /\ cpc[c] \in {"start", "refused"} =>
       queued = {} /\ cur # c /\ ~closed[c]
  /\ cpc[c] \notin {"start", "refused"} =>
       \/ ~closed[c] /\ cur # c /\ \E i \in DOMAIN backlog : queued = {i}
       \/ ~closed[c] /\ cur = c /\ queued = {}
       \/  closed[c] /\ cur # c /\ queued = {}

(* send ignores its result (line 64) and nothing catches SIGPIPE: the      *)
(* server survives because the connection it answers on is never one whose *)
(* peer has already reset it.                                              *)
NoBrokenPipe == pc = "send" => cur \notin reset

(* What is so at every moment of the loop: types, one owner for each       *)
(* connection, one answer for each request, and no SIGPIPE.                *)
LoopHolds == TypeOK /\ OneOwner /\ OneAnswer /\ NoBrokenPipe

(* A prompt client that asks is let go in the end, unless main stays for   *)
(* ever in the recv of line 58 on a connection whose client is silent.     *)
HeadOfLine ==
  \A c \in Prompt :
    Asking(c) ~> (~Asking(c) \/ [](pc = "recv" /\ cur \notin Prompt))

-----------------------------------------------------------------------------
(* The loop implements the time service. *)
T == INSTANCE TimeService WITH up <- pc \notin {"start", "exit"},
                               phase <- [c \in Clients |-> Phase(c)]

(* Every behaviour of the loop is one of the abstract time service: a TIME *)
(* request is dropped unanswered only after the server has stopped.        *)
ImplementsTimeService == T!TimeSpec
=============================================================================
