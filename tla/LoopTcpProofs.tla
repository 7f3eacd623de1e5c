--------------------------- MODULE LoopTcpProofs ---------------------------
(***************************************************************************)
(* Proofs about loop_tcp/server.c, for every number of clients and every   *)
(* length of the accept queue.                                             *)
(***************************************************************************)
EXTENDS LoopTcp, TcpClientsProofs

Serving == pc \in {"recv", "send", "close"}

(* main has a connection exactly while it serves one, that connection is   *)
(* open and no longer queued, and every open connection is queued or       *)
(* main's.                                                                 *)
CurIsServed == /\ Serving => cur \in Clients
               /\ ~Serving => cur = NoConn
HeldOpen    == Serving => ~Unmade(cur) /\ ~closed[cur] /\ ~Queued(cur)
OpenIsOwned == \A c \in Clients : ~Unmade(c) /\ ~closed[c] => Queued(c) \/ cur = c

OwnerInv == TypeOK /\ QueueInv /\ CurIsServed /\ HeldOpen /\ OpenIsOwned

LEMMA OwnerStep == OwnerInv /\ [Next]_vars => OwnerInv'
<1> SUFFICES ASSUME OwnerInv, [Next]_vars PROVE OwnerInv'
  OBVIOUS
<1>0. ClientsTypeOK /\ QueueInv /\ NoConn \notin Clients
  BY NoConnAssumption DEF OwnerInv, QueueInv
<1> USE DEF OwnerInv, TypeOK, Serving
<1>1. CASE UNCHANGED vars \/ Done
  <2>1. UNCHANGED <<cpc, backlog, listening, inbox, sent, closed, reset, pc, cur>>
    BY <1>1 DEF Done, vars, cvars, netvars
  <2>2. ClientsTypeOK' /\ \A c \in Clients : Unmade(c)' = Unmade(c)
    BY <2>1, <1>0 DEF ClientsTypeOK, Unmade
  <2>3. QueueInv'
    BY <1>0, <2>1, <2>2, QueueKept
  <2> QED BY <2>1, <2>2, <2>3 DEF CurIsServed, HeldOpen, OpenIsOwned, Unmade, Queued
<1>2. CASE Start \/ StartFails
  <2>1. UNCHANGED <<cpc, backlog, inbox, sent, closed, reset, cur>>
        /\ listening' \in {listening, TRUE} /\ pc = "start" /\ pc' \in {"accept", "exit"}
    BY <1>2 DEF Start, StartFails, Listen, cvars, netvars
  <2>2. ClientsTypeOK' /\ \A c \in Clients : Unmade(c)' = Unmade(c)
    BY <2>1, <1>0 DEF ClientsTypeOK, Unmade
  <2>3. QueueInv'
    BY <1>0, <2>1, <2>2, QueueKept
  <2> QED BY <2>1, <2>2, <2>3 DEF CurIsServed, HeldOpen, OpenIsOwned, Unmade, Queued
<1>3. CASE AcceptFails
  <2>1. /\ StopListening({}) /\ UNCHANGED <<cpc, inbox, sent, reset, cur>>
        /\ pc = "accept" /\ pc' = "exit"
    BY <1>3 DEF AcceptFails
  <2>2. /\ QueueInv'
        /\ \A c \in Clients : closed'[c] <=> closed[c] \/ Queued(c)
    BY <1>0, <2>1, QueueStopped
  <2> QED BY <2>1, <2>2, <1>0 DEF CurIsServed, HeldOpen, OpenIsOwned, Unmade, QueueInv
<1>4. CASE Accept
  <2>1. PICK c \in Clients : /\ pc = "accept" /\ Accepted(c) /\ cur' = c /\ pc' = "recv"
                             /\ UNCHANGED <<cpc, listening, inbox, sent, closed, reset>>
    BY <1>4 DEF Accept
  <2>2. /\ QueueInv' /\ Queued(c) /\ ~Unmade(c) /\ ~closed[c]
        /\ \A d : Queued(d)' <=> Queued(d) /\ d # c
    BY <1>0, <2>1, QueueAccepted
  <2> QED BY <2>1, <2>2, <1>0 DEF CurIsServed, HeldOpen, OpenIsOwned, Unmade, QueueInv
<1>5. CASE Receive \/ SendTime
  <2>1. /\ UNCHANGED <<cpc, backlog, closed, cur>> /\ cur \in Clients
        /\ pc \in {"recv", "send"} /\ pc' \in {"send", "close"}
    BY <1>5 DEF Receive, SendTime, CurIsServed
  <2>2. ClientsTypeOK'
    <3>1. CASE Receive
      BY <1>0, <2>1, <3>1 DEF Receive, Read, ClientsTypeOK
    <3>2. CASE SendTime
      BY <1>0, <2>1, <3>2 DEF SendTime, Sent, ClientsTypeOK
    <3> QED BY <1>5, <3>1, <3>2
  <2>3. QueueInv'
    BY <1>0, <2>1, <2>2, QueueKept DEF Unmade
  <2> QED BY <2>1, <2>2, <2>3 DEF CurIsServed, HeldOpen, OpenIsOwned, Unmade, Queued
<1>6. CASE Close
  <2>1. /\ Released({cur}) /\ pc = "close" /\ pc' = "accept" /\ cur' = NoConn
        /\ cur \in Clients /\ ~Unmade(cur) /\ ~Queued(cur)
        /\ UNCHANGED <<cpc, backlog, listening, inbox, sent, reset>>
    BY <1>6 DEF Close, CurIsServed, HeldOpen
  <2>2. ClientsTypeOK'
    BY <1>0, <2>1 DEF ClientsTypeOK, Released
  <2>3. /\ QueueInv'
        /\ \A c \in Clients : closed'[c] <=> closed[c] \/ c \in {cur}
    BY <1>0, <2>1, <2>2, QueueReleased
  <2> QED BY <2>1, <2>2, <2>3, <1>0 DEF CurIsServed, HeldOpen, OpenIsOwned, Unmade, Queued
<1>7. ASSUME NEW c \in Clients, Client(c) PROVE OwnerInv'
  <2>1. /\ QueueInv' /\ ClientsTypeOK' /\ UNCHANGED <<pc, cur, closed>>
        /\ \A d \in Clients : Queued(d)' <=> Queued(d) \/ (d = c /\ Connect(c))
        /\ Connect(c) => Unmade(c)
        /\ \A d \in Clients : Unmade(d)' => Unmade(d)
        /\ \A d \in Clients : Unmade(d) => Unmade(d)' \/ (d = c /\ Connect(c))
    <3>1. ClientStep(c) /\ UNCHANGED <<pc, cur>>
      BY <1>7 DEF Client
    <3>2. QueueInv' /\ ClientsTypeOK' /\ UNCHANGED closed
      BY <1>0, <3>1, QueueClient, ClientEffect, ClientStepType
    <3>3. CASE Connect(c)
      BY <1>0, <3>1, <3>2, <3>3, ClientQueue DEF Connect, Unmade, ClientsTypeOK
    <3>4. CASE ~Connect(c)
      BY <1>0, <3>1, <3>2, <3>4, ClientQueue DEF Queued
    <3> QED BY <3>1, <3>2, <3>3, <3>4
  <2> QED BY <2>1 DEF CurIsServed, HeldOpen, OpenIsOwned
<1> QED BY <1>1, <1>2, <1>3, <1>4, <1>5, <1>6, <1>7 DEF Next, Serve

-----------------------------------------------------------------------------
(* Before send the request has been looked at and nothing was answered;    *)
(* whoever asked for the time and is closed has its answer, unless the     *)
(* process has ended; nobody connects before the server listens.           *)
SendIsDue     == pc = "send" => sent[cur] = 0 /\ AnswerDue(cur)
CloseIsEarned == pc = "close" /\ cur \in TimeClients /\ Asking(cur) => sent[cur] # 0
EndIsEarned   == \A c \in TimeClients : Asking(c) /\ closed[c] => sent[c] # 0 \/ pc = "exit"
StartIsQuiet  == pc = "start" => ~listening /\ \A c \in Clients : Unmade(c)

LoopInv == /\ OwnerInv /\ AskedInv /\ SendIsDue
           /\ CloseIsEarned /\ EndIsEarned /\ StartIsQuiet

LEMMA LoopStep == LoopInv /\ [Next]_vars => LoopInv'
<1> SUFFICES ASSUME LoopInv, [Next]_vars PROVE LoopInv'
  OBVIOUS
<1>0. /\ OwnerInv /\ OwnerInv' /\ ClientsTypeOK /\ QueueInv /\ AskedInv
      /\ TimeClients \subseteq Clients
  BY OwnerStep, ClientsAssumption DEF LoopInv, OwnerInv, QueueInv
<1> USE DEF LoopInv
<1>1. CASE UNCHANGED vars \/ Done \/ Start \/ StartFails
  <2>1. /\ UNCHANGED <<cpc, backlog, inbox, sent, closed, reset, cur>>
        /\ \/ pc' = pc /\ listening' = listening
           \/ pc = "start" /\ pc' \in {"accept", "exit"}
    BY <1>1 DEF Done, Start, StartFails, vars, cvars, netvars
  <2>2. AskedInv'
    BY <1>0, <2>1, AskedKept DEF Queued
  <2> QED BY <1>0, <2>1, <2>2 DEF SendIsDue, AnswerDue, Queued, Unsent, CloseIsEarned,
             EndIsEarned, StartIsQuiet, Asking, Unmade
<1>2. CASE AcceptFails
  <2>1. /\ UNCHANGED <<cpc, inbox, sent, reset>> /\ pc' = "exit" /\ backlog' = <<>>
    BY <1>2 DEF AcceptFails, StopListening
  <2>2. AskedInv'
    BY <1>0, <2>1, AskedKept DEF Queued
  <2> QED BY <1>0, <2>1, <2>2 DEF SendIsDue, CloseIsEarned, EndIsEarned, StartIsQuiet
<1>3. CASE Accept
  <2>1. PICK c \in Clients : /\ Accepted(c) /\ cur' = c /\ pc' = "recv" /\ pc = "accept"
                             /\ UNCHANGED <<cpc, listening, inbox, sent, closed, reset>>
    BY <1>3 DEF Accept
  <2>2. \A d : Queued(d)' => Queued(d)
    BY <1>0, <2>1, QueueAccepted
  <2>3. AskedInv'
    BY <1>0, <2>1, <2>2, AskedKept
  <2> QED BY <1>0, <2>1, <2>3 DEF SendIsDue, CloseIsEarned, EndIsEarned, StartIsQuiet, Asking
<1>4. CASE Receive
  <2>1. /\ pc = "recv" /\ cur \in Clients /\ Read(cur) /\ ~Queued(cur)
        /\ pc' = IF inbox[cur] = "TIME" THEN "send" ELSE "close"
        /\ UNCHANGED <<cpc, backlog, sent, reset, closed, listening, cur>>
    BY <1>0, <1>4 DEF Receive, OwnerInv, CurIsServed, HeldOpen, Serving
  <2>2. /\ AskedInv'
        /\ inbox[cur] = "TIME" => sent[cur] = 0 /\ AnswerDue(cur)'
        /\ inbox[cur] # "TIME" /\ cur \in TimeClients => ~Asking(cur)
    BY <1>0, <2>1, AskedRead
  <2>3. SendIsDue'
    BY <2>1, <2>2 DEF SendIsDue, AnswerDue
  <2> QED BY <1>0, <2>1, <2>2, <2>3 DEF CloseIsEarned, EndIsEarned, StartIsQuiet, Asking
<1>5. CASE SendTime
  <2>1. /\ pc = "send" /\ pc' = "close" /\ cur \in Clients /\ Sent(cur)
        /\ sent[cur] = 0 /\ AnswerDue(cur)
        /\ UNCHANGED <<cpc, backlog, inbox, closed, listening, cur>>
    BY <1>0, <1>5 DEF SendTime, OwnerInv, CurIsServed, Serving, SendIsDue
  <2>2. /\ AskedInv'
        /\ sent'[cur] = 1 /\ \A d \in Clients : d # cur => sent'[d] = sent[d]
    BY <1>0, <2>1, AskedSent
  <2> QED BY <1>0, <2>1, <2>2
          DEF SendIsDue, CloseIsEarned, EndIsEarned, StartIsQuiet, Asking
<1>6. CASE Close
  <2>1. /\ pc = "close" /\ pc' = "accept" /\ cur \in Clients
        /\ \A c \in Clients : closed'[c] => closed[c] \/ c = cur
        /\ UNCHANGED <<cpc, backlog, inbox, sent, reset, listening>>
    BY <1>0, <1>6 DEF Close, Released, OwnerInv, CurIsServed, Serving
  <2>2. AskedInv'
    BY <1>0, <2>1, AskedKept DEF Queued
  <2> QED BY <1>0, <2>1, <2>2
          DEF SendIsDue, CloseIsEarned, EndIsEarned, StartIsQuiet, Asking
<1>7. ASSUME NEW c \in Clients, Client(c) PROVE LoopInv'
  <2>1. ClientStep(c) /\ UNCHANGED <<pc, cur>>
    BY <1>7 DEF Client
  <2>2. /\ UNCHANGED <<listening, sent, closed>>
        /\ \A d \in Clients : d # c => cpc'[d] = cpc[d]
        /\ Asking(c)' => Asking(c) \/ cpc[c] = "start"
    BY <1>0, <2>1, ClientEffect
  <2>3. AskedInv' /\ \A d \in Clients : AnswerDue(d) => AnswerDue(d)'
    BY <1>0, <2>1, AskedClient
  <2>4. /\ Serving => cur \in Clients /\ ~Unmade(cur)
        /\ \A d \in Clients : cpc[d] = "start" => ~closed[d]
    BY <1>0 DEF OwnerInv, CurIsServed, HeldOpen, QueueInv, UnmadeIsOpen, Unmade
  <2>5. SendIsDue' /\ CloseIsEarned'
    BY <2>1, <2>2, <2>3, <2>4 DEF SendIsDue, CloseIsEarned, Serving, Asking, Unmade
  <2>6. EndIsEarned'
    BY <1>0, <2>1, <2>2, <2>4 DEF EndIsEarned, Asking
  <2>7. StartIsQuiet'
    <3>1. ASSUME pc = "start" PROVE \A d \in Clients : Unmade(d)'
      <4>1. ~Connect(c)
        BY <3>1 DEF StartIsQuiet, Connect
      <4> QED BY <1>0, <2>1, <3>1, <4>1, ClientQueue DEF StartIsQuiet
    <3> QED BY <2>1, <2>2, <3>1 DEF StartIsQuiet
  <2> QED BY <1>0, <2>3, <2>5, <2>6, <2>7
<1> QED BY <1>1, <1>2, <1>3, <1>4, <1>5, <1>6, <1>7 DEF Next, Serve

LEMMA LoopInit == Init => LoopInv
<1> SUFFICES ASSUME Init PROVE LoopInv
  OBVIOUS
<1>1. QueueInv /\ AskedInv /\ ClientsTypeOK
  BY QueueInit, AskedInit, InitType DEF Init
<1>2. OwnerInv
  BY <1>1 DEF Init, ClientsInit, OwnerInv, TypeOK, CurIsServed, HeldOpen, OpenIsOwned,
              Serving, Unmade
<1> QED BY <1>1, <1>2, ClientsAssumption DEF Init, ClientsInit, LoopInv, SendIsDue,
           CloseIsEarned, EndIsEarned, StartIsQuiet, Asking, Unmade

LEMMA LoopAlways == Spec => []LoopInv
  BY LoopInit, LoopStep, PTL DEF Spec

(* Whatever fails and whoever is killed, at every moment of the loop each  *)
(* connection has one owner, each request has at most one answer, which it *)
(* asked for, and main never sends to a peer that has reset (lines 50-66). *)
THEOREM LoopIsSafe == Spec => []LoopHolds
<1>1. LoopInv => LoopHolds
  <2> SUFFICES ASSUME LoopInv PROVE LoopHolds
    OBVIOUS
  <2>1. TypeOK /\ OneAnswer
    BY AskedOnce DEF LoopInv, OwnerInv
  <2>2. NoBrokenPipe
    BY DEF LoopInv, SendIsDue, AskedInv, ResetIsLate, NoBrokenPipe
  <2>3. OneOwner
    <3> SUFFICES ASSUME NEW c \in Clients
                 PROVE  LET queued == {i \in DOMAIN backlog : backlog[i] = c} IN
                        /\ Unmade(c) => queued = {} /\ cur # c /\ ~closed[c]
                        /\ ~Unmade(c) =>
                             \/ ~closed[c] /\ cur # c /\ \E i \in DOMAIN backlog : queued = {i}
                             \/ ~closed[c] /\ cur = c /\ queued = {}
                             \/  closed[c] /\ cur # c /\ queued = {}
      BY DEF OneOwner, Unmade
    <3> DEFINE queued == {i \in DOMAIN backlog : backlog[i] = c}
    <3>1. \A i, j \in queued : i = j
      BY DEF LoopInv, OwnerInv, QueueInv, QueuedOnce
    <3>2. queued # {} => ~Unmade(c) /\ ~closed[c] /\ Queued(c)
      BY DEF LoopInv, OwnerInv, QueueInv, QueuedOpen, Queued
    <3>3. cur = c => ~Unmade(c) /\ ~closed[c] /\ ~Queued(c)
      BY NoConnAssumption DEF LoopInv, OwnerInv, CurIsServed, HeldOpen
    <3>4. Unmade(c) => ~closed[c]
      BY DEF LoopInv, OwnerInv, QueueInv, UnmadeIsOpen
    <3>5. ~Unmade(c) /\ ~closed[c] => queued # {} \/ cur = c
      BY DEF LoopInv, OwnerInv, OpenIsOwned, Queued
    <3>6. queued # {} => \E i \in DOMAIN backlog : queued = {i}
      BY <3>1
    <3> QED BY <3>2, <3>3, <3>4, <3>5, <3>6
  <2> QED BY <2>1, <2>2, <2>3 DEF LoopHolds
<1> QED BY <1>1, LoopAlways, PTL

-----------------------------------------------------------------------------
(* A step of the loop is a step of the time service or none: main starts   *)
(* or stops it, a client moves its own request.                            *)
LEMMA ServiceStep == LoopInv /\ [Next]_vars => [T!TimeNext]_(T!tvars)
<1> DEFINE Up == pc \notin {"start", "exit"}
<1> SUFFICES ASSUME LoopInv, [Next]_vars
             PROVE  T!TimeNext \/ (Up' = Up /\ Requests' = Requests)
  BY DEF T!tvars, Requests
<1>0. ClientsTypeOK /\ AskedInv
  BY DEF LoopInv, OwnerInv, QueueInv
<1>1. ASSUME UNCHANGED cpc PROVE Requests' = Requests
  BY <1>1 DEF Requests, Phase, Asking
<1>2. CASE UNCHANGED vars \/ Done \/ StartFails \/ Serve
  <2>1. UNCHANGED cpc /\ Up' = Up
    BY <1>2 DEF Done, StartFails, Serve, Accept, Receive, SendTime, Close, vars, cvars
  <2> QED BY <1>1, <2>1
<1>3. CASE Start
  <2>1. UNCHANGED cpc /\ ~Up /\ Up' /\ \A c \in Clients : Unmade(c)
    BY <1>3 DEF Start, LoopInv, StartIsQuiet
  <2>2. \A c \in Clients : Requests[c] \in {"out", "turned away"}
    BY <2>1 DEF Requests, Phase, Asking, Unmade
  <2>3. T!StartUp
    BY <1>1, <2>1, <2>2 DEF T!StartUp, Requests
  <2> QED BY <2>3 DEF T!TimeNext
<1>4. CASE AcceptFails
  <2>1. UNCHANGED cpc /\ Up /\ ~Up'
    BY <1>4 DEF AcceptFails
  <2>2. T!ShutDown
    BY <1>1, <2>1 DEF T!ShutDown, Requests
  <2> QED BY <2>2 DEF T!TimeNext
<1>5. ASSUME NEW c \in Clients, Client(c)
      PROVE  T!TimeNext \/ (Up' = Up /\ Requests' = Requests)
  <2>1. ClientStep(c) /\ Up' = Up
    BY <1>5 DEF Client
  <2>2. sent[c] # 0 => c \in TimeClients
    BY <1>0 DEF AskedInv, AnswerIsDue, AnswerDue
  <2>3. sent[c] = 0 /\ closed[c] /\ Asking(c) /\ Up => c \notin TimeClients
    BY DEF LoopInv, EndIsEarned
  <2>4. \/ Requests' = Requests
        \/ T!Ask(c) \/ T!TurnAway(c) \/ T!Answer(c) \/ T!Drop(c) \/ T!Leave(c)
    <3> USE DEF T!Ask, T!TurnAway, T!Answer, T!Drop, T!Leave, T!Move, Requests
    <3> QED BY <1>0, <2>1, <2>2, <2>3, ClientPhase
  <2> QED BY <2>1, <2>4 DEF T!TimeNext
<1> QED BY <1>2, <1>3, <1>4, <1>5 DEF Next

(* The loop implements the time service for every number of clients: who   *)
(* asks for the time, stays, and is let go while the server is up has been *)
(* answered (lines 50-66).                                                 *)
THEOREM LoopServesTime == Spec => ImplementsTimeService
<1>1. Init => T!TimeInit
  BY DEF Init, ClientsInit, T!TimeInit, Phase, Asking
<1> QED BY <1>1, ServiceStep, LoopAlways, PTL DEF Spec, ImplementsTimeService, T!TimeSpec
=============================================================================
