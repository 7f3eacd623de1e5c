--------------------------- MODULE ForkTcpProofs ---------------------------
(***************************************************************************)
(* Proofs about bf_tcp/server.c, for every number of clients, every length *)
(* of the accept queue and every size of the process table.                *)
(***************************************************************************)
EXTENDS ForkTcp, TcpClientsProofs, FiniteSetTheorems

Holding(c) == kid[c] \in {"recv", "send", "close"}

(* The parent has a connection from accept to its close, and forks for it  *)
(* in between; a queued connection is nobody's yet; a connection is closed *)
(* when it is neither queued nor in one of the two hands.                  *)
CurIsServed == /\ pc \in {"fork", "close"} => cur \in Clients
               /\ pc \notin {"fork", "close"} => cur = NoConn
               /\ pc = "fork" => kid[cur] = "none"
               /\ pc = "close" => kid[cur] # "none"
FreshIsIdle == \A c \in Clients : Unmade(c) \/ Queued(c) => kid[c] = "none" /\ cur # c
OpenIsOwned == \A c \in Clients : ~Unmade(c) =>
                 (closed[c] <=> ~Queued(c) /\ cur # c /\ ~Holding(c))

OwnerInv == TypeOK /\ QueueInv /\ CurIsServed /\ FreshIsIdle /\ OpenIsOwned

LEMMA OwnerStep == OwnerInv /\ [Next]_vars => OwnerInv'
<1> SUFFICES ASSUME OwnerInv, [Next]_vars PROVE OwnerInv'
  OBVIOUS
<1>0. ClientsTypeOK /\ QueueInv /\ NoConn \notin Clients
  BY ForkAssumption DEF OwnerInv, QueueInv
<1> USE DEF OwnerInv, TypeOK
<1>1. CASE UNCHANGED vars \/ Done \/ Start \/ StartFails
  <2>1. /\ UNCHANGED <<cpc, backlog, inbox, sent, closed, reset, cur, kid>>
        /\ listening' \in {listening, TRUE}
        /\ pc' = pc \/ (pc = "start" /\ pc' \in {"accept", "exit"})
    BY <1>1 DEF Done, Start, StartFails, Listen, vars, cvars, netvars
  <2>2. ClientsTypeOK'
    BY <2>1, <1>0 DEF ClientsTypeOK
  <2>3. QueueInv'
    BY <1>0, <2>1, <2>2, QueueKept DEF Unmade
  <2> QED BY <2>1, <2>2, <2>3 DEF CurIsServed, FreshIsIdle, OpenIsOwned, Unmade, Queued, Holding
<1>2. CASE AcceptFails
  <2>1. /\ UNCHANGED <<cpc, inbox, sent, reset, cur, kid>> /\ pc = "accept" /\ pc' = "exit"
        /\ \/ StopListening({})
           \/ Released({}) /\ UNCHANGED <<listening, backlog>>
    BY <1>2 DEF AcceptFails, Exit
  <2>2. CASE StopListening({})
    <3>1. /\ QueueInv' /\ \A c : ~Queued(c)'
          /\ \A c \in Clients : closed'[c] <=> closed[c] \/ Queued(c)
      BY <1>0, <2>1, <2>2, QueueStopped
    <3> QED BY <2>1, <3>1 DEF CurIsServed, FreshIsIdle, OpenIsOwned, Unmade, Holding, QueueInv
  <2>3. CASE Released({}) /\ UNCHANGED <<listening, backlog>>
    <3>1. ClientsTypeOK'
      BY <1>0, <2>1, <2>3 DEF ClientsTypeOK, Released
    <3>2. QueueInv' /\ \A c \in Clients : closed'[c] <=> closed[c]
      BY <1>0, <2>1, <2>3, <3>1, QueueReleased
    <3> QED BY <2>1, <2>3, <3>1, <3>2
            DEF CurIsServed, FreshIsIdle, OpenIsOwned, Unmade, Queued, Holding
  <2> QED BY <2>1, <2>2, <2>3
<1>3. CASE Accept
  <2>1. PICK c \in Clients : /\ pc = "accept" /\ Accepted(c) /\ cur' = c /\ pc' = "fork"
                             /\ UNCHANGED <<cpc, listening, inbox, sent, closed, reset, kid>>
    BY <1>3 DEF Accept
  <2>2. /\ QueueInv' /\ Queued(c) /\ ~Unmade(c) /\ ~closed[c]
        /\ \A d : Queued(d)' <=> Queued(d) /\ d # c
    BY <1>0, <2>1, QueueAccepted
  <2>3. kid[c] = "none" /\ cur = NoConn
    BY <2>1, <2>2 DEF FreshIsIdle, CurIsServed
  <2> QED BY <2>1, <2>2, <2>3, <1>0
          DEF CurIsServed, FreshIsIdle, OpenIsOwned, Unmade, Holding, QueueInv
<1>4. CASE Fork
  <2>1. /\ pc = "fork" /\ pc' = "close" /\ cur \in Clients /\ kid[cur] = "none"
        /\ kid' = [kid EXCEPT ![cur] = "recv"]
        /\ UNCHANGED <<cpc, backlog, listening, inbox, sent, closed, reset, cur>>
    BY <1>4 DEF Fork, CurIsServed, cvars, netvars
  <2>2. ClientsTypeOK'
    BY <2>1, <1>0 DEF ClientsTypeOK
  <2>3. QueueInv'
    BY <1>0, <2>1, <2>2, QueueKept DEF Unmade
  <2>4. /\ kid'[cur] = "recv" /\ \A c \in Clients : c # cur => kid'[c] = kid[c]
        /\ kid' \in [Clients -> {"none", "recv", "send", "close", "leave", "exit"}]
    BY <2>1
  <2> QED BY <2>1, <2>2, <2>3, <2>4
          DEF CurIsServed, FreshIsIdle, OpenIsOwned, Unmade, Queued, Holding
<1>5. CASE ForkFails
  <2>1. /\ UNCHANGED <<cpc, inbox, sent, reset, kid>> /\ pc = "fork" /\ pc' = "exit"
        /\ cur' = NoConn /\ cur \in Clients /\ kid[cur] = "none"
        /\ ~Queued(cur) /\ ~Unmade(cur)
        /\ \/ StopListening({cur})
           \/ Released({cur}) /\ UNCHANGED <<listening, backlog>>
    BY <1>5 DEF ForkFails, Exit, CurIsServed, FreshIsIdle
  <2>2. CASE StopListening({cur})
    <3>1. /\ QueueInv' /\ \A c : ~Queued(c)'
          /\ \A c \in Clients : closed'[c] <=> closed[c] \/ c = cur \/ Queued(c)
      BY <1>0, <2>1, <2>2, QueueStopped
    <3> QED BY <1>0, <2>1, <3>1
            DEF CurIsServed, FreshIsIdle, OpenIsOwned, Unmade, Holding, QueueInv
  <2>3. CASE Released({cur}) /\ UNCHANGED <<listening, backlog>>
    <3>1. ClientsTypeOK'
      BY <1>0, <2>1, <2>3 DEF ClientsTypeOK, Released
    <3>2. QueueInv' /\ \A c \in Clients : closed'[c] <=> closed[c] \/ c = cur
      BY <1>0, <2>1, <2>3, <3>1, QueueReleased
    <3> QED BY <1>0, <2>1, <2>3, <3>1, <3>2
            DEF CurIsServed, FreshIsIdle, OpenIsOwned, Unmade, Queued, Holding
  <2> QED BY <2>1, <2>2, <2>3
<1>6. CASE ParentClose
  <2>1. /\ UNCHANGED <<cpc, backlog, listening, inbox, sent, reset, kid>>
        /\ pc = "close" /\ pc' = "accept" /\ cur' = NoConn
        /\ cur \in Clients /\ kid[cur] # "none" /\ ~Unmade(cur) /\ ~Queued(cur)
        /\ Released(IF Holding(cur) THEN {} ELSE {cur})
    BY <1>6 DEF ParentClose, CloseCopy, CurIsServed, FreshIsIdle, Holding
  <2>2. ClientsTypeOK'
    BY <1>0, <2>1 DEF ClientsTypeOK, Released
  <2>3. /\ QueueInv'
        /\ \A c \in Clients :
             closed'[c] <=> closed[c] \/ c \in (IF Holding(cur) THEN {} ELSE {cur})
    BY <1>0, <2>1, <2>2, QueueReleased
  <2> QED BY <1>0, <2>1, <2>2, <2>3
          DEF CurIsServed, FreshIsIdle, OpenIsOwned, Unmade, Queued, Holding
<1>7. ASSUME NEW c \in Clients, KidReceive(c) \/ KidSend(c) PROVE OwnerInv'
  <2>1. /\ UNCHANGED <<cpc, backlog, closed, pc, cur>>
        /\ kid[c] \in {"recv", "send"} /\ kid'[c] \in {"send", "close"}
        /\ \A d \in Clients : d # c => kid'[d] = kid[d]
        /\ kid' \in [Clients -> {"none", "recv", "send", "close", "leave", "exit"}]
    BY <1>7 DEF KidReceive, KidSend
  <2>2. ClientsTypeOK'
    <3>1. CASE KidReceive(c)
      BY <1>0, <3>1 DEF KidReceive, Read, ClientsTypeOK
    <3>2. CASE KidSend(c)
      BY <1>0, <3>2 DEF KidSend, Sent, ClientsTypeOK
    <3> QED BY <1>7, <3>1, <3>2
  <2>3. QueueInv'
    BY <1>0, <2>1, <2>2, QueueKept DEF Unmade
  <2> QED BY <2>1, <2>2, <2>3
          DEF CurIsServed, FreshIsIdle, OpenIsOwned, Unmade, Queued, Holding
<1>8. ASSUME NEW c \in Clients, KidClose(c) PROVE OwnerInv'
  <2>1. /\ UNCHANGED <<cpc, backlog, listening, inbox, sent, reset, pc, cur>>
        /\ kid[c] = "close" /\ ~Unmade(c) /\ ~Queued(c)
        /\ kid' = [kid EXCEPT ![c] = "leave"]
        /\ Released(IF cur = c THEN {} ELSE {c})
    BY <1>8 DEF KidClose, CloseCopy, FreshIsIdle
  <2>2. ClientsTypeOK'
    BY <1>0, <2>1 DEF ClientsTypeOK, Released
  <2>3. /\ QueueInv'
        /\ \A d \in Clients :
             closed'[d] <=> closed[d] \/ d \in (IF cur = c THEN {} ELSE {c})
    BY <1>0, <2>1, <2>2, QueueReleased
  <2>4. /\ kid'[c] = "leave" /\ \A d \in Clients : d # c => kid'[d] = kid[d]
        /\ kid' \in [Clients -> {"none", "recv", "send", "close", "leave", "exit"}]
    BY <2>1
  <2> QED BY <1>0, <2>1, <2>2, <2>3, <2>4
          DEF CurIsServed, FreshIsIdle, OpenIsOwned, Unmade, Queued, Holding
<1>9. ASSUME NEW c \in Clients, KidLeave(c) PROVE OwnerInv'
  <2>1. /\ UNCHANGED <<cpc, inbox, sent, reset, pc, cur>> /\ kid[c] = "leave"
        /\ kid' = [kid EXCEPT ![c] = "exit"]
        /\ \/ StopListening({})
           \/ Released({}) /\ UNCHANGED <<listening, backlog>>
    BY <1>9 DEF KidLeave, Exit
  <2>2. /\ kid'[c] = "exit" /\ \A d \in Clients : d # c => kid'[d] = kid[d]
        /\ kid' \in [Clients -> {"none", "recv", "send", "close", "leave", "exit"}]
    BY <2>1
  <2>3. CASE StopListening({})
    <3>1. /\ QueueInv' /\ \A d : ~Queued(d)'
          /\ \A d \in Clients : closed'[d] <=> closed[d] \/ Queued(d)
      BY <1>0, <2>1, <2>3, QueueStopped
    <3> QED BY <2>1, <2>2, <3>1
            DEF CurIsServed, FreshIsIdle, OpenIsOwned, Unmade, Holding, QueueInv
  <2>4. CASE Released({}) /\ UNCHANGED <<listening, backlog>>
    <3>1. ClientsTypeOK'
      BY <1>0, <2>1, <2>4 DEF ClientsTypeOK, Released
    <3>2. QueueInv' /\ \A d \in Clients : closed'[d] <=> closed[d]
      BY <1>0, <2>1, <2>4, <3>1, QueueReleased
    <3> QED BY <2>1, <2>2, <2>4, <3>1, <3>2
            DEF CurIsServed, FreshIsIdle, OpenIsOwned, Unmade, Queued, Holding
  <2> QED BY <2>1, <2>3, <2>4
<1>10. ASSUME NEW c \in Clients, Client(c) PROVE OwnerInv'
  <2>1. /\ QueueInv' /\ ClientsTypeOK' /\ UNCHANGED <<pc, cur, kid, closed>>
        /\ \A d \in Clients : Queued(d)' <=> Queued(d) \/ (d = c /\ Connect(c))
        /\ Connect(c) => Unmade(c)
        /\ \A d \in Clients : Unmade(d)' => Unmade(d)
        /\ \A d \in Clients : Unmade(d) => Unmade(d)' \/ (d = c /\ Connect(c))
    <3>1. ClientStep(c) /\ UNCHANGED <<pc, cur, kid>>
      BY <1>10 DEF Client
    <3>2. QueueInv' /\ ClientsTypeOK' /\ UNCHANGED closed
      BY <1>0, <3>1, QueueClient, ClientEffect, ClientStepType
    <3>3. CASE Connect(c)
      BY <1>0, <3>1, <3>2, <3>3, ClientQueue DEF Connect, Unmade, ClientsTypeOK
    <3>4. CASE ~Connect(c)
      BY <1>0, <3>1, <3>2, <3>4, ClientQueue DEF Queued
    <3> QED BY <3>1, <3>2, <3>3, <3>4
  <2>2. \A d \in Clients : Unmade(d) => ~closed[d]
    BY <1>0 DEF QueueInv, UnmadeIsOpen
  <2> QED BY <2>1, <2>2 DEF CurIsServed, FreshIsIdle, OpenIsOwned, Holding
<1> QED BY <1>1, <1>2, <1>3, <1>4, <1>5, <1>6, <1>7, <1>8, <1>9, <1>10 DEF Next, Parent, Child

-----------------------------------------------------------------------------
(* The listening socket is open exactly while a process is left that has   *)
(* it; before listen nobody has connected and there is no child.           *)
StartIsQuiet == pc = "start" => ~listening /\ \A c \in Clients : Unmade(c)
ListenerInv  == OwnerInv /\ StartIsQuiet /\ ListenerOutlivesParent

LEMMA ListenerStep == ListenerInv /\ [Next]_vars => ListenerInv'
<1> SUFFICES ASSUME ListenerInv, [Next]_vars PROVE ListenerInv'
  OBVIOUS
<1>0. OwnerInv /\ OwnerInv' /\ ClientsTypeOK /\ TypeOK
  BY OwnerStep DEF ListenerInv, OwnerInv, QueueInv
<1> USE DEF ListenerInv, StartIsQuiet, ListenerOutlivesParent, TypeOK
<1>1. CASE UNCHANGED vars \/ Done
  BY <1>0, <1>1 DEF Done, vars, cvars, netvars, Unmade, Running
<1>2. CASE Start
  BY <1>0, <1>2 DEF Start, Listen
<1>3. CASE StartFails
  <2>1. \A c \in Clients : ~Running(c)'
    BY <1>0, <1>3 DEF StartFails, OwnerInv, FreshIsIdle, Running
  <2> QED BY <1>0, <1>3, <2>1 DEF StartFails, cvars, netvars
<1>4. CASE AcceptFails \/ ForkFails
  <2>1. /\ pc \in {"accept", "fork"} /\ pc' = "exit" /\ UNCHANGED kid
        /\ IF {c \in Clients : Running(c)} = {} THEN listening' = FALSE
                                                ELSE UNCHANGED listening
    BY <1>4 DEF AcceptFails, ForkFails, Exit, StopListening
  <2> QED BY <1>0, <2>1 DEF Running
<1>5. CASE Accept \/ Fork \/ ParentClose
  <2>1. pc \notin {"start", "exit"} /\ pc' \notin {"start", "exit"} /\ UNCHANGED listening
    BY <1>5 DEF Accept, Fork, ParentClose, CloseCopy, cvars, netvars
  <2> QED BY <1>0, <2>1
<1>6. ASSUME NEW c \in Clients, KidReceive(c) \/ KidSend(c) \/ KidClose(c)
      PROVE  ListenerInv'
  <2>1. /\ UNCHANGED <<listening, cpc, pc>> /\ Running(c) /\ Running(c)'
        /\ \A d \in Clients : d # c => kid'[d] = kid[d]
    BY <1>0, <1>6 DEF KidReceive, KidSend, KidClose, CloseCopy, Running
  <2> QED BY <1>0, <2>1 DEF Running, Unmade
<1>7. ASSUME NEW c \in Clients, KidLeave(c) PROVE ListenerInv'
  <2> DEFINE Others == {d \in Clients \ {c} : Running(d)}
                         \cup (IF pc = "exit" THEN {} ELSE {"parent"})
  <2>1. /\ UNCHANGED <<cpc, pc>> /\ Running(c) /\ ~Running(c)'
        /\ \A d \in Clients : d # c => Running(d)' = Running(d)
        /\ IF Others = {} THEN listening' = FALSE ELSE UNCHANGED listening
    BY <1>0, <1>7 DEF KidLeave, Exit, StopListening, Running
  <2>2. pc # "start"
    BY <1>0, <2>1 DEF OwnerInv, FreshIsIdle, Running
  <2> QED BY <1>0, <2>1, <2>2 DEF Unmade
<1>8. ASSUME NEW c \in Clients, Client(c) PROVE ListenerInv'
  <2>1. ClientStep(c) /\ UNCHANGED <<pc, cur, kid>> /\ UNCHANGED listening
    BY <1>0, <1>8, ClientEffect DEF Client
  <2>2. ASSUME pc = "start" PROVE \A d \in Clients : Unmade(d)'
    <3>1. ~Connect(c)
      BY <2>2 DEF Connect
    <3> QED BY <1>0, <2>1, <2>2, <3>1, ClientQueue
  <2> QED BY <1>0, <2>1, <2>2 DEF Running
<1> QED BY <1>1, <1>2, <1>3, <1>4, <1>5, <1>6, <1>7, <1>8 DEF Next, Parent, Child

-----------------------------------------------------------------------------
(* A child about to send has a request for the time that nobody has        *)
(* answered; whoever asked for the time and is let go has its answer,      *)
(* unless the parent has ended.                                            *)
SendIsDue     == \A c \in Clients : kid[c] = "send" => sent[c] = 0 /\ AnswerDue(c)
CloseIsEarned == \A c \in TimeClients :
  kid[c] \in {"close", "leave", "exit"} /\ Asking(c) => sent[c] # 0
EndIsEarned   == \A c \in TimeClients :
  Asking(c) /\ closed[c] => sent[c] # 0 \/ pc = "exit"

ForkInv == ListenerInv /\ AskedInv /\ SendIsDue /\ CloseIsEarned /\ EndIsEarned

LEMMA ForkStep == ForkInv /\ [Next]_vars => ForkInv'
<1> SUFFICES ASSUME ForkInv, [Next]_vars PROVE ForkInv'
  OBVIOUS
<1>0. /\ ListenerInv /\ ListenerInv' /\ OwnerInv /\ ClientsTypeOK /\ QueueInv
      /\ AskedInv /\ TimeClients \subseteq Clients
      /\ kid \in [Clients -> {"none", "recv", "send", "close", "leave", "exit"}]
  BY ListenerStep, ClientsAssumption DEF ForkInv, ListenerInv, OwnerInv, QueueInv, TypeOK
<1> USE DEF ForkInv
<1>1. CASE UNCHANGED vars \/ Done \/ Start \/ StartFails
  <2>1. /\ UNCHANGED <<cpc, backlog, inbox, sent, closed, reset, kid>>
        /\ pc = "exit" => pc' = "exit"
    BY <1>1 DEF Done, Start, StartFails, vars, cvars, netvars
  <2>2. AskedInv'
    BY <1>0, <2>1, AskedKept DEF Queued
  <2> QED BY <1>0, <2>1, <2>2 DEF SendIsDue, AnswerDue, Queued, Unsent, CloseIsEarned,
             EndIsEarned, Asking
<1>2. CASE AcceptFails \/ ForkFails
  <2>1. /\ UNCHANGED <<cpc, inbox, sent, reset, kid>> /\ pc' = "exit"
        /\ backlog' = <<>> \/ UNCHANGED backlog
    BY <1>2 DEF AcceptFails, ForkFails, Exit, StopListening
  <2>2. \A c \in Clients : Queued(c)' => Queued(c)
    BY <2>1 DEF Queued
  <2>3. AskedInv'
    BY <1>0, <2>1, <2>2, AskedKept
  <2> QED BY <1>0, <2>1, <2>2, <2>3 DEF SendIsDue, AnswerDue, Unsent, CloseIsEarned,
             EndIsEarned, Asking
<1>3. CASE Accept
  <2>1. PICK c \in Clients : /\ Accepted(c) /\ pc = "accept" /\ UNCHANGED kid
                             /\ UNCHANGED <<cpc, listening, inbox, sent, closed, reset>>
    BY <1>3 DEF Accept
  <2>2. \A d : Queued(d)' => Queued(d)
    BY <1>0, <2>1, QueueAccepted
  <2>3. AskedInv'
    BY <1>0, <2>1, <2>2, AskedKept
  <2> QED BY <1>0, <2>1, <2>2, <2>3 DEF SendIsDue, AnswerDue, Unsent, CloseIsEarned,
             EndIsEarned, Asking
<1>4. CASE Fork
  <2>1. /\ UNCHANGED <<cpc, backlog, listening, inbox, sent, closed, reset>>
        /\ pc = "fork" /\ cur \in Clients
        /\ kid'[cur] = "recv" /\ \A c \in Clients : c # cur => kid'[c] = kid[c]
    BY <1>0, <1>4 DEF Fork, OwnerInv, CurIsServed, cvars, netvars
  <2>2. AskedInv'
    BY <1>0, <2>1, AskedKept DEF Queued
  <2> QED BY <1>0, <2>1, <2>2 DEF SendIsDue, AnswerDue, Queued, Unsent, CloseIsEarned,
             EndIsEarned, Asking
<1>5. CASE ParentClose
  <2>1. /\ UNCHANGED <<cpc, backlog, listening, inbox, sent, reset, kid>>
        /\ cur \in Clients /\ kid[cur] # "none" /\ pc = "close"
        /\ \A c \in Clients : closed'[c] =>
             closed[c] \/ (c = cur /\ kid[c] \in {"leave", "exit"})
    BY <1>0, <1>5 DEF ParentClose, CloseCopy, Released, OwnerInv, CurIsServed
  <2>2. AskedInv'
    BY <1>0, <2>1, AskedKept DEF Queued
  <2> QED BY <1>0, <2>1, <2>2 DEF SendIsDue, AnswerDue, Queued, Unsent, CloseIsEarned,
             EndIsEarned, Asking
<1>6. ASSUME NEW c \in Clients, KidReceive(c) PROVE ForkInv'
  <2>1. /\ kid[c] = "recv" /\ Read(c)
        /\ kid'[c] = IF inbox[c] = "TIME" THEN "send" ELSE "close"
        /\ \A d \in Clients : d # c => kid'[d] = kid[d]
        /\ UNCHANGED <<cpc, backlog, listening, sent, closed, reset, pc, cur>>
    BY <1>0, <1>6 DEF KidReceive
  <2>2. ~Queued(c)
    BY <1>0, <2>1 DEF OwnerInv, FreshIsIdle
  <2>3. /\ AskedInv'
        /\ \A d \in Clients : AnswerDue(d) => AnswerDue(d)'
        /\ inbox[c] = "TIME" => sent[c] = 0 /\ AnswerDue(c)'
        /\ inbox[c] # "TIME" /\ c \in TimeClients => ~Asking(c)
    BY <1>0, <2>1, <2>2, AskedRead
  <2> QED BY <1>0, <2>1, <2>3 DEF SendIsDue, CloseIsEarned, EndIsEarned, Asking
<1>7. ASSUME NEW c \in Clients, KidSend(c) PROVE ForkInv'
  <2>1. /\ kid[c] = "send" /\ Sent(c) /\ sent[c] = 0 /\ AnswerDue(c)
        /\ kid'[c] = "close" /\ \A d \in Clients : d # c => kid'[d] = kid[d]
        /\ UNCHANGED <<cpc, backlog, listening, inbox, closed, pc, cur>>
    BY <1>0, <1>7 DEF KidSend, SendIsDue
  <2>2. /\ AskedInv'
        /\ \A d \in Clients : AnswerDue(d) => AnswerDue(d)'
        /\ sent'[c] = 1 /\ \A d \in Clients : d # c => sent'[d] = sent[d]
    BY <1>0, <2>1, AskedSent
  <2> QED BY <1>0, <2>1, <2>2 DEF SendIsDue, CloseIsEarned, EndIsEarned, Asking
<1>8. ASSUME NEW c \in Clients, KidClose(c) PROVE ForkInv'
  <2>1. /\ kid[c] = "close"
        /\ kid'[c] = "leave" /\ \A d \in Clients : d # c => kid'[d] = kid[d]
        /\ \A d \in Clients : closed'[d] => closed[d] \/ d = c
        /\ UNCHANGED <<cpc, backlog, listening, inbox, sent, reset, pc>>
    BY <1>0, <1>8 DEF KidClose, CloseCopy, Released
  <2>2. AskedInv'
    BY <1>0, <2>1, AskedKept DEF Queued
  <2> QED BY <1>0, <2>1, <2>2 DEF SendIsDue, AnswerDue, Queued, Unsent, CloseIsEarned,
             EndIsEarned, Asking
<1>9. ASSUME NEW c \in Clients, KidLeave(c) PROVE ForkInv'
  <2>1. /\ kid[c] = "leave"
        /\ kid'[c] = "exit" /\ \A d \in Clients : d # c => kid'[d] = kid[d]
        /\ UNCHANGED <<cpc, inbox, sent, reset, pc>>
        /\ \/ backlog' = <<>> /\ pc = "exit"
           \/ UNCHANGED backlog /\ \A d \in Clients : closed'[d] => closed[d]
    BY <1>0, <1>9 DEF KidLeave, Exit, StopListening, Released
  <2>2. \A d \in Clients : Queued(d)' => Queued(d)
    BY <2>1 DEF Queued
  <2>3. AskedInv'
    BY <1>0, <2>1, <2>2, AskedKept
  <2> QED BY <1>0, <2>1, <2>2, <2>3 DEF SendIsDue, AnswerDue, Unsent, CloseIsEarned,
             EndIsEarned, Asking
<1>10. ASSUME NEW c \in Clients, Client(c) PROVE ForkInv'
  <2>1. ClientStep(c) /\ UNCHANGED <<pc, cur, kid>>
    BY <1>10 DEF Client
  <2>2. /\ UNCHANGED <<listening, sent, closed>>
        /\ \A d \in Clients : d # c => cpc'[d] = cpc[d]
        /\ Asking(c)' => Asking(c) \/ cpc[c] = "start"
    BY <1>0, <2>1, ClientEffect
  <2>3. AskedInv' /\ \A d \in Clients : AnswerDue(d) => AnswerDue(d)'
    BY <1>0, <2>1, AskedClient
  <2>4. \A d \in Clients : cpc[d] = "start" => ~closed[d] /\ kid[d] = "none"
    BY <1>0 DEF OwnerInv, FreshIsIdle, QueueInv, UnmadeIsOpen, Unmade
  <2>5. SendIsDue'
    BY <2>1, <2>2, <2>3 DEF SendIsDue
  <2>6. CloseIsEarned' /\ EndIsEarned'
    BY <1>0, <2>1, <2>2, <2>4 DEF CloseIsEarned, EndIsEarned, Asking
  <2> QED BY <1>0, <2>3, <2>5, <2>6
<1> QED BY <1>1, <1>2, <1>3, <1>4, <1>5, <1>6, <1>7, <1>8, <1>9, <1>10
        DEF Next, Parent, Child

LEMMA ForkInit == Init => ForkInv
<1> SUFFICES ASSUME Init PROVE ForkInv
  OBVIOUS
<1>1. QueueInv /\ AskedInv /\ ClientsTypeOK
  BY QueueInit, AskedInit, InitType DEF Init
<1>2. OwnerInv
  BY <1>1, ForkAssumption DEF Init, ClientsInit, OwnerInv, TypeOK, CurIsServed,
                          FreshIsIdle, OpenIsOwned, Unmade
<1> QED BY <1>1, <1>2, ClientsAssumption
        DEF Init, ClientsInit, ForkInv, ListenerInv, StartIsQuiet, ListenerOutlivesParent,
            SendIsDue, CloseIsEarned, EndIsEarned, Asking, Unmade

LEMMA ForkAlways == Spec => []ForkInv
  BY ForkInit, ForkStep, PTL DEF Spec

(* Whichever of the parent and the children has run: a connection is       *)
(* released exactly when the last of its copies is closed, the listening   *)
(* socket outlives the parent with its children, each request has at most  *)
(* one answer and no child is killed by SIGPIPE (lines 46, 69, 98, 101).   *)
THEOREM ForkIsSafe == Spec => []ForkHolds
<1>1. ForkInv => ForkHolds
  <2> SUFFICES ASSUME ForkInv PROVE ForkHolds
    OBVIOUS
  <2>1. TypeOK /\ OneAnswer /\ ListenerOutlivesParent
    BY AskedOnce DEF ForkInv, ListenerInv, OwnerInv
  <2>2. NoBrokenPipe
    BY DEF ForkInv, SendIsDue, AskedInv, ResetIsLate, NoBrokenPipe
  <2>3. \A c : c \in Range(backlog) <=> Queued(c)
    BY DEF Range, Queued
  <2>4. ReleasedByTheLast
    BY <2>3 DEF ForkInv, ListenerInv, OwnerInv, OpenIsOwned, Holding, Unmade,
                ReleasedByTheLast
  <2> QED BY <2>1, <2>2, <2>4 DEF ForkHolds
<1> QED BY <1>1, ForkAlways, PTL

-----------------------------------------------------------------------------
(* Every child keeps its entry of the process table, and only a child      *)
(* answers: fork counts the entries that were never given back.            *)
TableInv == /\ TypeOK
            /\ IsFiniteSet(Children) /\ Cardinality(Children) < ProcLimit
            /\ \A c \in Clients : sent[c] # 0 => c \in Children

LEMMA TableStep == TableInv /\ ForkInv /\ [Next]_vars => TableInv'
<1> SUFFICES ASSUME TableInv, ForkInv, [Next]_vars PROVE TableInv'
  OBVIOUS
<1>0. TypeOK' /\ TypeOK
  BY ForkStep DEF ForkInv, ListenerInv, OwnerInv
<1> USE DEF TableInv
<1>1. CASE Fork
  <2>1. /\ 1 + Cardinality(Children) < ProcLimit
        /\ UNCHANGED sent /\ Children' = Children \cup {cur} /\ cur \notin Children
    BY <1>0, <1>1 DEF Fork, cvars, netvars, Children, TypeOK, ForkInv, ListenerInv,
                      OwnerInv, CurIsServed
  <2>2. /\ IsFiniteSet(Children \cup {cur})
        /\ Cardinality(Children \cup {cur}) = Cardinality(Children) + 1
        /\ Cardinality(Children) \in Nat
    BY <2>1, FS_AddElement, FS_CardinalityType
  <2> QED BY <1>0, <2>1, <2>2, ForkAssumption
<1>2. ASSUME UNCHANGED <<kid, sent>> PROVE TableInv'
  BY <1>0, <1>2 DEF Children
<1>3. CASE UNCHANGED vars \/ Done \/ Start \/ StartFails \/ AcceptFails \/ Accept
           \/ ForkFails \/ ParentClose
  <2>1. UNCHANGED <<kid, sent>>
    BY <1>3 DEF Done, Start, StartFails, AcceptFails, Accept, ForkFails, ParentClose,
                Exit, CloseCopy, vars, cvars, netvars
  <2> QED BY <1>2, <2>1
<1>4. ASSUME NEW c \in Clients, Child(c) PROVE TableInv'
  <2>1. /\ c \in Children /\ Children' = Children
        /\ \A d \in Clients : d # c => sent'[d] = sent[d]
    BY <1>0, <1>4 DEF Child, KidReceive, KidSend, KidClose, KidLeave, Exit, CloseCopy,
                      Sent, Children, TypeOK, ClientsTypeOK
  <2> QED BY <1>0, <2>1
<1>5. ASSUME NEW c \in Clients, Client(c) PROVE TableInv'
  <2>1. UNCHANGED <<kid, sent>>
    BY <1>0, <1>5, ClientEffect DEF Client, TypeOK
  <2> QED BY <1>2, <2>1
<1> QED BY <1>1, <1>3, <1>4, <1>5 DEF Next, Parent

(* The children are never waited for, so whatever the clients do a forking *)
(* server answers fewer connections in its life than the process table has *)
(* entries (line 66, and no wait anywhere).                                *)
THEOREM AnswersAreNumbered == Spec => []NoReaping
<1>1. Init => TableInv
  <2> SUFFICES ASSUME Init PROVE TableInv
    OBVIOUS
  <2>1. Children = {} /\ \A c \in Clients : sent[c] = 0
    BY DEF Init, ClientsInit, Children
  <2>2. TypeOK
    BY ForkInit DEF ForkInv, ListenerInv, OwnerInv
  <2> QED BY <2>1, <2>2, FS_EmptySet, ForkAssumption DEF TableInv
<1>2. TableInv => NoReaping
  <2> SUFFICES ASSUME TableInv PROVE NoReaping
    OBVIOUS
  <2> DEFINE Answered == {c \in Clients : sent[c] > 0}
  <2>1. Answered \in SUBSET Children
    BY DEF TableInv, TypeOK, ClientsTypeOK
  <2>2. /\ IsFiniteSet(Answered) /\ Cardinality(Answered) <= Cardinality(Children)
        /\ Cardinality(Answered) \in Nat /\ Cardinality(Children) \in Nat
    BY <2>1, FS_Subset, FS_CardinalityType DEF TableInv
  <2> QED BY <2>2, ForkAssumption DEF TableInv, NoReaping
<1> QED BY <1>1, <1>2, TableStep, ForkAlways, PTL DEF Spec

-----------------------------------------------------------------------------
(* A step of the parent starts or stops the time service, a child's is not *)
(* seen, a client moves its own request.                                   *)
LEMMA ServiceStep == ForkInv /\ [Next]_vars => [T!TimeNext]_(T!tvars)
<1> DEFINE Up == pc \notin {"start", "exit"}
<1> SUFFICES ASSUME ForkInv, [Next]_vars
             PROVE  T!TimeNext \/ (Up' = Up /\ Requests' = Requests)
  BY DEF T!tvars, Requests
<1>0. ClientsTypeOK /\ AskedInv
  BY DEF ForkInv, ListenerInv, OwnerInv, QueueInv
<1>1. ASSUME UNCHANGED cpc PROVE Requests' = Requests
  BY <1>1 DEF Requests, Phase, Asking
<1>2. CASE UNCHANGED vars \/ Done \/ StartFails \/ Accept \/ Fork \/ ParentClose
           \/ \E c \in Clients : Child(c)
  <2>1. UNCHANGED cpc /\ Up' = Up
    BY <1>2 DEF Done, StartFails, Accept, Fork, ParentClose, Child, KidReceive, KidSend,
                KidClose, KidLeave, Exit, CloseCopy, vars, cvars
  <2> QED BY <1>1, <2>1
<1>3. CASE Start
  <2>1. UNCHANGED cpc /\ ~Up /\ Up' /\ \A c \in Clients : Unmade(c)
    BY <1>3 DEF Start, ForkInv, ListenerInv, StartIsQuiet
  <2>2. \A c \in Clients : Requests[c] \in {"out", "turned away"}
    BY <2>1 DEF Requests, Phase, Asking, Unmade
  <2>3. T!StartUp
    BY <1>1, <2>1, <2>2 DEF T!StartUp, Requests
  <2> QED BY <2>3 DEF T!TimeNext
<1>4. CASE AcceptFails \/ ForkFails
  <2>1. UNCHANGED cpc /\ Up /\ ~Up'
    BY <1>4 DEF AcceptFails, ForkFails, Exit
  <2>2. T!ShutDown
    BY <1>1, <2>1 DEF T!ShutDown, Requests
  <2> QED BY <2>2 DEF T!TimeNext
<1>5. ASSUME NEW c \in Clients, Client(c)
      PROVE  T!TimeNext \/ (Up' = Up /\ Requests' = Requests)
  <2>1. ClientStep(c) /\ Up' = Up
    BY <1>5 DEF Client
  <2>2. sent[c] # 0 => c \in TimeClients
    BY <1>0 DEF AskedInv, AnswerIsDue, AnswerDue
  <2>3. sent[c] = 0 /\ closed[c] /\ Asking(c) /\ Up => c \notin TimeClients
    BY DEF ForkInv, EndIsEarned
  <2>4. \/ Requests' = Requests
        \/ T!Ask(c) \/ T!TurnAway(c) \/ T!Answer(c) \/ T!Drop(c) \/ T!Leave(c)
    <3> USE DEF T!Ask, T!TurnAway, T!Answer, T!Drop, T!Leave, T!Move, Requests
    <3> QED BY <1>0, <2>1, <2>2, <2>3, ClientPhase
  <2> QED BY <2>1, <2>4 DEF T!TimeNext
<1> QED BY <1>2, <1>3, <1>4, <1>5 DEF Next, Parent

(* The forking server implements the time service for every number of      *)
(* clients and every process table, and a failing fork or accept only      *)
(* shuts it down (lines 59-79).                                            *)
THEOREM ForkServesTime == Spec => ImplementsTimeService
<1>1. Init => T!TimeInit
  BY DEF Init, ClientsInit, T!TimeInit, Phase, Asking
<1> QED BY <1>1, ServiceStep, ForkAlways, PTL DEF Spec, ImplementsTimeService, T!TimeSpec
=============================================================================
