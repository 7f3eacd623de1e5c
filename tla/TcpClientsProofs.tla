-------------------------- MODULE TcpClientsProofs --------------------------
(***************************************************************************)
(* Facts about the clients and the socket calls that the proofs about the  *)
(* servers share: what every client step changes, the invariant of the     *)
(* kernel's queue and of the answers, which each socket call keeps under   *)
(* its own conditions, and how a client's step looks to the time service.  *)
(***************************************************************************)
EXTENDS TcpClients, TLAPS

(* The initial state of the clients and the kernel is well typed.          *)
LEMMA InitType == ClientsInit => ClientsTypeOK
<1> SUFFICES ASSUME ClientsInit PROVE ClientsTypeOK
  OBVIOUS
<1>1. backlog \in Seq(Clients) /\ Len(backlog) <= Backlog
  BY ClientsAssumption DEF ClientsInit
<1>2. sent \in [Clients -> Nat] /\ closed \in [Clients -> BOOLEAN]
  BY DEF ClientsInit
<1>3. /\ cpc \in [Clients -> {"start", "refused", "connected", "waiting",
                              "answered", "eof", "killed"}]
      /\ inbox \in [Clients -> {"none", "TIME", "OTHER"}]
      /\ listening \in BOOLEAN /\ reset \in SUBSET Clients
  BY DEF ClientsInit
<1> QED BY <1>1, <1>2, <1>3 DEF ClientsTypeOK

(* Every step of a client leaves the clients and the kernel well typed.    *)
LEMMA ClientStepType ==
  ASSUME ClientsTypeOK, NEW c \in Clients, ClientStep(c)
  PROVE  ClientsTypeOK'
<1> USE ClientsAssumption
<1>1. CASE Connect(c)
  BY <1>1 DEF Connect, ClientsTypeOK
<1>2. CASE ConnectFails(c)
  BY <1>2 DEF ConnectFails, netvars, ClientsTypeOK
<1>3. CASE Send(c)
  BY <1>3 DEF Send, Request, ClientsTypeOK
<1>4. CASE Recv(c)
  BY <1>4 DEF Recv, netvars, ClientsTypeOK
<1>5. CASE Kill(c)
  BY <1>5 DEF Kill, ClientsTypeOK
<1> QED BY <1>1, <1>2, <1>3, <1>4, <1>5 DEF ClientStep

(* accept takes the head off a non-empty queue and shifts the rest down. *)
LEMMA AcceptedQueue ==
  ASSUME ClientsTypeOK, NEW c \in Clients, Accepted(c)
  PROVE  /\ backlog' \in Seq(Clients) /\ Len(backlog') = Len(backlog) - 1
         /\ 1 \in DOMAIN backlog /\ backlog[1] = c
         /\ \A i \in DOMAIN backlog' :
              i + 1 \in DOMAIN backlog /\ backlog'[i] = backlog[i + 1]
         /\ \A i \in DOMAIN backlog : i # 1 =>
              i - 1 \in DOMAIN backlog' /\ backlog'[i - 1] = backlog[i]
  BY DEF ClientsTypeOK, Accepted

(* A connection joins the queue at its end. *)
LEMMA ConnectQueue ==
  ASSUME ClientsTypeOK, NEW c \in Clients, Connect(c)
  PROVE  /\ backlog' \in Seq(Clients)
         /\ DOMAIN backlog' = DOMAIN backlog \cup {Len(backlog) + 1}
         /\ Len(backlog) + 1 \notin DOMAIN backlog
         /\ backlog'[Len(backlog) + 1] = c
         /\ \A i \in DOMAIN backlog : backlog'[i] = backlog[i]
  BY DEF ClientsTypeOK, Connect

-----------------------------------------------------------------------------
Queued(c) == \E i \in DOMAIN backlog : backlog[i] = c
Unmade(c) == cpc[c] \in {"start", "refused"}
Unsent(c) == cpc[c] \in {"start", "refused", "connected"}

(* What a client's step leaves alone, and what it does to its own program  *)
(* and connection: it asks before anything can be read from it, and leaves *)
(* a reset behind only when there is an answer it has not read.            *)
LEMMA ClientEffect ==
  ASSUME ClientsTypeOK, NEW c \in Clients, ClientStep(c)
  PROVE  /\ UNCHANGED <<listening, sent, closed>>
         /\ \A d \in Clients : d # c => cpc'[d] = cpc[d] /\ inbox'[d] = inbox[d]
         /\ Unsent(c)' => Unsent(c) /\ inbox'[c] = inbox[c]
         /\ Asking(c)' => Asking(c) \/ cpc[c] = "start"
         /\ Unmade(c)' => Unmade(c)
         /\ \/ inbox'[c] = inbox[c]
            \/ cpc[c] = "connected" /\ inbox'[c] \in {"none", Request(c)}
         /\ \/ reset' = reset
            \/ sent[c] # 0 /\ reset' = reset \cup {c}
<1> USE DEF ClientsTypeOK, Unsent, Unmade, Asking
<1>1. CASE Connect(c)
  BY <1>1 DEF Connect
<1>2. CASE ConnectFails(c)
  BY <1>2 DEF ConnectFails, netvars
<1>3. CASE Send(c)
  BY <1>3 DEF Send
<1>4. CASE Recv(c)
  BY <1>4 DEF Recv, netvars
<1>5. CASE Kill(c)
  BY <1>5 DEF Kill
<1> QED BY <1>1, <1>2, <1>3, <1>4, <1>5 DEF ClientStep

(* A client's step queues nothing but its own new connection.              *)
LEMMA ClientQueue ==
  ASSUME ClientsTypeOK, NEW c \in Clients, ClientStep(c)
  PROVE  \/ /\ Connect(c) /\ cpc[c] = "start" /\ cpc'[c] = "connected"
            /\ \A d : Queued(d)' <=> Queued(d) \/ d = c
         \/ /\ UNCHANGED backlog
            /\ \A d \in Clients : Unmade(d)' = Unmade(d)
<1>1. CASE Connect(c)
  <2>1. \A d : Queued(d)' <=> Queued(d) \/ d = c
    BY <1>1, ConnectQueue DEF Queued
  <2> QED BY <1>1, <2>1 DEF Connect, ClientsTypeOK
<1>2. CASE ConnectFails(c) \/ Send(c) \/ Recv(c) \/ Kill(c)
  BY <1>2 DEF ConnectFails, Send, Recv, Kill, netvars, Asking, Unmade, ClientsTypeOK
<1> QED BY <1>1, <1>2 DEF ClientStep

-----------------------------------------------------------------------------
(* The accept queue: a connection is in it at most once, and only while    *)
(* it is made and not released; nothing is released before it is made.     *)
QueuedOnce   == \A i, j \in DOMAIN backlog : backlog[i] = backlog[j] => i = j
QueuedOpen   == \A i \in DOMAIN backlog : ~Unmade(backlog[i]) /\ ~closed[backlog[i]]
UnmadeIsOpen == \A c \in Clients : Unmade(c) => ~closed[c]
QueueInv     == ClientsTypeOK /\ QueuedOnce /\ QueuedOpen /\ UnmadeIsOpen

LEMMA QueueInit == ClientsInit => QueueInv
  BY InitType DEF ClientsInit, QueueInv, QueuedOnce, QueuedOpen, UnmadeIsOpen

(* A step that leaves the queue and the connections' two ends as they are. *)
LEMMA QueueKept ==
  ASSUME QueueInv, ClientsTypeOK', UNCHANGED <<backlog, closed>>,
         \A c \in Clients : Unmade(c)' = Unmade(c)
  PROVE  QueueInv'
<1>1. \A i \in DOMAIN backlog : backlog[i] \in Clients
  BY DEF QueueInv, ClientsTypeOK
<1> QED BY <1>1 DEF QueueInv, QueuedOnce, QueuedOpen, UnmadeIsOpen

LEMMA QueueClient ==
  ASSUME QueueInv, NEW c \in Clients, ClientStep(c)
  PROVE  QueueInv'
<1>0. ClientsTypeOK /\ ClientsTypeOK' /\ UNCHANGED closed
  BY ClientStepType, ClientEffect DEF QueueInv
<1>1. CASE Connect(c)
  <2>1. /\ DOMAIN backlog' = DOMAIN backlog \cup {Len(backlog) + 1}
        /\ backlog'[Len(backlog) + 1] = c
        /\ \A i \in DOMAIN backlog : backlog'[i] = backlog[i]
    BY <1>0, <1>1, ConnectQueue
  <2>0. \A i \in DOMAIN backlog : backlog[i] \in Clients
    BY <1>0 DEF ClientsTypeOK
  <2>2. /\ Unmade(c) /\ ~Unmade(c)'
        /\ \A d \in Clients : d # c => Unmade(d)' = Unmade(d)
    BY <1>0, <1>1 DEF Connect, Unmade, ClientsTypeOK
  <2>3. \A i \in DOMAIN backlog : backlog[i] # c
    BY <2>2 DEF QueueInv, QueuedOpen
  <2>4. QueuedOnce'
    BY <2>1, <2>3 DEF QueueInv, QueuedOnce
  <2>5. ~closed[c] /\ UnmadeIsOpen'
    BY <1>0, <2>2 DEF QueueInv, UnmadeIsOpen
  <2>6. QueuedOpen'
    BY <1>0, <2>0, <2>1, <2>2, <2>3, <2>5 DEF QueueInv, QueuedOpen
  <2> QED BY <1>0, <2>4, <2>5, <2>6 DEF QueueInv
<1>2. CASE ~Connect(c)
  BY <1>0, <1>2, ClientQueue, QueueKept
<1> QED BY <1>1, <1>2

(* accept takes out of the queue an open connection that is nowhere else   *)
(* in it.                                                                  *)
LEMMA QueueAccepted ==
  ASSUME QueueInv, NEW c \in Clients, Accepted(c),
         UNCHANGED <<cpc, listening, inbox, sent, closed, reset>>
  PROVE  /\ QueueInv'
         /\ Queued(c) /\ ~Unmade(c) /\ ~closed[c]
         /\ \A d : Queued(d)' <=> Queued(d) /\ d # c
<1>1. /\ backlog' \in Seq(Clients) /\ Len(backlog') = Len(backlog) - 1
      /\ 1 \in DOMAIN backlog /\ backlog[1] = c
      /\ \A i \in DOMAIN backlog' :
           i \in Int /\ i + 1 # 1 /\ i + 1 \in DOMAIN backlog /\ backlog'[i] = backlog[i + 1]
      /\ \A i \in DOMAIN backlog : i # 1 =>
           i - 1 \in DOMAIN backlog' /\ backlog'[i - 1] = backlog[i]
  BY AcceptedQueue DEF QueueInv, ClientsTypeOK
<1>2. ClientsTypeOK'
  BY <1>1, ClientsAssumption DEF QueueInv, ClientsTypeOK
<1>3. QueuedOnce' /\ QueuedOpen' /\ UnmadeIsOpen'
  <2>1. QueuedOnce'
    BY <1>1 DEF QueueInv, QueuedOnce
  <2>2. QueuedOpen' /\ UnmadeIsOpen'
    BY <1>1 DEF QueueInv, QueuedOpen, UnmadeIsOpen, Unmade
  <2> QED BY <2>1, <2>2
<1>4. \A d : Queued(d)' => Queued(d) /\ d # c
  <2>1. QueuedOnce
    BY DEF QueueInv
  <2>2. \A i \in DOMAIN backlog' : backlog'[i] # c
    BY <1>1, <2>1 DEF QueuedOnce
  <2> QED BY <1>1, <2>2 DEF Queued
<1>5. \A d : Queued(d) /\ d # c => Queued(d)'
  BY <1>1 DEF Queued
<1>6. Queued(c) /\ ~Unmade(c) /\ ~closed[c]
  BY <1>1 DEF Queued, QueueInv, QueuedOpen
<1> QED BY <1>2, <1>3, <1>4, <1>5, <1>6 DEF QueueInv

(* Releasing connections that are made and not queued.                     *)
LEMMA QueueReleased ==
  ASSUME QueueInv, NEW S, Released(S),
         \A c \in Clients : c \in S => ~Unmade(c) /\ ~Queued(c),
         ClientsTypeOK', UNCHANGED <<cpc, backlog>>
  PROVE  /\ QueueInv'
         /\ \A c \in Clients : closed'[c] <=> closed[c] \/ c \in S
<1>1. \A c \in Clients : closed'[c] <=> closed[c] \/ c \in S
  BY DEF Released, QueueInv, ClientsTypeOK
<1>2. \A i \in DOMAIN backlog : backlog[i] \in Clients /\ backlog[i] \notin S
  BY DEF Queued, QueueInv, ClientsTypeOK
<1> QED BY <1>1, <1>2 DEF QueueInv, QueuedOnce, QueuedOpen, UnmadeIsOpen, Unmade

(* The listening socket goes, with the connections of its queue and those  *)
(* of S, which are made.                                                   *)
LEMMA QueueStopped ==
  ASSUME QueueInv, NEW S, StopListening(S),
         \A c \in Clients : c \in S => ~Unmade(c),
         UNCHANGED <<cpc, inbox, sent, reset>>
  PROVE  /\ QueueInv'
         /\ \A c \in Clients : closed'[c] <=> closed[c] \/ c \in S \/ Queued(c)
         /\ \A c : ~Queued(c)'
<1>1. \A c \in Clients : closed'[c] <=> closed[c] \/ c \in S \/ Queued(c)
  BY DEF StopListening, Released, Range, Queued, QueueInv, ClientsTypeOK
<1>2. backlog' = <<>> /\ listening' = FALSE
  BY DEF StopListening
<1>3. ClientsTypeOK'
  <2>1. backlog' \in Seq(Clients) /\ Len(backlog') <= Backlog
    BY <1>2, ClientsAssumption
  <2>2. closed' \in [Clients -> BOOLEAN]
    BY DEF StopListening, Released, QueueInv, ClientsTypeOK
  <2> QED BY <2>1, <2>2, <1>2 DEF QueueInv, ClientsTypeOK
<1>4. \A c : ~Queued(c)'
  BY <1>2 DEF Queued
<1>5. QueuedOnce' /\ QueuedOpen'
  BY <1>2 DEF QueuedOnce, QueuedOpen
<1>6. UnmadeIsOpen'
  <2>1. \A c \in Clients : Queued(c) => ~Unmade(c)
    BY DEF Queued, QueueInv, QueuedOpen
  <2> QED BY <1>1, <2>1 DEF QueueInv, UnmadeIsOpen, Unmade
<1> QED BY <1>1, <1>3, <1>4, <1>5, <1>6 DEF QueueInv

-----------------------------------------------------------------------------
(* What an answer stands for: a request for the time that has been taken   *)
(* off a connection which is no longer queued and whose client is past its *)
(* send.  A reset presupposes an answer.                                   *)
InboxIsRequest == \A c \in Clients :
  /\ inbox[c] \in {"none", Request(c)}
  /\ cpc[c] \in {"start", "refused", "connected"} => inbox[c] = "none"
AnswerDue(c)   == /\ c \in TimeClients /\ inbox[c] = "none"
                  /\ ~Unsent(c) /\ ~Queued(c)
AnswerIsDue    == \A c \in Clients : sent[c] # 0 => sent[c] = 1 /\ AnswerDue(c)
ResetIsLate    == \A c \in reset : sent[c] # 0
AskedInv       == InboxIsRequest /\ AnswerIsDue /\ ResetIsLate

LEMMA AskedInit == ClientsInit => AskedInv
  BY DEF ClientsInit, AskedInv, InboxIsRequest, AnswerIsDue, ResetIsLate

LEMMA AskedKept ==
  ASSUME AskedInv, UNCHANGED <<cpc, inbox, sent, reset>>,
         \A c \in Clients : Queued(c)' => Queued(c)
  PROVE  AskedInv'
  BY DEF AskedInv, InboxIsRequest, AnswerIsDue, AnswerDue, ResetIsLate, Request, Unsent

LEMMA AskedClient ==
  ASSUME QueueInv, AskedInv, NEW c \in Clients, ClientStep(c)
  PROVE  /\ AskedInv'
         /\ \A d \in Clients : AnswerDue(d) => AnswerDue(d)'
<1>0. ClientsTypeOK
  BY DEF QueueInv
<1>1. /\ UNCHANGED <<listening, sent, closed>>
      /\ \A d \in Clients : d # c => cpc'[d] = cpc[d] /\ inbox'[d] = inbox[d]
      /\ Unsent(c)' => Unsent(c) /\ inbox'[c] = inbox[c]
      /\ \/ inbox'[c] = inbox[c]
         \/ cpc[c] = "connected" /\ inbox'[c] \in {"none", Request(c)}
      /\ \/ reset' = reset
         \/ sent[c] # 0 /\ reset' = reset \cup {c}
  BY <1>0, ClientEffect
<1>2. \A d \in Clients : Queued(d)' => Queued(d) \/ (d = c /\ cpc[c] = "start")
  BY <1>0, ClientQueue DEF Queued
<1>3. InboxIsRequest'
  BY <1>1 DEF AskedInv, InboxIsRequest, Request, Unsent
<1>4. \A d \in Clients : AnswerDue(d) => AnswerDue(d)'
  BY <1>1, <1>2 DEF AnswerDue, Unsent
<1>5. AnswerIsDue'
  BY <1>1, <1>4 DEF AskedInv, AnswerIsDue
<1>6. ResetIsLate'
  BY <1>1 DEF AskedInv, ResetIsLate
<1> QED BY <1>3, <1>4, <1>5, <1>6 DEF AskedInv

(* recv takes a request off a connection; "TIME" is what clients of        *)
(* TimeClients have sent, and nothing else is read from one that still     *)
(* asks.                                                                   *)
LEMMA AskedRead ==
  ASSUME QueueInv, AskedInv, NEW c \in Clients, Read(c), ~Queued(c),
         UNCHANGED <<cpc, backlog, sent, reset>>
  PROVE  /\ AskedInv'
         /\ \A d \in Clients : AnswerDue(d) => AnswerDue(d)'
         /\ inbox[c] = "TIME" => sent[c] = 0 /\ AnswerDue(c)'
         /\ inbox[c] # "TIME" /\ c \in TimeClients => ~Asking(c)
<1>1. /\ inbox'[c] = "none" /\ \A d \in Clients : d # c => inbox'[d] = inbox[d]
      /\ \A d \in Clients : Queued(d)' = Queued(d) /\ Unsent(d)' = Unsent(d)
      /\ inbox[c] # "none" \/ Gone(c)
  BY DEF QueueInv, ClientsTypeOK, Read, Readable, Queued, Unsent
<1>2. InboxIsRequest' /\ ResetIsLate'
  BY <1>1 DEF AskedInv, InboxIsRequest, ResetIsLate, Request
<1>3. \A d \in Clients : AnswerDue(d) => AnswerDue(d)'
  BY <1>1 DEF AnswerDue
<1>4. AnswerIsDue'
  BY <1>3 DEF AskedInv, AnswerIsDue
<1>5. inbox[c] = "TIME" => c \in TimeClients /\ ~Unsent(c) /\ sent[c] = 0
  BY DEF AskedInv, InboxIsRequest, AnswerIsDue, AnswerDue, Request, Unsent
<1>6. inbox[c] # "TIME" /\ c \in TimeClients => ~Asking(c)
  BY <1>1 DEF AskedInv, InboxIsRequest, Request, Gone, Asking
<1> QED BY <1>1, <1>2, <1>3, <1>4, <1>5, <1>6 DEF AskedInv, AnswerDue

(* send is the connection's one answer when it is due and the first.       *)
LEMMA AskedSent ==
  ASSUME QueueInv, AskedInv, NEW c \in Clients, Sent(c),
         AnswerDue(c), sent[c] = 0, UNCHANGED <<cpc, backlog, inbox>>
  PROVE  /\ AskedInv'
         /\ \A d \in Clients : AnswerDue(d) => AnswerDue(d)'
         /\ sent'[c] = 1 /\ \A d \in Clients : d # c => sent'[d] = sent[d]
<1>1. /\ sent'[c] = 1 /\ \A d \in Clients : d # c => sent'[d] = sent[d]
      /\ reset' = reset \/ reset' = reset \cup {c}
  BY DEF QueueInv, ClientsTypeOK, Sent
<1>2. \A d \in Clients : AnswerDue(d) => AnswerDue(d)'
  BY DEF AnswerDue, Queued, Unsent
<1>3. InboxIsRequest' /\ AnswerIsDue'
  BY <1>1, <1>2 DEF AskedInv, InboxIsRequest, AnswerIsDue, Request
<1>4. ResetIsLate'
  <2>1. reset \in SUBSET Clients
    BY DEF QueueInv, ClientsTypeOK
  <2> QED BY <1>1, <2>1 DEF AskedInv, ResetIsLate
<1> QED BY <1>1, <1>2, <1>3, <1>4 DEF AskedInv

LEMMA AskedOnce == AskedInv => OneAnswer
<1>1. ASSUME AskedInv, NEW c \in Clients
      PROVE  sent[c] <= 1 /\ (sent[c] = 1 => c \in TimeClients /\ inbox[c] = "none")
  <2>1. sent[c] = 0 \/ (sent[c] = 1 /\ AnswerDue(c))
    BY <1>1 DEF AskedInv, AnswerIsDue
  <2> QED BY <2>1 DEF AnswerDue
<1> QED BY <1>1 DEF OneAnswer

-----------------------------------------------------------------------------
(* A client's step as the time service sees it: it moves its own request   *)
(* on by one phase, or is not seen.                                        *)
Requests == [c \in Clients |-> Phase(c)]

LEMMA ClientPhase ==
  ASSUME ClientsTypeOK, NEW c \in Clients, ClientStep(c)
  PROVE  \/ Requests' = Requests
         \/ Requests[c] = "out" /\ Requests' = [Requests EXCEPT ![c] = "asking"]
         \/ Requests[c] = "out" /\ Requests' = [Requests EXCEPT ![c] = "turned away"]
         \/ /\ sent[c] # 0
            /\ Requests[c] = "asking" /\ Requests' = [Requests EXCEPT ![c] = "answered"]
         \/ /\ sent[c] = 0 /\ closed[c] /\ Asking(c)
            /\ Requests[c] = "asking" /\ Requests' = [Requests EXCEPT ![c] = "dropped"]
         \/ Requests[c] = "asking" /\ Requests' = [Requests EXCEPT ![c] = "left"]
<1> USE DEF Requests
<1>1. ASSUME NEW l, cpc' = [cpc EXCEPT ![c] = l]
      PROVE  Requests' = [Requests EXCEPT ![c] = Phase(c)']
  <2>1. \A d \in Clients : d # c => Phase(d)' = Phase(d)
    BY <1>1 DEF Phase, Asking, ClientsTypeOK
  <2> QED BY <2>1
<1>2. CASE Connect(c)
  <2>1. Requests[c] = "out" /\ Phase(c)' = "asking"
    BY <1>2 DEF Connect, Phase, Asking, ClientsTypeOK
  <2> QED BY <1>1, <1>2, <2>1 DEF Connect
<1>3. CASE ConnectFails(c)
  <2>1. Requests[c] = "out" /\ Phase(c)' = "turned away"
    BY <1>3 DEF ConnectFails, Phase, Asking, ClientsTypeOK
  <2> QED BY <1>1, <1>3, <2>1 DEF ConnectFails
<1>4. CASE Send(c)
  <2>1. Requests[c] = "asking" /\ Phase(c)' = "asking"
    BY <1>4 DEF Send, Phase, Asking, ClientsTypeOK
  <2>2. Requests' = [Requests EXCEPT ![c] = Requests[c]]
    BY <1>1, <1>4, <2>1 DEF Send
  <2> QED BY <2>2
<1>5. CASE Recv(c)
  <2>0. sent[c] \in Nat /\ Asking(c)
    BY <1>5 DEF Recv, Asking, ClientsTypeOK
  <2>1. Requests[c] = "asking"
    BY <1>5 DEF Recv, Phase, Asking, ClientsTypeOK
  <2>2. CASE sent[c] > 0
    <3>1. Phase(c)' = "answered"
      BY <1>5, <2>2 DEF Recv, Phase, Asking, ClientsTypeOK
    <3>2. cpc' = [cpc EXCEPT ![c] = "answered"]
      BY <1>5, <2>2 DEF Recv
    <3>3. sent[c] # 0
      BY <2>0, <2>2
    <3> QED BY <1>1, <2>1, <3>1, <3>2, <3>3
  <2>3. CASE ~(sent[c] > 0)
    <3>1. Phase(c)' = "dropped" /\ closed[c] /\ sent[c] = 0
      BY <1>5, <2>0, <2>3 DEF Recv, Phase, Asking, ClientsTypeOK
    <3> QED BY <1>1, <1>5, <2>0, <2>1, <2>3, <3>1 DEF Recv
  <2> QED BY <2>2, <2>3
<1>6. CASE Kill(c)
  <2>1. Requests[c] = "asking" /\ Phase(c)' = "left"
    BY <1>6 DEF Kill, Phase, Asking, ClientsTypeOK
  <2> QED BY <1>1, <1>6, <2>1 DEF Kill
<1> QED BY <1>2, <1>3, <1>4, <1>5, <1>6 DEF ClientStep
=============================================================================
