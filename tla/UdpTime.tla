------------------------------ MODULE UdpTime ------------------------------
(***************************************************************************)
(* The UDP time server, c/udp/loop_udp: a client sends one datagram and    *)
(* waits for the answer without a timeout; the server, which checks its    *)
(* descriptor again instead of the result of bind, answers the datagrams   *)
(* that ask for the time one after the other.                              *)
(***************************************************************************)
EXTENDS UdpNet

CONSTANTS TimeClients,  \* the clients that send "TIME"
          NoClient      \* the server has no datagram in hand
ASSUME TimeAssumption == TimeClients \subseteq Clients /\ NoClient \notin Clients

VARIABLES srv,          \* "boot", "bound", "deaf" when bind has failed, "exit"
          hand,         \* whose datagram the server has in buf
          cpc,          \* client -> where client.c is
          heard         \* clients of whom the server has had a datagram

vars == <<net, srv, hand, cpc, heard>>

Init == /\ NetInit /\ srv = "boot" /\ hand = NoClient /\ heard = {}
        /\ cpc = [c \in Clients |-> "start"]

-----------------------------------------------------------------------------
(* The client: sendto, whose result is not looked at, and recvfrom.        *)
Is(c, from, to) == cpc[c] = from /\ cpc' = [cpc EXCEPT ![c] = to]

Send(c) == Is(c, "start", "waiting") /\ asks' = Put(asks, c)
           /\ UNCHANGED <<tells, lost, srv, hand, heard>>

SocketFails(c) == Is(c, "start", "failed") /\ UNCHANGED <<net, srv, hand, heard>>

(* Mutant of Recv: a client that has waited for nothing asks again. *)
RecvRetries(c) ==
  /\ cpc[c] = "waiting" /\ cpc' = [cpc EXCEPT ![c] = IF tells[c] > 0 THEN "done" ELSE @]
  /\ tells' = IF tells[c] > 0 THEN Take(tells, c) ELSE tells
  /\ asks' = IF tells[c] > 0 THEN asks ELSE Put(asks, c)
  /\ UNCHANGED <<lost, srv, hand, heard>>

Recv(c) == Is(c, "waiting", "done") /\ tells[c] > 0 /\ tells' = Take(tells, c)
           /\ UNCHANGED <<asks, lost, srv, hand, heard>>

-----------------------------------------------------------------------------
(* The server. *)
SocketFailed == srv = "boot" /\ srv' = "exit" /\ UNCHANGED <<net, hand, cpc, heard>>

(* bind fails: the test at line 32 is of fd, and the server goes on.       *)
BindFailed == srv = "boot" /\ srv' = "deaf" /\ UNCHANGED <<net, hand, cpc, heard>>

Bind == srv = "boot" /\ srv' = "bound" /\ UNCHANGED <<net, hand, cpc, heard>>

(* A datagram to a port nobody has bound is dropped; the client's socket   *)
(* is not connected and hears nothing of it.                               *)
Unreachable(c) == srv # "bound" /\ asks[c] > 0 /\ asks' = Take(asks, c)
                  /\ lost' = lost \cup {c} /\ UNCHANGED <<tells, srv, hand, cpc, heard>>

(* Mutant of Receive: whoever sends a datagram is told the time. *)
ReceiveAny(c) == /\ srv = "bound" /\ hand = NoClient /\ asks[c] > 0
                 /\ asks' = Take(asks, c) /\ heard' = heard \cup {c} /\ hand' = c
                 /\ UNCHANGED <<tells, lost, srv, cpc>>

(* recvfrom, lines 38-41: a datagram that does not ask for the time is     *)
(* forgotten in the next round.                                            *)
Receive(c) == /\ srv = "bound" /\ hand = NoClient /\ asks[c] > 0
              /\ asks' = Take(asks, c) /\ heard' = heard \cup {c}
              /\ hand' = IF c \in TimeClients THEN c ELSE NoClient
              /\ UNCHANGED <<tells, lost, srv, cpc>>

(* Mutant of SendTime: an answer to one that has one already is skipped,   *)
(* and so is that to whoever comes after it.                               *)
SendTimeOnce == /\ hand # NoClient /\ hand' = NoClient
                /\ tells' = IF \E c \in Clients : tells[c] > 0 THEN tells ELSE Put(tells, hand)
                /\ UNCHANGED <<asks, lost, srv, cpc, heard>>

SendTime == /\ hand # NoClient /\ tells' = Put(tells, hand) /\ hand' = NoClient
            /\ UNCHANGED <<asks, lost, srv, cpc, heard>>

Server == (\E c \in Clients : Receive(c)) \/ SendTime
Faults(c) == (Lose(c) \/ Duplicate(c)) /\ UNCHANGED <<srv, hand, cpc, heard>>

Next == \/ SocketFailed \/ BindFailed \/ Bind \/ Server
        \/ \E c \in Clients : \/ Send(c) \/ SocketFails(c) \/ Recv(c)
                              \/ Unreachable(c) \/ Faults(c)

(* The processes run, the server takes the datagrams in turn, and one that *)
(* nobody can take is dropped; the network may lose and double them.       *)
Fairness == /\ WF_vars(SendTime) /\ WF_vars(SocketFailed \/ BindFailed \/ Bind)
            /\ \A c \in Clients : SF_vars(Receive(c)) /\ WF_vars(Recv(c)) /\ WF_vars(Unreachable(c))
Spec == Init /\ [][Next]_vars /\ Fairness

-----------------------------------------------------------------------------
TypeOK == /\ NetTypeOK /\ srv \in {"boot", "bound", "deaf", "exit"}
          /\ hand \in TimeClients \cup {NoClient} /\ heard \subseteq Clients
          /\ cpc \in [Clients -> {"start", "waiting", "done", "failed"}]

(* Nothing of c's is on the way to anyone. *)
Hopeless(c) == cpc[c] = "waiting" /\ asks[c] = 0 /\ tells[c] = 0 /\ hand # c

(* A client nothing of whom is under way waits for ever: there is neither  *)
(* a timeout nor a second request (client.c:33-37).                        *)
WaitsForGood == [][\A c \in Clients : Hopeless(c) => Hopeless(c)']_vars

(* The ways of not being told the time are a datagram the network lost or  *)
(* nobody was bound to receive, and not to have asked for it.              *)
OnlyLossStarves == \A c \in TimeClients :
  (cpc[c] = "waiting") ~> (cpc[c] = "done" \/ c \in lost)

(* With faults or without, the time is told to clients whose request has   *)
(* reached the server, as the TCP servers promise it.                      *)
Service == INSTANCE TimeService WITH
  up <- srv = "bound",
  phase <- [c \in Clients |-> IF cpc[c] = "done" THEN "answered"
                              ELSE IF c \in heard THEN "asking" ELSE "out"]
TellsTheTime == Service!TimeSpec
=============================================================================
