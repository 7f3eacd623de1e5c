------------------------------- MODULE UdpNet -------------------------------
(***************************************************************************)
(* What the programs of c/udp that talk over UDP assume of the network:    *)
(* one datagram per client each way, which may be lost, delivered twice    *)
(* and overtaken by those of other clients.  A datagram waits here until   *)
(* the recvfrom that takes it.                                             *)
(***************************************************************************)
EXTENDS Naturals

CONSTANTS Clients,      \* the client processes
          Copies        \* copies of a datagram the network makes at most
ASSUME NetAssumption == Copies \in Nat \ {0}

VARIABLES asks,         \* client -> copies of its request under way
          tells,        \* client -> copies of the answer to it under way
          lost          \* clients a datagram of whom the network lost

net == <<asks, tells, lost>>

NetInit == /\ asks = [c \in Clients |-> 0] /\ tells = [c \in Clients |-> 0]
           /\ lost = {}

Put(box, c)  == [box EXCEPT ![c] = IF @ < Copies THEN @ + 1 ELSE @]
Take(box, c) == [box EXCEPT ![c] = @ - 1]

Lose(c) == /\ lost' = lost \cup {c}
           /\ \/ asks[c] > 0 /\ asks' = Take(asks, c) /\ UNCHANGED tells
              \/ tells[c] > 0 /\ tells' = Take(tells, c) /\ UNCHANGED asks

Duplicate(c) == /\ \/ asks[c] \in 1 .. Copies - 1 /\ asks' = Put(asks, c) /\ UNCHANGED tells
                   \/ tells[c] \in 1 .. Copies - 1 /\ tells' = Put(tells, c) /\ UNCHANGED asks
                /\ UNCHANGED lost

NetTypeOK == /\ asks \in [Clients -> 0 .. Copies] /\ tells \in [Clients -> 0 .. Copies]
             /\ lost \subseteq Clients
=============================================================================
