------------------------------ MODULE UdpEcho ------------------------------
(***************************************************************************)
(* The UDP echo programs c/udp/server.c and c/udp/client.c.  What a buffer *)
(* or a datagram holds is a sequence of words.  The server takes strlen of *)
(* its empty buffer for its room (server.c:13), the client that of the     *)
(* words it sends.  The client's socket is connected, so it hears of a     *)
(* port nobody has bound.                                                  *)
(***************************************************************************)
EXTENDS UdpNet, Sequences

CONSTANT NoClient

VARIABLES srv, hand,            \* as in UdpTime; bind is not checked at all
          sbuf, size,           \* the server's buffer and what recvfrom returned
          echoes,               \* client -> what the echoes sent to it held
          cpc,                  \* client -> where client.c is
          buf,                  \* client -> its buffer
          shown,                \* client -> what it has printed
          refused               \* clients told that the port is not bound

served == <<sbuf, size, echoes>>
vars == <<net, srv, hand, served, cpc, buf, shown, refused>>

(* What the buffers hold at first: client.c:10 and server.c:11. *)
Hello == <<"HELLO", "UDP">>
Nothing == <<>>

(* recvfrom into a buffer with room for len: the rest of the datagram w is *)
(* dropped, and what was behind it in the buffer b stays.                  *)
Kept(w, len) == SubSeq(w, 1, IF Len(w) < len THEN Len(w) ELSE len)
Over(w, b) == w \o SubSeq(b, Len(w) + 1, Len(b))

Init == /\ NetInit /\ srv = "boot" /\ hand = NoClient /\ refused = {}
        /\ sbuf = Nothing /\ size = 0 /\ echoes = [c \in Clients |-> {}]
        /\ cpc = [c \in Clients |-> "start"]
        /\ buf = [c \in Clients |-> Hello]
        /\ shown = [c \in Clients |-> Nothing]

Is(c, from, to) == cpc[c] = from /\ cpc' = [cpc EXCEPT ![c] = to]

Send(c) == Is(c, "start", "waiting") /\ asks' = Put(asks, c)
           /\ UNCHANGED <<tells, lost, srv, hand, served, buf, shown, refused>>

SocketFails(c) == Is(c, "start", "failed")
                  /\ UNCHANGED <<net, srv, hand, served, buf, shown, refused>>

(* Mutant of Recv: buf is emptied before the answer is taken. *)
RecvClears(c) == /\ Is(c, "waiting", "print") /\ tells[c] > 0 /\ tells' = Take(tells, c)
                 /\ \E w \in echoes[c] : buf' = [buf EXCEPT ![c] = Over(Kept(w, Len(Hello)), Nothing)]
                 /\ UNCHANGED <<asks, lost, srv, hand, served, shown, refused>>

(* recvfrom, line 17: an echo is written over buf, as far as it reaches;   *)
(* the error leaves buf alone.                                             *)
Recv(c) == /\ Is(c, "waiting", "print")
           /\ \/ /\ tells[c] > 0 /\ tells' = Take(tells, c) /\ UNCHANGED refused
                 /\ \E w \in echoes[c] : buf' = [buf EXCEPT ![c] = Over(Kept(w, Len(Hello)), buf[c])]
              \/ c \in refused /\ refused' = refused \ {c} /\ UNCHANGED <<tells, buf>>
           /\ UNCHANGED <<asks, lost, srv, hand, served, shown>>

(* printf of buf, whatever recvfrom has returned, line 19. *)
ShowBuf(c) == Is(c, "print", "done") /\ shown' = [shown EXCEPT ![c] = buf[c]]
              /\ UNCHANGED <<net, srv, hand, served, buf, refused>>

SocketFailed == srv = "boot" /\ srv' = "exit"
                /\ UNCHANGED <<net, hand, served, cpc, buf, shown, refused>>

Bind == srv = "boot" /\ srv' \in {"bound", "deaf"}
        /\ UNCHANGED <<net, hand, served, cpc, buf, shown, refused>>

Unreachable(c) == /\ srv # "bound" /\ asks[c] > 0 /\ asks' = Take(asks, c)
                  /\ refused' = IF cpc[c] = "waiting" THEN refused \cup {c} ELSE refused
                  /\ UNCHANGED <<tells, lost, srv, hand, served, cpc, buf, shown>>

(* recvfrom, line 19: of the words that came it keeps as many as there     *)
(* were in the buffer to begin with, line 13.                              *)
Receive(c) == /\ srv = "bound" /\ hand = NoClient /\ asks[c] > 0
              /\ asks' = Take(asks, c) /\ hand' = c
              /\ size' = Len(Kept(Hello, Len(Nothing)))
              /\ sbuf' = Over(Kept(Hello, Len(Nothing)), sbuf)
              /\ UNCHANGED <<tells, lost, srv, echoes, cpc, buf, shown, refused>>

(* Mutant of Echo: the server takes an empty datagram for the end. *)
EchoStops == /\ hand # NoClient /\ hand' = NoClient
             /\ IF size = 0 THEN srv' = "exit" /\ UNCHANGED <<tells, echoes>>
                ELSE /\ tells' = Put(tells, hand) /\ UNCHANGED srv
                     /\ echoes' = [echoes EXCEPT ![hand] = @ \cup {SubSeq(sbuf, 1, size)}]
             /\ UNCHANGED <<asks, lost, sbuf, size, cpc, buf, shown, refused>>

(* sendto of what was received, line 21. *)
Echo == /\ hand # NoClient /\ tells' = Put(tells, hand) /\ hand' = NoClient
        /\ echoes' = [echoes EXCEPT ![hand] = @ \cup {SubSeq(sbuf, 1, size)}]
        /\ UNCHANGED <<asks, lost, srv, sbuf, size, cpc, buf, shown, refused>>

Faults(c) == (Lose(c) \/ Duplicate(c)) /\ UNCHANGED <<srv, hand, served, cpc, buf, shown, refused>>

Next == \/ SocketFailed \/ Bind \/ Echo
        \/ \E c \in Clients : \/ Send(c) \/ SocketFails(c) \/ Recv(c) \/ ShowBuf(c)
                              \/ Unreachable(c) \/ Receive(c) \/ Faults(c)

Fairness == /\ WF_vars(Echo) /\ WF_vars(SocketFailed \/ Bind)
            /\ \A c \in Clients : /\ SF_vars(Receive(c)) /\ WF_vars(Unreachable(c))
                                  /\ WF_vars(Recv(c) \/ ShowBuf(c))
Spec == Init /\ [][Next]_vars /\ Fairness

-----------------------------------------------------------------------------

(* A server that is up, one whose bind has failed and none at all look the *)
(* same to the user: the echo server sends nothing back of what it was     *)
(* sent, so whatever ends the wait, over whatever network, the client      *)
(* prints the words that were in its buffer before.                        *)
PrintsItsOwnWords == \A c \in Clients : /\ cpc[c] = "done" => shown[c] = Hello
                                        /\ \A w \in echoes[c] : Len(w) = 0

(* Since the socket is connected, only a datagram lost on the way keeps a  *)
(* client waiting; a server that is not there does not.                    *)
OnlyLossHangs == \A c \in Clients :
  (cpc[c] = "waiting") ~> (cpc[c] = "done" \/ c \in lost)
=============================================================================
