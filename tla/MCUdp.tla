------------------------------- MODULE MCUdp -------------------------------
(***************************************************************************)
(* The two UDP servers for TLC, one a behaviour: Init chooses it, and the  *)
(* variables of the other stay as they begin.                              *)
(***************************************************************************)
EXTENDS UdpTime, Sequences

CONSTANT EchoClients    \* the clients that run the echo client

VARIABLES program, eAsks, eTells, eLost, eSrv, eHand, sbuf, size, echoes, eCpc, buf, shown, refused
echoVars == <<eAsks, eTells, eLost, eSrv, eHand, sbuf, size, echoes, eCpc, buf, shown, refused>>

EC == INSTANCE UdpEcho WITH Clients <- EchoClients,
        asks <- eAsks, tells <- eTells, lost <- eLost, srv <- eSrv, hand <- eHand, cpc <- eCpc

MCInit == program \in {"time", "echo"} /\ Init /\ EC!Init

Time == program = "time" /\ UNCHANGED <<program, echoVars>>
Echo == program = "echo" /\ UNCHANGED <<program, vars>>

(* Steps of the two programs share a fairness condition, since a behaviour *)
(* runs one of them.                                                       *)
Starting == \/ Time /\ (SocketFailed \/ BindFailed \/ Bind)
            \/ Echo /\ (EC!SocketFailed \/ EC!Bind)
Answering   == (Time /\ SendTime) \/ (Echo /\ EC!Echo)
Taking(c)   == (Time /\ Receive(c)) \/ (Echo /\ c \in EchoClients /\ EC!Receive(c))
Hearing(c)  == (Time /\ Recv(c)) \/ (Echo /\ c \in EchoClients /\ (EC!Recv(c) \/ EC!ShowBuf(c)))
Dropping(c) == (Time /\ Unreachable(c)) \/ (Echo /\ c \in EchoClients /\ EC!Unreachable(c))

MCNext == (Time /\ Next) \/ (Echo /\ EC!Next)
MCvars == <<program, vars, echoVars>>
MCSpec == /\ MCInit /\ [][MCNext]_MCvars
          /\ WF_MCvars(Starting) /\ WF_MCvars(Answering)
          /\ \A c \in Clients : SF_MCvars(Taking(c)) /\ WF_MCvars(Hearing(c)) /\ WF_MCvars(Dropping(c))

-----------------------------------------------------------------------------
(* The values of the time server stay in their ranges, and a client of the *)
(* echo server prints its own words whatever came (client.c:17-19), since  *)
(* the server has no room for any (server.c:13-21).                        *)
DatagramsHold == /\ program = "time" => TypeOK
                 /\ program = "echo" => EC!PrintsItsOwnWords

(* Only a lost datagram keeps an echo client waiting: its socket is        *)
(* connected and hears of a server that is not there.                      *)
OnlyLossHangs == program = "echo" => EC!OnlyLossHangs
=============================================================================
