----------------------------- MODULE TcpClients -----------------------------
(***************************************************************************)
(* The client program of the TCP time servers (client.c, the same file in  *)
(* all the *_tcp directories) and the part of the kernel's socket layer    *)
(* that the servers use: the listening socket with its accept queue, and   *)
(* one connection per client.  The server modules extend this one and add  *)
(* the server's own control state.                                         *)
(*                                                                         *)
(* A client sends one short request and reads once, so a connection holds  *)
(* at most one request and the answers are only counted.                   *)
(***************************************************************************)
EXTENDS Naturals, Sequences, Functions

CONSTANTS Clients,      \* the processes running client.c
          TimeClients,  \* those that send "TIME" (client.c:39); the others
                        \* are programs the strncmp of the servers turns down
          Prompt,       \* those that are scheduled: only these get fairness
          Backlog       \* connections the accept queue holds

ASSUME ClientsAssumption == /\ TimeClients \subseteq Clients
                            /\ Prompt \subseteq Clients
                            /\ Backlog \in Nat \ {0}

VARIABLES
  cpc,        \* client -> where client.c is
  backlog,    \* connections established and not accepted, oldest first
  listening,  \* the listening socket is open
  inbox,      \* client -> the bytes waiting at the server's end
  sent,       \* client -> answers sent on its connection so far
  closed,     \* client -> the server's end of its connection is released
  reset       \* connections whose peer has answered with a reset

netvars == <<backlog, listening, inbox, sent, closed, reset>>
cvars   == <<cpc, netvars>>

Request(c)  == IF c \in TimeClients THEN "TIME" ELSE "OTHER"
Gone(c)     == cpc[c] \in {"answered", "eof", "killed"}
Asking(c)   == cpc[c] \in {"connected", "waiting"}

ClientsTypeOK ==
  /\ cpc \in [Clients -> {"start", "refused", "connected", "waiting",
                          "answered", "eof", "killed"}]
  /\ backlog \in Seq(Clients) /\ Len(backlog) <= Backlog
  /\ listening \in BOOLEAN
  /\ inbox \in [Clients -> {"none", "TIME", "OTHER"}]
  /\ sent \in [Clients -> Nat]
  /\ closed \in [Clients -> BOOLEAN]
  /\ reset \in SUBSET Clients

ClientsInit ==
  /\ cpc = [c \in Clients |-> "start"]
  /\ backlog = <<>> /\ listening = FALSE
  /\ inbox = [c \in Clients |-> "none"]
  /\ sent = [c \in Clients |-> 0]
  /\ closed = [c \in Clients |-> FALSE]
  /\ reset = {}

-----------------------------------------------------------------------------
(* client.c *)

(* connect, lines 31-36: the connection is queued at the listening socket. *)
Connect(c) ==
  /\ cpc[c] = "start" /\ listening /\ Len(backlog) < Backlog
  /\ cpc' = [cpc EXCEPT ![c] = "connected"]
  /\ backlog' = Append(backlog, c)
  /\ UNCHANGED <<listening, inbox, sent, closed, reset>>

(* The client returns -1: socket fails, or connect does, because nobody    *)
(* listens or the accept queue stays full for as long as the kernel        *)
(* retries; the first may happen whoever listens.                          *)
ConnectFails(c) ==
  /\ cpc[c] = "start"
  /\ cpc' = [cpc EXCEPT ![c] = "refused"]
  /\ UNCHANGED netvars

(* send, lines 38-40; its result is ignored, so a connection the server    *)
(* has released only loses the request.                                    *)
Send(c) ==
  /\ cpc[c] = "connected"
  /\ cpc' = [cpc EXCEPT ![c] = "waiting"]
  /\ inbox' = [inbox EXCEPT ![c] = IF closed[c] THEN "none" ELSE Request(c)]
  /\ UNCHANGED <<backlog, listening, sent, closed, reset>>

(* recv and close, lines 41-50: the answer if there is one, otherwise the  *)
(* end of the connection; the program ends.                                *)
Recv(c) ==
  /\ cpc[c] = "waiting" /\ (sent[c] > 0 \/ closed[c])
  /\ cpc' = [cpc EXCEPT ![c] = IF sent[c] > 0 THEN "answered" ELSE "eof"]
  /\ UNCHANGED netvars

(* The client is killed; its kernel closes the connection, with a reset if *)
(* an answer was never read.                                               *)
Kill(c) ==
  /\ Asking(c)
  /\ cpc' = [cpc EXCEPT ![c] = "killed"]
  /\ reset' = IF sent[c] > 0 THEN reset \cup {c} ELSE reset
  /\ UNCHANGED <<backlog, listening, inbox, sent, closed>>

ClientStep(c) == Connect(c) \/ ConnectFails(c) \/ Send(c) \/ Recv(c) \/ Kill(c)

(* The operating system schedules the clients of Prompt. *)
ClientFairness == \A c \in Prompt : WF_cvars(Send(c)) /\ WF_cvars(Recv(c))

-----------------------------------------------------------------------------
(* The kernel's side of the servers' socket calls.  Each operator says what *)
(* a call makes of the network variables it names; the server module says   *)
(* which others are unchanged.                                              *)

(* listen succeeds *)
Listen == listening' = TRUE

(* accept hands out the oldest connection, dead or alive. *)
Accepted(c) == /\ backlog # <<>> /\ c = Head(backlog)
               /\ backlog' = Tail(backlog)

(* recv on c's connection returns: there is data, or the peer has closed. *)
Readable(c) == inbox[c] # "none" \/ Gone(c)
Read(c)     == Readable(c) /\ inbox' = [inbox EXCEPT ![c] = "none"]

(* send on c's connection: a peer that is gone answers with a reset. *)
Sent(c) == /\ sent' = [sent EXCEPT ![c] = @ + 1]
           /\ reset' = IF Gone(c) THEN reset \cup {c} ELSE reset

(* The last reference to the connections of S goes away. *)
Released(S) == closed' = [c \in Clients |-> closed[c] \/ c \in S]

(* The listening socket goes away with the connections of its queue and,   *)
(* when a process exits, with those in S.                                  *)
StopListening(S) == /\ listening' = FALSE /\ backlog' = <<>>
                    /\ Released(S \cup Range(backlog))
-----------------------------------------------------------------------------
(* One answer per request: a connection carries at most one answer, only   *)
(* when it asked for the time, and the answer stands for a request that    *)
(* was taken off the connection (recv, strncmp and send of the servers).   *)
OneAnswer == \A c \in Clients :
  /\ sent[c] <= 1
  /\ sent[c] = 1 => c \in TimeClients /\ inbox[c] = "none"

(* c's request as the abstract time service sees it. *)
Phase(c) == CASE cpc[c] = "start" -> "out"
              [] cpc[c] = "refused" -> "turned away"
              [] Asking(c) -> "asking"
              [] cpc[c] = "answered" -> "answered"
              [] cpc[c] = "eof" -> "dropped"
              [] cpc[c] = "killed" -> "left"
=============================================================================
