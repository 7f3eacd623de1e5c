------------------------------ MODULE ForkEcho ------------------------------
(***************************************************************************)
(* c/server.c with its client c/cliet.c: a process per connection answers  *)
(* every read with the number of bytes it got.  The child has no exit: when *)
(* its client is gone it returns from deal_client_info into the accept     *)
(* loop of its parent, on a listening socket it has closed.                *)
(*                                                                         *)
(* A request is at most 1024 bytes, written in one call and read whole.    *)
(***************************************************************************)
EXTENDS Naturals, Sequences, FiniteSets, Functions

CONSTANTS Clients,      \* the processes running cliet.c
          Backlog,      \* connections the accept queue holds, 5 at line 45
          ProcLimit,    \* children the process table has room for
          NoConn        \* sock_cli holds no connection
EchoAssumption == Backlog \in Nat \ {0} /\ ProcLimit \in Nat /\ NoConn \notin Clients

VARIABLES cpc,          \* client -> where cliet.c is
          backlog,      \* connections established and not accepted
          inbox,        \* client -> requests waiting at the server's end
          outbox,       \* client -> answers waiting at the client's end
          held,         \* client -> processes with a copy of its connection
          reset,        \* connections on which one end has met the other gone
          par, cur,     \* the parent: where it is, its sock_cli
          kid           \* client -> its child

cvars == <<cpc, backlog, inbox, outbox, reset>>
pvars == <<par, cur>>
vars  == <<cvars, pvars, held, kid>>

Children  == {c \in Clients : kid[c] # "none"}
Accepted(c) == cpc[c] \notin {"start", "refused"} /\ c \notin Range(backlog) /\ cur # c

Init == /\ cpc = [c \in Clients |-> "start"] /\ backlog = <<>>
        /\ inbox = [c \in Clients |-> 0] /\ outbox = [c \in Clients |-> 0]
        /\ held = [c \in Clients |-> {}] /\ reset = {}
        /\ par = "boot" /\ cur = NoConn /\ kid = [c \in Clients |-> "none"]

-----------------------------------------------------------------------------
(* The client. *)
Is(c, from, to) == cpc[c] = from /\ cpc' = [cpc EXCEPT ![c] = to]

Connect(c) == /\ Is(c, "start", "typing") /\ Len(backlog) < Backlog
              /\ par \notin {"boot", "exit"}
              /\ backlog' = Append(backlog, c)
              /\ UNCHANGED <<inbox, outbox, reset>>

ConnectFails(c) == /\ Is(c, "start", "refused")
                   /\ UNCHANGED <<backlog, inbox, outbox, reset>>

(* The server's end is closed: nothing holds it and nobody will. *)
Cut(c) == Accepted(c) /\ held[c] = {}

(* A line from stdin is written, lines 53-57.  On a cut connection the     *)
(* first write meets a reset and the second one kills the client.          *)
Write(c) ==
  /\ Is(c, "typing", IF Cut(c) /\ c \in reset THEN "dead" ELSE "waiting")
  /\ inbox' = [inbox EXCEPT ![c] = IF Cut(c) THEN @ ELSE @ + 1]
  /\ reset' = IF Cut(c) THEN reset \cup {c} ELSE reset
  /\ UNCHANGED <<backlog, outbox>>

(* The answer is read and shown, lines 58-59; a cut connection ends the    *)
(* read too, and the loop goes on.                                         *)
Show(c) == /\ Is(c, "waiting", "typing") /\ (outbox[c] > 0 \/ Cut(c))
           /\ outbox' = [outbox EXCEPT ![c] = 0]
           /\ UNCHANGED <<backlog, inbox, reset>>

(* The loop of cliet.c has no exit: a client ends by being killed.  Unread *)
(* answers make its end a reset.                                           *)
Kill(c) == /\ cpc[c] \in {"typing", "waiting"} /\ cpc' = [cpc EXCEPT ![c] = "dead"]
           /\ reset' = IF outbox[c] > 0 THEN reset \cup {c} ELSE reset
           /\ UNCHANGED <<backlog, inbox, outbox>>

ClientStep(c) == (Connect(c) \/ ConnectFails(c) \/ Write(c) \/ Show(c) \/ Kill(c))
                 /\ UNCHANGED <<pvars, held, kid>>

-----------------------------------------------------------------------------
(* The parent: socket, bind and listen, lines 22-50, or main returns -1.   *)
Start == par = "boot" /\ par' = "accept" /\ UNCHANGED <<cvars, cur, held, kid>>

StartFails == par = "boot" /\ par' = "exit" /\ UNCHANGED <<cvars, cur, held, kid>>

Accept == /\ par = "accept" /\ backlog # <<>> /\ par' = "fork"
          /\ cur' = Head(backlog) /\ backlog' = Tail(backlog)
          /\ held' = [held EXCEPT ![Head(backlog)] = {"parent"}]
          /\ UNCHANGED <<cpc, inbox, outbox, reset, kid>>

(* accept fails, lines 58-63: back to accept. *)
AcceptFails == par = "accept" /\ UNCHANGED vars

(* fork, line 65: the child has a copy of the connection. *)
Fork == /\ par = "fork" /\ Cardinality(Children) < ProcLimit
        /\ kid' = [kid EXCEPT ![cur] = "read"]
        /\ held' = [held EXCEPT ![cur] = @ \cup {"kid"}]
        /\ par' = "close" /\ UNCHANGED <<cvars, cur>>

(* fork fails: pid is -1 and the parent takes its own branch, line 71. *)
ForkFails == par = "fork" /\ par' = "close" /\ UNCHANGED <<cvars, cur, held, kid>>

ParentClose == /\ par = "close" /\ held' = [held EXCEPT ![cur] = @ \ {"parent"}]
               /\ par' = "accept" /\ cur' = NoConn /\ UNCHANGED <<cvars, kid>>

Parent == Start \/ Accept \/ Fork \/ ForkFails \/ ParentClose

-----------------------------------------------------------------------------
(* The child. *)
Becomes(c, to) == kid' = [kid EXCEPT ![c] = to]

(* read returns 0 and deal_client_info returns, lines 90-94: the child is  *)
(* in the accept loop (lines 54-63), on a closed socket, for ever.         *)
KidEnd(c) ==
  /\ kid[c] = "read" /\ cpc[c] = "dead" /\ inbox[c] = 0 /\ c \notin reset
  /\ Becomes(c, "spin") /\ UNCHANGED <<cvars, pvars, held>>

(* read returns a request, or an error on a reset connection, which is not *)
(* looked at, line 88.                                                     *)
KidRead(c) ==
  /\ kid[c] = "read" /\ (inbox[c] > 0 \/ c \in reset)
  /\ inbox' = [inbox EXCEPT ![c] = 0] /\ Becomes(c, "write")
  /\ UNCHANGED <<cpc, backlog, outbox, reset, pvars, held>>

(* write, line 97; to a client that has gone it brings back a reset. *)
KidWrite(c) ==
  /\ kid[c] = "write" /\ c \notin reset /\ Becomes(c, "read")
  /\ outbox' = [outbox EXCEPT ![c] = IF cpc[c] = "dead" THEN @ ELSE @ + 1]
  /\ reset' = IF cpc[c] = "dead" THEN reset \cup {c} ELSE reset
  /\ UNCHANGED <<cpc, backlog, inbox, pvars, held>>

(* write after a reset raises SIGPIPE; nobody waits for the child. *)
KidPipe(c) == /\ kid[c] = "write" /\ c \in reset /\ Becomes(c, "zombie")
              /\ held' = [held EXCEPT ![c] = @ \ {"kid"}]
              /\ UNCHANGED <<cvars, pvars>>

Kid(c) == KidEnd(c) \/ KidRead(c) \/ KidWrite(c) \/ KidPipe(c)

Next == Parent \/ StartFails \/ AcceptFails \/ \E c \in Clients : ClientStep(c) \/ Kid(c)

(* Processes are scheduled; a client that waits for its answer reads it.   *)
Fairness == WF_vars(Parent)
            /\ \A c \in Clients : WF_vars(Kid(c)) /\ WF_vars(Show(c) /\ UNCHANGED <<pvars, held, kid>>)
Spec == Init /\ [][Next]_vars /\ Fairness

-----------------------------------------------------------------------------
TypeOK ==
  /\ cpc \in [Clients -> {"start", "refused", "typing", "waiting", "dead"}]
  /\ backlog \in Seq(Clients) /\ Len(backlog) <= Backlog
  /\ inbox \in [Clients -> 0 .. 1] /\ outbox \in [Clients -> 0 .. 1]
  /\ held \in [Clients -> SUBSET {"parent", "kid"}] /\ reset \subseteq Clients
  /\ par \in {"boot", "accept", "fork", "close", "exit"} /\ cur \in Clients \cup {NoConn}
  /\ kid \in [Clients -> {"none", "read", "write", "spin", "zombie"}]

Alive(c) == cpc[c] \in {"typing", "waiting"}
Serves(c) == kid[c] \in {"read", "write"}

(* A client that is there loses its connection only to a fork that failed: *)
(* the parent's close never cuts the child off, and the child of a client  *)
(* that is there is serving it (lines 66-74, 86-98).                       *)
CutOnlyByFailedFork == \A c \in Clients : Alive(c) /\ Accepted(c) =>
  IF kid[c] = "none" THEN held[c] = {} ELSE held[c] = {"kid"} /\ Serves(c)

(* One answer per request and none besides: of a served client that waits  *)
(* exactly one message is under way, of one that types none.               *)
OneUnderWay == \A c \in Clients : Alive(c) /\ Serves(c) =>
  inbox[c] + outbox[c] + (IF kid[c] = "write" THEN 1 ELSE 0)
    = (IF cpc[c] = "waiting" THEN 1 ELSE 0)

(* Every client that comes and goes costs the server a process for good:   *)
(* its child spins in the accept loop, or is a zombie nobody waits for.    *)
EveryVisitCostsAProcess == \A c \in Clients :
  (cpc[c] = "dead" /\ Serves(c)) ~> [](kid[c] \in {"spin", "zombie"})

(* A request to a child is answered as long as the client stays.           *)
Answered == \A c \in Clients : (cpc[c] = "waiting" /\ Serves(c)) ~> (cpc[c] # "waiting")

(* Once the table is full everybody else is accepted and dropped.          *)
FullDrops == \A c \in Clients :
  (par = "fork" /\ cur = c /\ Cardinality(Children) = ProcLimit) ~> Cut(c)
=============================================================================
