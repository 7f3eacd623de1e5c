---------------------------- MODULE PreThreadTcp ----------------------------
(***************************************************************************)
(* mutex_pth_tcp/server.c: main starts a fixed number of workers, and the  *)
(* workers take turns to accept under the mutex LOCK.                      *)
(***************************************************************************)
EXTENDS TcpClients

CONSTANTS Workers,      \* the CLIENTNUM threads
          NoConn,       \* a worker holds no connection
          Nobody        \* LOCK is free

ASSUME WorkersAssumption == NoConn \notin Clients /\ Nobody \notin Workers

VARIABLES main,         \* where main and deal_client are
          lock,         \* the owner of LOCK, a thread that has ended included
          at,           \* worker -> where it is in deal_data
          cur           \* worker -> the connection behind its fd_client

wvars == <<lock, at, cur>>
vars  == <<cvars, main, wvars>>

Init == /\ ClientsInit
        /\ main = "start" /\ lock = Nobody
        /\ at = [w \in Workers |-> "none"]
        /\ cur = [w \in Workers |-> NoConn]

(* socket, bind and listen, lines 80-104. *)
Start == /\ main = "start" /\ main' = "create" /\ Listen
         /\ UNCHANGED <<cpc, backlog, inbox, sent, closed, reset, wvars>>

StartFails == main = "start" /\ main' = "exit" /\ UNCHANGED <<cvars, wvars>>

(* pthread_create in the loop of lines 58-66; the workers already created  *)
(* are running meanwhile.                                                  *)
Create(w) == /\ main = "create" /\ at[w] = "none"
             /\ at' = [at EXCEPT ![w] = "lock"]
             /\ main' = IF \A v \in Workers \ {w} : at[v] # "none"
                        THEN "join" ELSE "create"
             /\ UNCHANGED <<cvars, lock, cur>>

(* deal_client returns: pthread_create has failed, lines 61-65, or all the *)
(* workers are joined, lines 68-71.  Workers that are there still read its *)
(* parameter (line 19); a dead value is a failing accept.                  *)
Return == /\ main \in {"create", "join"}
          /\ main = "join" => \A w \in Workers : at[w] = "end"
          /\ main' = "return" /\ UNCHANGED <<cvars, wvars>>

(* close(fd_server) and return, lines 108-110: the process ends with its   *)
(* threads, its connections are released.                                  *)
Exit == /\ main = "return" /\ main' = "exit"
        /\ StopListening({cur[w] : w \in Workers})
        /\ at' = [w \in Workers |-> "end"]
        /\ cur' = [w \in Workers |-> NoConn]
        /\ UNCHANGED <<cpc, inbox, sent, reset, lock>>

Goto(w, l) == at' = [at EXCEPT ![w] = l]

(* Mutant of Lock: the mutex does not keep anybody out. *)
LockIgnored(w) == /\ at[w] = "lock"
                  /\ lock' = w /\ Goto(w, "accept")
                  /\ UNCHANGED <<cvars, main, cur>>

(* pthread_mutex_lock, line 30. *)
Lock(w) == /\ at[w] = "lock" /\ lock = Nobody
           /\ lock' = w /\ Goto(w, "accept")
           /\ UNCHANGED <<cvars, main, cur>>

(* Mutant of Accept: LOCK is held until the connection is served. *)
AcceptSerial(w) == \E c \in Clients :
  /\ at[w] = "accept" /\ Accepted(c) /\ \A v \in Workers : cur[v] = NoConn
  /\ cur' = [cur EXCEPT ![w] = c] /\ Goto(w, "unlock")
  /\ UNCHANGED <<cpc, listening, inbox, sent, closed, reset, main, lock>>

(* accept, line 31. *)
Accept(w) == \E c \in Clients :
  /\ at[w] = "accept" /\ Accepted(c)
  /\ cur' = [cur EXCEPT ![w] = c] /\ Goto(w, "unlock")
  /\ UNCHANGED <<cpc, listening, inbox, sent, closed, reset, main, lock>>

(* accept fails, lines 32-36: the thread ends and keeps LOCK. *)
AcceptFails(w) == /\ at[w] = "accept" /\ Goto(w, "end")
                  /\ UNCHANGED <<cvars, main, lock, cur>>

(* pthread_mutex_unlock, line 37. *)
Unlock(w) == /\ at[w] = "unlock" /\ lock' = Nobody /\ Goto(w, "recv")
             /\ UNCHANGED <<cvars, main, cur>>

(* Mutant of Receive: strncmp's outcome is not negated. *)
ReceiveInverted(w) ==
  /\ at[w] = "recv" /\ Read(cur[w])
  /\ Goto(w, IF inbox[cur[w]] = "OTHER" THEN "send" ELSE "close")
  /\ UNCHANGED <<cpc, backlog, listening, sent, closed, reset, main, lock, cur>>

(* recv and its test, lines 39-40. *)
Receive(w) ==
  /\ at[w] = "recv" /\ Read(cur[w])
  /\ Goto(w, IF inbox[cur[w]] = "TIME" THEN "send" ELSE "close")
  /\ UNCHANGED <<cpc, backlog, listening, sent, closed, reset, main, lock, cur>>

(* Mutant of SendTime: the answer is sent a second time. *)
SendTimeTwice(w) ==
  /\ at[w] = "send" /\ Sent(cur[w])
  /\ Goto(w, IF sent[cur[w]] = 0 THEN "send" ELSE "close")
  /\ UNCHANGED <<cpc, backlog, listening, inbox, closed, main, lock, cur>>

(* time, ctime and send, lines 42-45. *)
SendTime(w) == /\ at[w] = "send" /\ Sent(cur[w]) /\ Goto(w, "close")
               /\ UNCHANGED <<cpc, backlog, listening, inbox, closed, main, lock, cur>>

(* Mutant of Close: the connection is forgotten and not closed. *)
CloseLeaks(w) ==
  /\ at[w] = "close" /\ cur' = [cur EXCEPT ![w] = NoConn] /\ Goto(w, "lock")
  /\ UNCHANGED <<cvars, main, lock>>

(* close, line 47, and back to the top of the loop. *)
Close(w) == /\ at[w] = "close" /\ Released({cur[w]})
            /\ cur' = [cur EXCEPT ![w] = NoConn] /\ Goto(w, "lock")
            /\ UNCHANGED <<cpc, backlog, listening, inbox, sent, reset, main, lock>>

Work(w)   == Accept(w) \/ Unlock(w) \/ Receive(w) \/ SendTime(w) \/ Close(w)
Client(c) == ClientStep(c) /\ UNCHANGED <<main, wvars>>

(* The lock is held by a thread that has ended: nobody will accept again. *)
Wedged == \E w \in Workers : lock = w /\ at[w] = "end"

(* Nothing is left to do: the process has ended, or the lock is abandoned  *)
(* and main joins for ever while the last clients wait in the queue.       *)
Done == /\ main = "exit" \/ Wedged
        /\ \A c \in Clients : \/ Gone(c) \/ cpc[c] = "refused"
                              \/ cpc[c] = "waiting" /\ c \in Range(backlog)
        /\ UNCHANGED vars

Next == \/ Start \/ StartFails \/ Return \/ Exit \/ Done
        \/ \E w \in Workers : Create(w) \/ Lock(w) \/ AcceptFails(w) \/ Work(w)
        \/ \E c \in Clients : Client(c)

(* The threads are scheduled and creating one succeeds or fails; LOCK is   *)
(* granted to somebody when it is free, with no order among the waiters.   *)
Fairness == /\ WF_vars(Start) /\ WF_vars(Exit)
            /\ WF_vars(Return \/ \E w \in Workers : Create(w))
            /\ WF_vars(\E w \in Workers : Lock(w))
            /\ \A w \in Workers : WF_vars(Work(w))
            /\ ClientFairness

Spec == Init /\ [][Next]_vars /\ Fairness
-----------------------------------------------------------------------------
TypeOK ==
  /\ ClientsTypeOK
  /\ main \in {"start", "create", "join", "return", "exit"}
  /\ lock \in Workers \cup {Nobody}
  /\ at \in [Workers -> {"none", "lock", "accept", "unlock", "recv", "send",
                         "close", "end"}]
  /\ cur \in [Workers -> Clients \cup {NoConn}]

(* One worker at a time is between lock and unlock, also when an accept    *)
(* fails or the process is on its way out (lines 30-37).                   *)
MutualExclusion ==
  \A v, w \in Workers :
    at[v] \in {"accept", "unlock"} /\ at[w] \in {"accept", "unlock"} => v = w

Holds(w) == at[w] \in {"unlock", "recv", "send", "close"}

(* Every connection has one owner: it is queued once, or held by one       *)
(* worker, or released; a connection is never served by two workers, nor   *)
(* lost between accept (line 31) and close (line 47).                      *)
OneOwner == \A c \in Clients :
  LET queued  == {i \in DOMAIN backlog : backlog[i] = c}
      holders == {w \in Workers : Holds(w) /\ cur[w] = c} IN
  /\ cpc[c] \in {"start", "refused"} =>
       queued = {} /\ holders = {} /\ ~closed[c]
  /\ cpc[c] \notin {"start", "refused"} =>
       \/ ~closed[c] /\ holders = {} /\ \E i \in DOMAIN backlog : queued = {i}
       \/ ~closed[c] /\ queued = {} /\ \E w \in Workers : holders = {w}
       \/  closed[c] /\ queued = {} /\ holders = {}

(* A worker answers on a connection its peer has not reset, so SIGPIPE     *)
(* never ends the process (line 45).                                       *)
NoBrokenPipe == \A w \in Workers : at[w] = "send" => cur[w] \notin reset

(* After one failed accept the server is wedged (line 35 returns with LOCK *)
(* held): nothing in the queue is accepted any more, and with a second     *)
(* worker the process does not end either, so the queue keeps filling and  *)
(* whoever is in it stays there.                                           *)
WedgedForGood ==
  [][Wedged => /\ Wedged'
               /\ main = "join" /\ Workers # {lock} => main' = "join"
               /\ main' # "exit" => \A i \in DOMAIN backlog :
                                      i \in DOMAIN backlog' /\ backlog'[i] = backlog[i]]_vars

(* With one worker the failed accept ends the process instead, so that     *)
(* nobody hangs (lines 68-71 and 108-110).                                 *)
OneWorkerEnds == Wedged ~> main = "exit"

(* A prompt client that asks is let go, unless a failed accept has wedged  *)
(* the server or every worker is in a recv whose client stays silent.      *)
OnlyWedgedOrSilent ==
  \A c \in Prompt :
    Asking(c) ~> \/ ~Asking(c)
                 \/ [](c \in Range(backlog) /\ Wedged)
                 \/ [](\A w \in Workers : at[w] = "recv" /\ cur[w] \notin Prompt)

-----------------------------------------------------------------------------
T == INSTANCE TimeService WITH up <- main \in {"create", "join"},
                               phase <- [c \in Clients |-> Phase(c)]

(* Every behaviour of the pool is one of the abstract time service. *)
ImplementsTimeService == T!TimeSpec
=============================================================================
