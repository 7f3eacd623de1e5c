------------------------ MODULE PreThreadTcpProofs ------------------------
(***************************************************************************)
(* Proofs about mutex_pth_tcp/server.c, for every number of clients and of *)
(* workers and every length of the accept queue.                           *)
(***************************************************************************)
EXTENDS PreThreadTcp, TcpClientsProofs

(* A worker that serves has a connection to serve: without it the types    *)
(* alone are not inductive, since send would mark an unknown connection.   *)
HasConnection == \A w \in Workers : Holds(w) => cur[w] \in Clients
TypeInv       == TypeOK /\ HasConnection

LEMMA TypeStep == TypeInv /\ [Next]_vars => TypeInv'
<1> SUFFICES ASSUME TypeInv, [Next]_vars PROVE TypeInv'
  OBVIOUS
<1> USE WorkersAssumption
<1>1. CASE UNCHANGED vars \/ Done
  BY <1>1 DEF Done, vars, cvars, netvars, wvars, ClientsTypeOK, TypeInv, TypeOK,
              HasConnection, Holds
<1>2. CASE Start \/ StartFails \/ Return
  BY <1>2 DEF Start, StartFails, Return, Listen, cvars, netvars, wvars,
              ClientsTypeOK, TypeInv, TypeOK, HasConnection, Holds
<1>3. CASE Exit
  <2>1. backlog' \in Seq(Clients) /\ Len(backlog') <= Backlog
    BY <1>3, ClientsAssumption DEF Exit, StopListening
  <2> QED BY <1>3, <2>1 DEF Exit, StopListening, Released, ClientsTypeOK, TypeInv,
                            TypeOK, HasConnection, Holds
<1>4. ASSUME NEW w \in Workers, Create(w) \/ Lock(w) \/ AcceptFails(w) \/ Unlock(w)
      PROVE  TypeInv'
  BY <1>4 DEF Create, Lock, AcceptFails, Unlock, Goto, cvars, netvars, ClientsTypeOK,
              TypeInv, TypeOK, HasConnection, Holds
<1>5. ASSUME NEW w \in Workers, Accept(w) PROVE TypeInv'
  <2>1. PICK c \in Clients : /\ Accepted(c)
                             /\ cur' = [cur EXCEPT ![w] = c] /\ Goto(w, "unlock")
                             /\ UNCHANGED <<cpc, listening, inbox, sent, closed,
                                            reset, main, lock>>
    BY <1>5 DEF Accept
  <2>2. backlog' \in Seq(Clients) /\ Len(backlog') <= Backlog
    BY <2>1, ClientsAssumption, AcceptedQueue DEF ClientsTypeOK, TypeInv, TypeOK
  <2> QED BY <2>1, <2>2 DEF ClientsTypeOK, Goto, TypeInv, TypeOK, HasConnection, Holds
<1>6. ASSUME NEW w \in Workers, Receive(w) PROVE TypeInv'
  BY <1>6 DEF Receive, Read, Goto, ClientsTypeOK, TypeInv, TypeOK, HasConnection, Holds
<1>7. ASSUME NEW w \in Workers, SendTime(w) PROVE TypeInv'
  <2>1. cur[w] \in Clients
    BY <1>7 DEF SendTime, TypeInv, HasConnection, Holds
  <2>2. sent' \in [Clients -> Nat] /\ reset' \in SUBSET Clients
    BY <1>7, <2>1 DEF SendTime, Sent, ClientsTypeOK, TypeInv, TypeOK
  <2> QED BY <1>7, <2>2 DEF SendTime, Goto, ClientsTypeOK, TypeInv, TypeOK,
                            HasConnection, Holds
<1>8. ASSUME NEW w \in Workers, Close(w) PROVE TypeInv'
  BY <1>8 DEF Close, Released, Goto, ClientsTypeOK, TypeInv, TypeOK, HasConnection, Holds
<1>9. ASSUME NEW c \in Clients, Client(c) PROVE TypeInv'
  BY <1>9, ClientStepType DEF Client, wvars, TypeInv, TypeOK, HasConnection, Holds
<1> QED BY <1>1, <1>2, <1>3, <1>4, <1>5, <1>6, <1>7, <1>8, <1>9 DEF Next, Work

LEMMA InitTyped == Init => TypeInv
  BY InitType DEF Init, TypeInv, TypeOK, HasConnection, Holds

LEMMA TypedAlways == Spec => []TypeInv
  BY InitTyped, TypeStep, PTL DEF Spec

(* The variables of the pool never leave their types.                      *)
THEOREM TypeCorrect == Spec => []TypeOK
<1>1. TypeInv => TypeOK
  BY DEF TypeInv
<1> QED BY <1>1, TypedAlways, PTL

-----------------------------------------------------------------------------
(* A worker between lock and unlock owns LOCK, and so does a worker that   *)
(* has ended, since only a failed accept ends one while the process runs.  *)
OwnsLock == \A w \in Workers :
  at[w] \in {"accept", "unlock"} \/ (at[w] = "end" /\ main # "exit") => lock = w

LEMMA OwnsLockStep == TypeOK /\ OwnsLock /\ [Next]_vars => OwnsLock'
<1> SUFFICES ASSUME TypeOK, OwnsLock, [Next]_vars PROVE OwnsLock'
  OBVIOUS
<1> USE WorkersAssumption DEF TypeOK, OwnsLock
<1>1. CASE UNCHANGED vars \/ Done \/ Start \/ StartFails \/ Return
  BY <1>1 DEF Done, Start, StartFails, Return, vars, wvars
<1>2. CASE Exit
  BY <1>2 DEF Exit
<1>3. ASSUME NEW w \in Workers, Create(w) \/ AcceptFails(w) PROVE OwnsLock'
  BY <1>3 DEF Create, AcceptFails, Goto
<1>4. ASSUME NEW w \in Workers, Lock(w) PROVE OwnsLock'
  BY <1>4 DEF Lock, Goto
<1>5. ASSUME NEW w \in Workers, Unlock(w) PROVE OwnsLock'
  BY <1>5 DEF Unlock, Goto
<1>6. ASSUME NEW w \in Workers, Accept(w) PROVE OwnsLock'
  BY <1>6 DEF Accept, Goto
<1>7. ASSUME NEW w \in Workers, Receive(w) \/ SendTime(w) \/ Close(w) PROVE OwnsLock'
  BY <1>7 DEF Receive, SendTime, Close, Goto
<1>8. ASSUME NEW c \in Clients, Client(c) PROVE OwnsLock'
  BY <1>8 DEF Client, wvars
<1> QED BY <1>1, <1>2, <1>3, <1>4, <1>5, <1>6, <1>7, <1>8 DEF Next, Work

LEMMA OwnsLockAlways == Spec => []OwnsLock
<1>1. Init => OwnsLock
  BY DEF Init, OwnsLock
<1> QED BY <1>1, OwnsLockStep, TypeCorrect, PTL DEF Spec

(* At most one worker is inside accept's critical section, whatever fails  *)
(* and however many workers there are (lines 30-37).                       *)
THEOREM AcceptsExclude == Spec => []MutualExclusion
<1>1. OwnsLock => MutualExclusion
  BY DEF OwnsLock, MutualExclusion
<1> QED BY <1>1, OwnsLockAlways, PTL

(* A failed accept wedges the server for good, with any number of workers: *)
(* the queue only grows, and main joins for ever unless the worker that    *)
(* ended was the only one (lines 32-36 and 68-71).                         *)
THEOREM FailedAcceptWedges == Spec => WedgedForGood
<1> DEFINE Kept == /\ Wedged'
                   /\ main = "join" /\ Workers # {lock} => main' = "join"
                   /\ main' # "exit" => \A i \in DOMAIN backlog :
                        i \in DOMAIN backlog' /\ backlog'[i] = backlog[i]
<1>1. TypeInv /\ OwnsLock /\ Wedged /\ [Next]_vars => Kept
  <2> SUFFICES ASSUME TypeInv, OwnsLock, Wedged, [Next]_vars PROVE Kept
    OBVIOUS
  <2>0. PICK e \in Workers : lock = e /\ at[e] = "end"
    BY DEF Wedged
  <2> USE WorkersAssumption
  <2>1. CASE UNCHANGED vars \/ Done \/ Start \/ StartFails
    BY <2>0, <2>1 DEF Done, Start, StartFails, vars, cvars, netvars,
                      wvars, Wedged
  <2>2. CASE Return
    BY <2>0, <2>2 DEF Return, OwnsLock, Wedged, cvars, netvars, wvars
  <2>3. CASE Exit
    BY <2>0, <2>3 DEF Exit, Wedged
  <2>4. ASSUME NEW w \in Workers,
               \/ Create(w) \/ Lock(w) \/ AcceptFails(w) \/ Accept(w) \/ Unlock(w)
        PROVE  Kept
    <3>1. at[w] \notin {"accept", "unlock"} \/ w = e
      BY <2>0 DEF OwnsLock
    <3>2. Create(w) /\ w # e
      BY <2>0, <2>4, <3>1 DEF Create, Lock, AcceptFails, Accept, Unlock
    <3> QED BY <2>0, <3>2 DEF Create, Wedged, cvars, netvars, TypeInv, TypeOK
  <2>5. ASSUME NEW w \in Workers, Receive(w) \/ SendTime(w) \/ Close(w) PROVE Kept
    BY <2>0, <2>5 DEF Receive, SendTime, Close, Goto, Wedged, TypeInv, TypeOK
  <2>6. ASSUME NEW c \in Clients, Client(c) PROVE Kept
    <3>1. UNCHANGED wvars /\ UNCHANGED main
      BY <2>6 DEF Client
    <3>2. \A i \in DOMAIN backlog : i \in DOMAIN backlog' /\ backlog'[i] = backlog[i]
      <4>1. CASE Connect(c)
        BY <4>1, ConnectQueue DEF TypeInv, TypeOK
      <4>2. CASE ~Connect(c)
        BY <2>6, <4>2 DEF Client, ClientStep, ConnectFails, Send, Recv, Kill, netvars
      <4> QED BY <4>1, <4>2
    <3> QED BY <2>0, <3>1, <3>2 DEF Wedged, wvars
  <2> QED BY <2>1, <2>2, <2>3, <2>4, <2>5, <2>6 DEF Next, Work
<1> QED BY <1>1, TypedAlways, OwnsLockAlways, PTL DEF Spec, WedgedForGood

-----------------------------------------------------------------------------
(* The inductive form of OneOwner: with the queue's own invariant, the     *)
(* owners exclude each other, and every connection that is open has one.   *)
HeldOpen    == \A w \in Workers : Holds(w) =>
                 ~Unmade(cur[w]) /\ ~closed[cur[w]] /\ ~Queued(cur[w])
HeldOnce    == \A v, w \in Workers : Holds(v) /\ Holds(w) /\ cur[v] = cur[w] => v = w
IdleIsEmpty == \A w \in Workers : ~Holds(w) => cur[w] = NoConn
Held(c)     == \E w \in Workers : Holds(w) /\ cur[w] = c
OpenIsOwned == \A c \in Clients : ~Unmade(c) /\ ~closed[c] => Queued(c) \/ Held(c)

OwnerInv == TypeInv /\ QueueInv /\ HeldOpen /\ HeldOnce /\ IdleIsEmpty /\ OpenIsOwned

(* A step that leaves the queue, the holders and the connections that are  *)
(* made and released as they are keeps the invariant.                      *)
LEMMA OwnersUntouched ==
  ASSUME OwnerInv, TypeInv', UNCHANGED <<backlog, closed, cur>>,
         \A w \in Workers : Holds(w)' = Holds(w),
         \A c \in Clients : Unmade(c)' = Unmade(c)
  PROVE  OwnerInv'
<1>1. QueueInv'
  BY QueueKept DEF OwnerInv, TypeInv, TypeOK
<1>2. HeldOpen' /\ HeldOnce' /\ IdleIsEmpty'
  BY DEF OwnerInv, TypeInv, HasConnection, HeldOpen, HeldOnce, IdleIsEmpty, Queued
<1>3. OpenIsOwned'
  BY DEF OwnerInv, OpenIsOwned, Held, Queued
<1> QED BY <1>1, <1>2, <1>3 DEF OwnerInv

(* accept moves a connection from the head of the queue to the worker.     *)
LEMMA AcceptOwner ==
  ASSUME OwnerInv, TypeInv', NEW w \in Workers, Accept(w)
  PROVE  OwnerInv'
<1> USE DEF OwnerInv
<1>1. PICK c \in Clients : /\ Accepted(c)
                           /\ cur' = [cur EXCEPT ![w] = c] /\ Goto(w, "unlock")
                           /\ UNCHANGED <<cpc, listening, inbox, sent, closed, reset>>
  BY DEF Accept
<1>2. /\ cur'[w] = c /\ Holds(w)' /\ ~Holds(w)
      /\ \A v \in Workers : v # w => cur'[v] = cur[v] /\ Holds(v)' = Holds(v)
  BY <1>1 DEF Accept, Goto, TypeInv, TypeOK, Holds
<1>3. /\ QueueInv' /\ Queued(c) /\ ~Unmade(c) /\ ~closed[c]
      /\ \A d : Queued(d)' <=> Queued(d) /\ d # c
  BY <1>1, QueueAccepted
<1>4. HeldOpen' /\ HeldOnce' /\ IdleIsEmpty'
  BY <1>1, <1>2, <1>3 DEF HeldOpen, HeldOnce, IdleIsEmpty, Unmade
<1>5. OpenIsOwned'
  BY <1>1, <1>2, <1>3 DEF OpenIsOwned, Held, Unmade
<1> QED BY <1>3, <1>4, <1>5

(* close takes a connection from its only holder and releases it.          *)
LEMMA CloseOwner ==
  ASSUME OwnerInv, TypeInv', NEW w \in Workers, Close(w)
  PROVE  OwnerInv'
<1> USE DEF OwnerInv
<1>1. /\ Holds(w) /\ ~Holds(w)' /\ cur'[w] = NoConn /\ cur[w] \in Clients
      /\ \A v \in Workers : v # w => cur'[v] = cur[v] /\ Holds(v)' = Holds(v)
      /\ Released({cur[w]}) /\ UNCHANGED <<cpc, backlog>>
  BY DEF Close, Goto, TypeInv, TypeOK, Holds, HasConnection
<1>2. \A c \in Clients : c \in {cur[w]} => ~Unmade(c) /\ ~Queued(c)
  BY <1>1 DEF HeldOpen
<1>3. QueueInv' /\ \A c \in Clients : closed'[c] <=> closed[c] \/ c \in {cur[w]}
  BY <1>1, <1>2, QueueReleased DEF TypeInv, TypeOK
<1>4. \A v \in Workers : Holds(v)' =>
        v # w /\ Holds(v) /\ cur'[v] = cur[v] /\ cur[v] \in Clients /\ cur[v] # cur[w]
  BY <1>1 DEF HeldOnce, TypeInv, HasConnection
<1>5. HeldOpen' /\ HeldOnce'
  <2>1. HeldOpen'
    BY <1>1, <1>3, <1>4 DEF HeldOpen, Queued, Unmade
  <2>2. HeldOnce'
    BY <1>4 DEF HeldOnce
  <2> QED BY <2>1, <2>2
<1>6. IdleIsEmpty'
  BY <1>1 DEF IdleIsEmpty
<1>7. OpenIsOwned'
  BY <1>1, <1>3 DEF OpenIsOwned, Held, Queued, Unmade
<1> QED BY <1>3, <1>5, <1>6, <1>7

(* The exit releases whatever is queued or held.                           *)
LEMMA ExitOwner == ASSUME OwnerInv, TypeInv', Exit PROVE OwnerInv'
<1> USE DEF OwnerInv
<1> DEFINE S == {cur[w] : w \in Workers}
<1>1. /\ StopListening(S) /\ UNCHANGED <<cpc, inbox, sent, reset>>
      /\ \A w \in Workers : ~Holds(w)' /\ cur'[w] = NoConn
  BY DEF Exit, Holds
<1>2. \A c \in Clients : c \in S => Held(c) /\ ~Unmade(c)
  BY WorkersAssumption DEF HeldOpen, IdleIsEmpty, Held
<1>3. /\ QueueInv' /\ \A c : ~Queued(c)'
      /\ \A c \in Clients : closed'[c] <=> closed[c] \/ c \in S \/ Queued(c)
  <2> HIDE DEF S
  <2> QED BY <1>1, <1>2, QueueStopped
<1>4. HeldOpen' /\ HeldOnce' /\ IdleIsEmpty'
  BY <1>1 DEF HeldOpen, HeldOnce, IdleIsEmpty
<1>5. OpenIsOwned'
  BY <1>1, <1>3 DEF OpenIsOwned, Held, Unmade
<1> QED BY <1>3, <1>4, <1>5

LEMMA OwnerStep == OwnerInv /\ [Next]_vars => OwnerInv'
<1> SUFFICES ASSUME OwnerInv, [Next]_vars PROVE OwnerInv'
  OBVIOUS
<1>0. TypeInv /\ TypeInv' /\ ClientsTypeOK /\ QueueInv
  BY TypeStep DEF OwnerInv, QueueInv
<1>1. CASE UNCHANGED vars \/ Done \/ Start \/ StartFails \/ Return
  <2>1. UNCHANGED <<backlog, closed, cur, at, cpc>>
    BY <1>1 DEF Done, Start, StartFails, Return, vars, cvars, netvars, wvars
  <2> QED BY <1>0, <2>1, OwnersUntouched DEF Holds, Unmade
<1>2. CASE Exit
  BY <1>0, <1>2, ExitOwner
<1>3. ASSUME NEW w \in Workers,
             \/ Create(w) \/ Lock(w) \/ AcceptFails(w)
             \/ Unlock(w) \/ Receive(w) \/ SendTime(w)
      PROVE  OwnerInv'
  <2>1. UNCHANGED <<backlog, closed, cur, cpc>>
    BY <1>3 DEF Create, Lock, AcceptFails, Unlock, Receive, SendTime, cvars, netvars
  <2>2. \A v \in Workers : Holds(v)' = Holds(v)
    BY <1>0, <1>3 DEF Create, Lock, AcceptFails, Unlock, Receive, SendTime, Goto,
                      Holds, TypeInv, TypeOK
  <2> QED BY <1>0, <2>1, <2>2, OwnersUntouched DEF Unmade
<1>4. ASSUME NEW w \in Workers, Accept(w) PROVE OwnerInv'
  BY <1>0, <1>4, AcceptOwner
<1>5. ASSUME NEW w \in Workers, Close(w) PROVE OwnerInv'
  BY <1>0, <1>5, CloseOwner
<1>6. ASSUME NEW c \in Clients, Client(c) PROVE OwnerInv'
  <2>1. ClientStep(c) /\ UNCHANGED <<at, cur>>
    BY <1>6 DEF Client, wvars
  <2>2. QueueInv' /\ UNCHANGED closed
    BY <1>0, <2>1, QueueClient, ClientEffect
  <2>3. CASE Connect(c)
    <3>1. Unmade(c) /\ ~Queued(c) /\ \A d \in Clients : Queued(d)' <=> Queued(d) \/ d = c
      BY <1>0, <2>1, <2>3, ClientQueue
         DEF Connect, Unmade, QueueInv, QueuedOpen, Queued
    <3>2. \A d \in Clients : d # c => Unmade(d)' = Unmade(d)
      BY <1>0, <2>1, ClientEffect DEF Unmade
    <3>3. HeldOpen'
      BY <1>0, <2>1, <2>2, <3>1, <3>2 DEF OwnerInv, HeldOpen, Holds, TypeInv, HasConnection
    <3>4. OpenIsOwned'
      BY <2>1, <2>2, <3>1, <3>2 DEF OwnerInv, OpenIsOwned, Held, Holds
    <3> QED BY <1>0, <2>1, <2>2, <3>3, <3>4 DEF OwnerInv, HeldOnce, IdleIsEmpty, Holds
  <2>4. CASE ~Connect(c)
    <3>1. UNCHANGED backlog /\ \A d \in Clients : Unmade(d)' = Unmade(d)
      BY <1>0, <2>1, <2>4, ClientQueue
    <3> QED BY <1>0, <2>1, <2>2, <3>1, OwnersUntouched DEF Holds
  <2> QED BY <2>3, <2>4
<1> QED BY <1>1, <1>2, <1>3, <1>4, <1>5, <1>6 DEF Next, Work

LEMMA OwnerInit == Init => OwnerInv
  BY InitTyped, QueueInit DEF Init, ClientsInit, OwnerInv, HeldOpen, HeldOnce,
                              IdleIsEmpty, OpenIsOwned, Holds, Unmade

(* A connection is queued once, or held by one worker, or released, and    *)
(* never lost in between (accept line 31, close line 47, exit line 110).   *)
THEOREM OneOwnerAlways == Spec => []OneOwner
<1>1. OwnerInv => OneOwner
  <2> SUFFICES ASSUME OwnerInv, NEW c \in Clients
               PROVE  LET queued  == {i \in DOMAIN backlog : backlog[i] = c}
                          holders == {w \in Workers : Holds(w) /\ cur[w] = c} IN
                      /\ Unmade(c) => queued = {} /\ holders = {} /\ ~closed[c]
                      /\ ~Unmade(c) =>
                           \/ ~closed[c] /\ holders = {}
                                /\ \E i \in DOMAIN backlog : queued = {i}
                           \/ ~closed[c] /\ queued = {}
                                /\ \E w \in Workers : holders = {w}
                           \/ closed[c] /\ queued = {} /\ holders = {}
    BY DEF OneOwner, Unmade
  <2> DEFINE queued  == {i \in DOMAIN backlog : backlog[i] = c}
             holders == {w \in Workers : Holds(w) /\ cur[w] = c}
  <2> USE DEF OwnerInv, QueueInv
  <2>1. \A i, j \in queued : i = j
    BY DEF QueuedOnce
  <2>2. \A v, w \in holders : v = w
    BY DEF HeldOnce
  <2>3. queued # {} => ~Unmade(c) /\ ~closed[c] /\ holders = {}
    BY DEF QueuedOpen, HeldOpen, Queued
  <2>4. holders # {} => ~Unmade(c) /\ ~closed[c]
    BY DEF HeldOpen
  <2>5. Unmade(c) => ~closed[c]
    BY DEF UnmadeIsOpen
  <2>6. ~Unmade(c) /\ ~closed[c] => queued # {} \/ holders # {}
    BY DEF OpenIsOwned, Held, Queued
  <2>7. queued # {} => \E i \in DOMAIN backlog : queued = {i}
    BY <2>1
  <2>8. holders # {} => \E w \in Workers : holders = {w}
    BY <2>2
  <2> QED BY <2>3, <2>4, <2>5, <2>6, <2>7, <2>8
<1> QED BY <1>1, OwnerInit, OwnerStep, PTL DEF Spec

-----------------------------------------------------------------------------
(* Nobody has connected before listen; a worker about to send has a        *)
(* request for the time that nobody has answered; and a connection whose   *)
(* client has asked for the time and is still there is closed after its    *)
(* answer, or with the process.                                            *)
StartIsQuiet  == main = "start" => ~listening /\ \A c \in Clients : Unmade(c)
SendIsDue     == \A w \in Workers : at[w] = "send" =>
                   sent[cur[w]] = 0 /\ AnswerDue(cur[w])
CloseIsEarned == \A w \in Workers :
  at[w] = "close" /\ cur[w] \in TimeClients /\ Asking(cur[w]) => sent[cur[w]] # 0
EndIsEarned   == \A c \in TimeClients :
  Asking(c) /\ closed[c] => sent[c] # 0 \/ main = "exit"

PoolInv == /\ OwnerInv /\ AskedInv
           /\ StartIsQuiet /\ SendIsDue /\ CloseIsEarned /\ EndIsEarned

LEMMA PoolStep == PoolInv /\ [Next]_vars => PoolInv'
<1> SUFFICES ASSUME PoolInv, [Next]_vars PROVE PoolInv'
  OBVIOUS
<1>0. /\ OwnerInv /\ OwnerInv' /\ TypeOK /\ ClientsTypeOK /\ QueueInv /\ AskedInv
      /\ TimeClients \subseteq Clients
      /\ \A w \in Workers : Holds(w) => cur[w] \in Clients
  BY OwnerStep, ClientsAssumption DEF PoolInv, OwnerInv, TypeInv, TypeOK, HasConnection
<1> USE DEF PoolInv
<1>1. ASSUME UNCHANGED <<cpc, inbox, sent, closed, reset>>,
             \A c \in Clients : Queued(c)' => Queued(c),
             main' = "start" => main = "start" /\ UNCHANGED listening,
             main = "exit" => main' = "exit",
             \A w \in Workers : at'[w] \in {"send", "close"} =>
               at'[w] = at[w] /\ cur'[w] = cur[w]
      PROVE  PoolInv'
  <2>1. AskedInv'
    BY <1>0, <1>1, AskedKept
  <2>2. StartIsQuiet' /\ EndIsEarned'
    BY <1>0, <1>1 DEF StartIsQuiet, EndIsEarned, Asking, Unmade
  <2>3. SendIsDue' /\ CloseIsEarned'
    BY <1>0, <1>1 DEF SendIsDue, CloseIsEarned, AnswerDue, Unsent, Asking, Holds
  <2> QED BY <1>0, <2>1, <2>2, <2>3
<1>2. CASE UNCHANGED vars \/ Done \/ Start \/ StartFails \/ Return
  <2>1. /\ UNCHANGED <<cpc, backlog, inbox, sent, closed, reset, at, cur>>
        /\ main' = "start" => main = "start" /\ UNCHANGED listening
        /\ main = "exit" => main' = "exit"
    BY <1>2 DEF Done, Start, StartFails, Return, vars, cvars, netvars, wvars
  <2> QED BY <1>1, <2>1 DEF Queued
<1>3. CASE Exit
  <2>1. /\ UNCHANGED <<cpc, inbox, sent, reset>> /\ backlog' = <<>> /\ main' = "exit"
        /\ \A w \in Workers : at'[w] = "end"
    BY <1>3 DEF Exit, StopListening
  <2>2. AskedInv'
    BY <1>0, <2>1, AskedKept DEF Queued
  <2> QED BY <1>0, <2>1, <2>2 DEF StartIsQuiet, SendIsDue, CloseIsEarned, EndIsEarned
<1>4. ASSUME NEW w \in Workers,
             Create(w) \/ Lock(w) \/ AcceptFails(w) \/ Unlock(w)
      PROVE  PoolInv'
  <2>1. /\ UNCHANGED <<cpc, backlog, listening, inbox, sent, closed, reset, cur>>
        /\ main' = "start" => main = "start"
        /\ main = "exit" => main' = "exit"
        /\ \A v \in Workers : at'[v] \in {"send", "close"} => at'[v] = at[v]
    BY <1>0, <1>4 DEF Create, Lock, AcceptFails, Unlock, Goto, cvars, netvars, TypeOK
  <2> QED BY <1>1, <2>1 DEF Queued
<1>5. ASSUME NEW w \in Workers, Accept(w) PROVE PoolInv'
  <2>1. PICK c \in Clients : /\ Accepted(c)
                             /\ UNCHANGED <<cpc, listening, inbox, sent, closed, reset, main>>
                             /\ cur' = [cur EXCEPT ![w] = c]
    BY <1>5 DEF Accept
  <2>2. \A d : Queued(d)' => Queued(d)
    BY <1>0, <2>1, QueueAccepted
  <2>3. at' = [at EXCEPT ![w] = "unlock"]
    BY <1>5 DEF Accept, Goto
  <2>4. \A v \in Workers : at'[v] \in {"send", "close"} =>
          at'[v] = at[v] /\ cur'[v] = cur[v]
    BY <1>0, <2>1, <2>3 DEF TypeOK
  <2> QED BY <1>1, <2>1, <2>2, <2>4
<1>6. ASSUME NEW w \in Workers, Receive(w) PROVE PoolInv'
  <2>1. PICK c \in Clients : c = cur[w] /\ Holds(w)
    BY <1>0, <1>6 DEF Receive, Holds
  <2>2. /\ Read(c)
        /\ UNCHANGED <<cpc, backlog, listening, sent, closed, reset, main, cur>>
        /\ at'[w] = IF inbox[c] = "TIME" THEN "send" ELSE "close"
        /\ \A v \in Workers : v # w => at'[v] = at[v]
    BY <1>0, <1>6, <2>1 DEF Receive, Goto, TypeOK
  <2>3. ~Queued(c)
    BY <1>0, <2>1 DEF OwnerInv, HeldOpen
  <2>4. /\ AskedInv'
        /\ \A d \in Clients : AnswerDue(d) => AnswerDue(d)'
        /\ inbox[c] = "TIME" => sent[c] = 0 /\ AnswerDue(c)'
        /\ inbox[c] # "TIME" /\ c \in TimeClients => ~Asking(c)
    BY <1>0, <2>2, <2>3, AskedRead
  <2>5. SendIsDue'
    BY <1>0, <2>1, <2>2, <2>4 DEF SendIsDue, Holds
  <2>6. CloseIsEarned'
    BY <2>1, <2>2, <2>4 DEF CloseIsEarned, Asking
  <2> QED BY <1>0, <2>2, <2>4, <2>5, <2>6 DEF EndIsEarned, StartIsQuiet, Asking, Unmade
<1>7. ASSUME NEW w \in Workers, SendTime(w) PROVE PoolInv'
  <2>1. PICK c \in Clients : c = cur[w] /\ Holds(w)
    BY <1>0, <1>7 DEF SendTime, Holds
  <2>2. /\ Sent(c) /\ sent[c] = 0 /\ AnswerDue(c)
        /\ UNCHANGED <<cpc, backlog, listening, inbox, closed, main, cur>>
        /\ at'[w] = "close" /\ \A v \in Workers : v # w => at'[v] = at[v]
    BY <1>0, <1>7, <2>1 DEF SendTime, SendIsDue, Goto, TypeOK
  <2>3. /\ AskedInv'
        /\ \A d \in Clients : AnswerDue(d) => AnswerDue(d)'
        /\ sent'[c] = 1 /\ \A d \in Clients : d # c => sent'[d] = sent[d]
    BY <1>0, <2>2, AskedSent
  <2>4. \A v \in Workers : v # w /\ Holds(v) => cur[v] # c /\ cur[v] \in Clients
    BY <1>0, <2>1 DEF OwnerInv, HeldOnce
  <2>5. SendIsDue'
    BY <2>1, <2>2, <2>3, <2>4 DEF SendIsDue, Holds
  <2>6. CloseIsEarned'
    BY <2>1, <2>2, <2>3, <2>4 DEF CloseIsEarned, Asking, Holds
  <2> QED BY <1>0, <2>2, <2>3, <2>5, <2>6 DEF EndIsEarned, StartIsQuiet, Asking, Unmade
<1>8. ASSUME NEW w \in Workers, Close(w) PROVE PoolInv'
  <2>1. /\ UNCHANGED <<cpc, backlog, listening, inbox, sent, reset, main>>
        /\ at[w] = "close"
        /\ \A v \in Workers : at'[v] \in {"send", "close"} =>
             at'[v] = at[v] /\ cur'[v] = cur[v] /\ Holds(v)
        /\ \A d \in Clients : closed'[d] => closed[d] \/ d = cur[w]
    BY <1>0, <1>8 DEF Close, Released, Goto, TypeOK, Holds
  <2>2. AskedInv'
    BY <1>0, <2>1, AskedKept DEF Queued
  <2>3. SendIsDue' /\ CloseIsEarned'
    BY <1>0, <2>1 DEF SendIsDue, CloseIsEarned, AnswerDue, Queued, Unsent, Asking
  <2> QED BY <1>0, <2>1, <2>2, <2>3 DEF CloseIsEarned, EndIsEarned, StartIsQuiet, Asking, Unmade
<1>9. ASSUME NEW c \in Clients, Client(c) PROVE PoolInv'
  <2>1. ClientStep(c) /\ UNCHANGED <<main, at, cur>>
    BY <1>9 DEF Client, wvars
  <2>2. /\ UNCHANGED <<listening, sent, closed>>
        /\ \A d \in Clients : d # c => cpc'[d] = cpc[d]
        /\ Asking(c)' => Asking(c) \/ cpc[c] = "start"
    BY <1>0, <2>1, ClientEffect
  <2>3. AskedInv' /\ \A d \in Clients : AnswerDue(d) => AnswerDue(d)'
    BY <1>0, <2>1, AskedClient
  <2>4. /\ cpc[c] = "start" => ~closed[c]
        /\ \A w \in Workers : Holds(w) => cpc[cur[w]] # "start"
    BY <1>0 DEF OwnerInv, HeldOpen, QueueInv, UnmadeIsOpen, Unmade
  <2>5. SendIsDue'
    BY <1>0, <2>1, <2>2, <2>3 DEF SendIsDue, Holds
  <2>6. CloseIsEarned' /\ EndIsEarned'
    BY <1>0, <2>1, <2>2, <2>4 DEF CloseIsEarned, EndIsEarned, Asking, Holds
  <2>7. StartIsQuiet'
    <3>1. CASE Connect(c)
      BY <2>1, <3>1 DEF Connect, StartIsQuiet
    <3>2. CASE ~Connect(c)
      BY <1>0, <2>1, <2>2, <3>2, ClientQueue DEF StartIsQuiet
    <3> QED BY <3>1, <3>2
  <2> QED BY <1>0, <2>3, <2>5, <2>6, <2>7
<1> QED BY <1>2, <1>3, <1>4, <1>5, <1>6, <1>7, <1>8, <1>9 DEF Next, Work

LEMMA PoolAlways == Spec => []PoolInv
<1>1. Init => PoolInv
  <2> SUFFICES ASSUME Init PROVE PoolInv
    OBVIOUS
  <2>1. OwnerInv /\ AskedInv /\ TimeClients \subseteq Clients
    BY OwnerInit, AskedInit, ClientsAssumption DEF Init
  <2> QED BY <2>1 DEF Init, ClientsInit, PoolInv, StartIsQuiet, SendIsDue, CloseIsEarned,
             EndIsEarned, Asking, Unmade
<1> QED BY <1>1, PoolStep, PTL DEF Spec

(* No connection gets a second answer, or one it did not ask for, with any *)
(* number of workers (lines 39-47).                                        *)
THEOREM AnsweredOnce == Spec => []OneAnswer
<1>1. PoolInv => OneAnswer
  BY AskedOnce DEF PoolInv
<1> QED BY <1>1, PoolAlways, PTL

(* The pool never sends to a peer that has reset, so no SIGPIPE ends it:   *)
(* a reset needs an unread answer, and a worker about to answer is the     *)
(* only one ever to answer on its connection (line 45).                    *)
THEOREM PipeNeverBreaks == Spec => []NoBrokenPipe
<1>1. PoolInv => NoBrokenPipe
  BY DEF PoolInv, AskedInv, SendIsDue, ResetIsLate, NoBrokenPipe
<1> QED BY <1>1, PoolAlways, PTL

-----------------------------------------------------------------------------
(* A step of the pool is a step of the time service or none: main's steps  *)
(* start or stop it, a client's steps move that client's request, and the  *)
(* workers' steps are not seen.                                            *)
LEMMA ServiceStep == PoolInv /\ [Next]_vars => [T!TimeNext]_(T!tvars)
<1> DEFINE Up == main \in {"create", "join"}
<1> SUFFICES ASSUME PoolInv, [Next]_vars
             PROVE  T!TimeNext \/ (Up' = Up /\ Requests' = Requests)
  BY DEF T!tvars, Requests
<1>0. ClientsTypeOK /\ AskedInv
  BY DEF PoolInv, OwnerInv, QueueInv
<1>1. ASSUME UNCHANGED cpc PROVE Requests' = Requests
  BY <1>1 DEF Requests, Phase, Asking
<1>2. CASE UNCHANGED vars \/ Done \/ StartFails \/ Exit
  <2>1. UNCHANGED cpc /\ Up' = Up
    BY <1>2 DEF Done, StartFails, Exit, vars, cvars
  <2> QED BY <1>1, <2>1
<1>3. CASE Start
  <2>1. UNCHANGED cpc /\ ~Up /\ Up' /\ \A c \in Clients : Unmade(c)
    BY <1>3 DEF Start, PoolInv, StartIsQuiet
  <2>2. \A c \in Clients : Requests[c] \in {"out", "turned away"}
    BY <2>1 DEF Requests, Phase, Asking, Unmade
  <2>3. T!StartUp
    BY <1>1, <2>1, <2>2 DEF T!StartUp, Requests
  <2> QED BY <2>3 DEF T!TimeNext
<1>4. CASE Return
  <2>1. UNCHANGED cpc /\ Up /\ ~Up'
    BY <1>4 DEF Return, cvars
  <2>2. T!ShutDown
    BY <1>1, <2>1 DEF T!ShutDown, Requests
  <2> QED BY <2>2 DEF T!TimeNext
<1>5. ASSUME NEW w \in Workers, Create(w) \/ Lock(w) \/ AcceptFails(w) \/ Work(w)
      PROVE  Up' = Up /\ Requests' = Requests
  <2>1. UNCHANGED cpc /\ Up' = Up
    BY <1>5 DEF Create, Lock, AcceptFails, Work, Accept, Unlock, Receive, SendTime,
                Close, cvars
  <2> QED BY <1>1, <2>1
<1>6. ASSUME NEW c \in Clients, Client(c)
      PROVE  T!TimeNext \/ (Up' = Up /\ Requests' = Requests)
  <2>1. ClientStep(c) /\ Up' = Up
    BY <1>6 DEF Client
  <2>2. sent[c] # 0 => c \in TimeClients
    BY <1>0 DEF AskedInv, AnswerIsDue, AnswerDue
  <2>3. sent[c] = 0 /\ closed[c] /\ Asking(c) /\ Up => c \notin TimeClients
    BY DEF PoolInv, EndIsEarned
  <2>4. \/ Requests' = Requests
        \/ T!Ask(c) \/ T!TurnAway(c) \/ T!Answer(c) \/ T!Drop(c) \/ T!Leave(c)
    <3> USE DEF T!Ask, T!TurnAway, T!Answer, T!Drop, T!Leave, T!Move, Requests
    <3> QED BY <1>0, <2>1, <2>2, <2>3, ClientPhase
  <2> QED BY <2>1, <2>4 DEF T!TimeNext
<1> QED BY <1>2, <1>3, <1>4, <1>5, <1>6 DEF Next

(* The pool implements the time service for every number of clients and    *)
(* workers: whoever asks for the time, stays, and is let go while the      *)
(* server is up has been answered (lines 30-49 with 58-71).                *)
THEOREM PoolServesTime == Spec => ImplementsTimeService
<1>1. Init => T!TimeInit
  BY DEF Init, ClientsInit, T!TimeInit, Phase, Asking
<1> QED BY <1>1, ServiceStep, PoolAlways, PTL DEF Spec, ImplementsTimeService, T!TimeSpec
=============================================================================
