-------------------------- MODULE ThreadTcpProofs --------------------------
(***************************************************************************)
(* Proofs about pth_tcp/server.c, for every number of clients, every size  *)
(* of the descriptor table and every length of the accept queue: what the  *)
(* race over fd_client costs and what it cannot do, and that without the   *)
(* race the server is right.                                               *)
(***************************************************************************)
EXTENDS ThreadTcp, TcpClientsProofs, FiniteSetTheorems, WellFoundedInduction

(* A nonempty set of naturals has a least element (less-than is a well-    *)
(* founded relation).                                                      *)
LEMMA LeastNatural ==
  ASSUME NEW S, S \subseteq Nat, S # {}
  PROVE  \E x \in S : \A y \in S : x <= y
<1> DEFINE R == OpToRel(<, Nat)
<1>1. IsWellFoundedOn(R, Nat)
  BY NatLessThanWellFounded
<1> HIDE DEF R
<1>2. PICK x \in S : \A y \in S : ~(<<y, x>> \in R)
  BY <1>1, WFMin
<1>3. \A y, z \in Nat : y < z => <<y, z>> \in R
  BY DEF R, OpToRel
<1>4. \A y \in S : ~(y < x)
  BY <1>2, <1>3, Zenon
<1>5. x \in Nat /\ \A y \in S : y \in Nat
  OBVIOUS
<1> QED BY <1>4, <1>5, SMT

(* accept finds the lowest free descriptor when there is one. *)
LEMMA FreeFd == FreeFds # {} => Min(FreeFds) \in Fds /\ fdTable[Min(FreeFds)] = NoConn
<1> SUFFICES ASSUME FreeFds # {}
             PROVE  Min(FreeFds) \in FreeFds
  BY DEF FreeFds
<1>1. FreeFds \subseteq Nat
  BY ThreadAssumption DEF FreeFds, Fds
<1> QED BY <1>1, LeastNatural DEF Min

-----------------------------------------------------------------------------
InTable(c) == \E n \in Fds : fdTable[n] = c
Waited(c)  == \E t \in Clients : conn[t] = c

(* A thread waits on a connection exactly in its recv; main names a new    *)
(* one exactly from accept on until its thread is made; one that is not    *)
(* made or still queued is nowhere else; and one is closed when it is      *)
(* neither queued nor in the table nor waited on.                          *)
WaitHasConn == \A t \in Clients : at[t] = "wait" <=> conn[t] # NoConn
Named       == pc \in {"create", "return"}
AddrIsNew   == /\ Named => addrClient \in Clients /\ at[addrClient] = "none"
               /\ ~Named => addrClient = NoConn
FreshIsFree == \A c \in Clients : Unmade(c) \/ Queued(c) =>
                 ~InTable(c) /\ ~Waited(c) /\ at[c] = "none" /\ addrClient # c
OpenIsOwned == \A c \in Clients : ~Unmade(c) =>
                 (closed[c] <=> ~Queued(c) /\ ~InTable(c) /\ ~Waited(c))

USE DEF Named

OwnerInv == TypeOK /\ QueueInv /\ WaitHasConn /\ AddrIsNew /\ FreshIsFree /\ OpenIsOwned

(* The exit releases whatever is queued, in the table or waited on.        *)
LEMMA ExitOwner == ASSUME OwnerInv, Exit PROVE OwnerInv'
<1> USE DEF OwnerInv, TypeOK
<1>0. ClientsTypeOK /\ QueueInv /\ NoConn \notin Clients
  BY ThreadAssumption DEF QueueInv
<1> DEFINE S == {fdTable[n] : n \in Fds} \cup {conn[t] : t \in Clients}
<1>1. /\ pc' = "exit" /\ StopListening(S)
      /\ fdTable' = [n \in Fds |-> NoConn] /\ at' = [t \in Clients |-> "none"]
      /\ conn' = [t \in Clients |-> NoConn] /\ addrClient' = NoConn
      /\ UNCHANGED <<cpc, inbox, sent, reset, fdClient, fd>>
  BY DEF Exit
<1>2. \A c \in Clients : c \in S <=> InTable(c) \/ Waited(c)
  BY DEF InTable, Waited
<1>3. /\ QueueInv' /\ \A c : ~Queued(c)'
      /\ \A c \in Clients : closed'[c] <=> closed[c] \/ c \in S \/ Queued(c)
  BY <1>0, <1>1, <1>2, QueueStopped DEF FreshIsFree
<1>4. TypeOK'
  BY <1>1, <1>3 DEF QueueInv
<1>5. \A c \in Clients : ~InTable(c)' /\ ~Waited(c)'
  BY <1>0, <1>1 DEF InTable, Waited
<1>6. WaitHasConn' /\ AddrIsNew' /\ FreshIsFree'
  BY <1>0, <1>1, <1>5 DEF WaitHasConn, AddrIsNew, FreshIsFree
<1>7. OpenIsOwned'
  BY <1>1, <1>2, <1>3, <1>5 DEF OpenIsOwned, Unmade
<1> QED BY <1>3, <1>4, <1>6, <1>7

(* recv's return: the thread's reference goes, and with the last one the   *)
(* connection.                                                             *)
LEMMA ReturnOwner ==
  ASSUME OwnerInv, NEW t \in Clients, ReturnRecv(t)
  PROVE  OwnerInv'
<1> USE DEF OwnerInv, TypeOK
<1>0. ClientsTypeOK /\ QueueInv /\ NoConn \notin Clients
  BY ThreadAssumption DEF QueueInv
<1> DEFINE c == conn[t]
           S == {c} \ ({fdTable[n] : n \in Fds} \cup {conn'[u] : u \in Clients})
<1>1. /\ at[t] = "wait" /\ c \in Clients /\ Read(c) /\ Released(S)
      /\ at' = [at EXCEPT ![t] = IF inbox[c] = "TIME" THEN "send" ELSE "close"]
      /\ conn' = [conn EXCEPT ![t] = NoConn]
      /\ UNCHANGED <<cpc, backlog, listening, sent, reset, pc, fdClient,
                     addrClient, fdTable, fd>>
  BY DEF ReturnRecv, DropRef, Goto, WaitHasConn
<1>2. /\ at'[t] \in {"send", "close"} /\ \A u \in Clients : u # t => at'[u] = at[u]
      /\ conn'[t] = NoConn /\ \A u \in Clients : u # t => conn'[u] = conn[u]
  BY <1>1
<1>3. /\ Waited(c)
      /\ \A d \in Clients : InTable(d)' <=> InTable(d)
      /\ \A d \in Clients : Waited(d)' => Waited(d)
      /\ \A d \in Clients : Waited(d) /\ d # c => Waited(d)'
      /\ \A d \in Clients : d \in S <=> d = c /\ ~InTable(d) /\ ~Waited(d)'
  <2>1. Waited(c) /\ \A d \in Clients : InTable(d)' <=> InTable(d)
    BY <1>1 DEF InTable, Waited
  <2>2. \A d \in Clients : Waited(d)' => Waited(d)
    BY <1>0, <1>2 DEF Waited
  <2>3. \A d \in Clients : Waited(d) /\ d # c => Waited(d)'
    BY <1>2 DEF Waited
  <2>4. \A d \in Clients : d \in S <=> d = c /\ ~InTable(d) /\ ~Waited(d)'
    BY DEF InTable, Waited
  <2> QED BY <2>1, <2>2, <2>3, <2>4
<1>4. ClientsTypeOK'
  BY <1>0, <1>1 DEF ClientsTypeOK, Read, Released
<1>5. /\ QueueInv' /\ \A d \in Clients : closed'[d] <=> closed[d] \/ d \in S
      /\ \A d \in Clients : Queued(d)' = Queued(d) /\ Unmade(d)' = Unmade(d)
  <2> HIDE DEF S
  <2> QED BY <1>0, <1>1, <1>3, <1>4, QueueReleased DEF FreshIsFree, Queued, Unmade
<1> HIDE DEF S
<1>6. TypeOK'
  BY <1>1, <1>2, <1>4
<1>7. WaitHasConn' /\ AddrIsNew'
  BY <1>1, <1>2 DEF WaitHasConn, AddrIsNew
<1>8. FreshIsFree'
  BY <1>1, <1>2, <1>3, <1>5 DEF FreshIsFree
<1>9. OpenIsOwned'
  BY <1>1, <1>3, <1>5 DEF OpenIsOwned, FreshIsFree
<1> QED BY <1>5, <1>6, <1>7, <1>8, <1>9

(* close frees the descriptor, whatever it stands for, and releases the    *)
(* connection unless somebody still waits on it.                           *)
LEMMA CloseOwner ==
  ASSUME OwnerInv, NEW t \in Clients, Close(t)
  PROVE  OwnerInv'
<1> USE DEF OwnerInv, TypeOK
<1>0. ClientsTypeOK /\ QueueInv /\ NoConn \notin Clients
  BY ThreadAssumption DEF QueueInv
<1> DEFINE b == Behind(fd[t])
           S == {b} \ ({fdTable'[n] : n \in Fds} \cup {conn[u] : u \in Clients})
<1>1. /\ at[t] = "close" /\ at' = [at EXCEPT ![t] = "end"] /\ Released(S)
      /\ fdTable' = [n \in Fds |-> IF n = fd[t] THEN NoConn ELSE fdTable[n]]
      /\ UNCHANGED <<cpc, backlog, listening, inbox, sent, reset, pc, fdClient,
                     addrClient, fd, conn>>
  BY DEF Close, DropRef, Goto
<1>2. /\ at'[t] = "end" /\ \A u \in Clients : u # t => at'[u] = at[u]
      /\ at' \in [Clients -> {"none", "load", "recv", "wait", "send", "close", "end"}]
  BY <1>1
<1>3. /\ b \in Clients => InTable(b)
      /\ \A d \in Clients : Waited(d)' <=> Waited(d)
      /\ \A d \in Clients : InTable(d)' => InTable(d)
      /\ \A d \in Clients : InTable(d) /\ d # b => InTable(d)'
      /\ \A d \in Clients : d \in S <=> d = b /\ ~InTable(d)' /\ ~Waited(d)
  <2>1. b \in Clients => InTable(b)
    BY <1>0 DEF InTable, Behind
  <2>2. \A d \in Clients : (InTable(d)' => InTable(d)) /\ (Waited(d)' <=> Waited(d))
    BY <1>0, <1>1 DEF InTable, Waited
  <2>3. \A d \in Clients : InTable(d) /\ d # b => InTable(d)'
    BY <1>1 DEF InTable, Behind
  <2>4. \A d \in Clients : d \in S <=> d = b /\ ~InTable(d)' /\ ~Waited(d)
    BY DEF InTable, Waited
  <2> QED BY <2>1, <2>2, <2>3, <2>4
<1>4. ClientsTypeOK'
  BY <1>0, <1>1 DEF ClientsTypeOK, Released
<1>5. /\ QueueInv' /\ \A d \in Clients : closed'[d] <=> closed[d] \/ d \in S
      /\ \A d \in Clients : Queued(d)' = Queued(d) /\ Unmade(d)' = Unmade(d)
  <2> HIDE DEF S, b
  <2> QED BY <1>0, <1>1, <1>3, <1>4, QueueReleased DEF FreshIsFree, Queued, Unmade
<1> HIDE DEF S, b
<1>6. TypeOK'
  BY <1>1, <1>2, <1>4
<1>7. WaitHasConn' /\ AddrIsNew'
  BY <1>1, <1>2 DEF WaitHasConn, AddrIsNew
<1>8. FreshIsFree'
  BY <1>1, <1>2, <1>3, <1>5 DEF FreshIsFree
<1>9. OpenIsOwned'
  BY <1>1, <1>3, <1>5 DEF OpenIsOwned, FreshIsFree
<1> QED BY <1>5, <1>6, <1>7, <1>8, <1>9

(* accept moves a connection from the queue into the table.                *)
LEMMA AcceptOwner == ASSUME OwnerInv, Accept PROVE OwnerInv'
<1> USE DEF OwnerInv, TypeOK
<1>0. ClientsTypeOK /\ QueueInv /\ NoConn \notin Clients
  BY ThreadAssumption DEF QueueInv
<1> DEFINE n == Min(FreeFds)
<1>1. PICK c \in Clients :
        /\ pc = "accept" /\ pc' = "create" /\ Accepted(c)
        /\ n \in Fds /\ fdTable[n] = NoConn /\ fdClient' = n
        /\ fdTable' = [fdTable EXCEPT ![n] = c] /\ addrClient' = c
        /\ UNCHANGED <<cpc, listening, inbox, sent, closed, reset, at, fd, conn>>
  BY FreeFd DEF Accept, tvars
<1> HIDE DEF n
<1>2. /\ QueueInv' /\ Queued(c) /\ ~Unmade(c) /\ ~closed[c]
      /\ \A d : Queued(d)' <=> Queued(d) /\ d # c
  BY <1>0, <1>1, QueueAccepted
<1>3. /\ \A d \in Clients : InTable(d)' <=> InTable(d) \/ d = c
      /\ \A d \in Clients : Waited(d)' <=> Waited(d)
  BY <1>0, <1>1 DEF InTable, Waited
<1>4. TypeOK'
  BY <1>1, <1>2 DEF QueueInv
<1>5. AddrIsNew' /\ WaitHasConn' /\ FreshIsFree'
  BY <1>1, <1>2, <1>3 DEF AddrIsNew, WaitHasConn, FreshIsFree, Unmade
<1>6. OpenIsOwned'
  BY <1>1, <1>2, <1>3 DEF OpenIsOwned, FreshIsFree, Unmade
<1> QED BY <1>2, <1>4, <1>5, <1>6

LEMMA OwnerStep == OwnerInv /\ [Next]_vars => OwnerInv'
<1> SUFFICES ASSUME OwnerInv, [Next]_vars PROVE OwnerInv'
  OBVIOUS
<1>0. ClientsTypeOK /\ QueueInv /\ NoConn \notin Clients
  BY ThreadAssumption DEF OwnerInv, QueueInv
<1> USE DEF OwnerInv, TypeOK
<1>1. ASSUME UNCHANGED <<cpc, backlog, closed, fdTable, conn>>, ClientsTypeOK',
             TypeOK', AddrIsNew', WaitHasConn',
             \A c \in Clients : Unmade(c) \/ Queued(c) =>
               at'[c] = at[c] /\ (addrClient' = c => addrClient = c)
      PROVE  OwnerInv'
  <2>1. QueueInv'
    BY <1>0, <1>1, QueueKept DEF Unmade
  <2>2. \A c \in Clients : /\ InTable(c)' = InTable(c) /\ Waited(c)' = Waited(c)
                           /\ Queued(c)' = Queued(c) /\ Unmade(c)' = Unmade(c)
    BY <1>1 DEF InTable, Waited, Queued, Unmade
  <2>3. FreshIsFree' /\ OpenIsOwned'
    BY <1>1, <2>2 DEF FreshIsFree, OpenIsOwned
  <2> QED BY <1>1, <2>1, <2>3
<1>2. CASE UNCHANGED vars \/ Done \/ Start \/ StartFails \/ AcceptFails \/ CreateFails
  <2>1. /\ UNCHANGED <<cpc, backlog, inbox, sent, closed, reset, addrClient, fdTable,
                       at, fd, conn>>
        /\ listening' \in {listening, TRUE} /\ fdClient' \in {fdClient, NoFd}
        /\ \/ pc' = pc
           \/ pc = "start" /\ pc' \in {"accept", "exit"}
           \/ pc = "create" /\ pc' = "return"
    BY <1>2 DEF Done, Start, StartFails, AcceptFails, CreateFails, Listen, vars, cvars,
                netvars, tvars
  <2>2. ClientsTypeOK'
    BY <1>0, <2>1 DEF ClientsTypeOK
  <2> QED BY <1>1, <2>1, <2>2 DEF AddrIsNew, WaitHasConn
<1>3. CASE Create
  <2>1. /\ UNCHANGED <<cpc, backlog, listening, inbox, sent, closed, reset, fdClient,
                       fdTable, fd, conn>>
        /\ pc = "create" /\ pc' = "accept" /\ addrClient \in Clients
        /\ addrClient' = NoConn /\ at[addrClient] = "none"
        /\ at' = [at EXCEPT ![addrClient] = "load"]
    BY <1>3 DEF Create, Goto, cvars, netvars, AddrIsNew
  <2>2. ClientsTypeOK'
    BY <1>0, <2>1 DEF ClientsTypeOK
  <2>3. /\ at' \in [Clients -> {"none", "load", "recv", "wait", "send", "close", "end"}]
        /\ at'[addrClient] = "load"
        /\ \A c \in Clients : c # addrClient => at'[c] = at[c]
    BY <2>1
  <2> QED BY <1>0, <1>1, <2>1, <2>2, <2>3 DEF AddrIsNew, WaitHasConn, FreshIsFree
<1>4. ASSUME NEW t \in Clients, Load(t) PROVE OwnerInv'
  <2>1. /\ UNCHANGED <<cpc, backlog, listening, inbox, sent, closed, reset, pc, fdClient,
                       addrClient, fdTable, conn>>
        /\ at[t] = "load" /\ at' = [at EXCEPT ![t] = "recv"]
        /\ \E n \in Fds \cup {NoFd} : fd' = [fd EXCEPT ![t] = n]
    BY <1>4 DEF Load, Argument, Goto, cvars, netvars
  <2>2. ClientsTypeOK'
    BY <1>0, <2>1 DEF ClientsTypeOK
  <2> QED BY <1>1, <2>1, <2>2 DEF AddrIsNew, WaitHasConn, FreshIsFree
<1>5. ASSUME NEW t \in Clients, EnterRecv(t) PROVE OwnerInv'
  <2> DEFINE b == Behind(fd[t])
  <2>1. /\ UNCHANGED <<cpc, backlog, listening, inbox, sent, closed, reset, pc, fdClient,
                       addrClient, fdTable, fd>>
        /\ at[t] = "recv" /\ conn[t] = NoConn
        /\ at' = [at EXCEPT ![t] = IF b = NoConn THEN "close" ELSE "wait"]
        /\ conn' = [conn EXCEPT ![t] = b]
    BY <1>5 DEF EnterRecv, Goto, cvars, netvars, WaitHasConn
  <2>2. b \in Clients \cup {NoConn} /\ (b \in Clients => InTable(b))
    BY <1>0 DEF Behind, InTable
  <2> HIDE DEF b
  <2>3. ClientsTypeOK' /\ QueueInv'
    <3>1. ClientsTypeOK'
      BY <1>0, <2>1 DEF ClientsTypeOK
    <3> QED BY <1>0, <2>1, <3>1, QueueKept DEF Unmade
  <2>4. \A c \in Clients : /\ InTable(c)' = InTable(c) /\ (Waited(c)' <=> Waited(c) \/ c = b)
                           /\ Queued(c)' = Queued(c) /\ Unmade(c)' = Unmade(c)
    BY <1>0, <2>1 DEF InTable, Waited, Queued, Unmade
  <2>5. TypeOK' /\ WaitHasConn' /\ AddrIsNew'
    <3>1. TypeOK'
      BY <2>1, <2>2, <2>3
    <3>2. WaitHasConn' /\ AddrIsNew'
      BY <2>1 DEF WaitHasConn, AddrIsNew
    <3> QED BY <3>1, <3>2
  <2>6. FreshIsFree'
    BY <2>1, <2>2, <2>4 DEF FreshIsFree
  <2>7. OpenIsOwned'
    BY <2>1, <2>2, <2>4 DEF OpenIsOwned
  <2> QED BY <2>3, <2>5, <2>6, <2>7
<1>6. ASSUME NEW t \in Clients, SendTime(t) PROVE OwnerInv'
  <2>1. /\ UNCHANGED <<cpc, backlog, listening, inbox, closed, pc, fdClient, addrClient,
                       fdTable, fd, conn>>
        /\ at[t] = "send" /\ at' = [at EXCEPT ![t] = "close"]
    BY <1>6 DEF SendTime, Goto
  <2>2. ClientsTypeOK'
    <3>1. Behind(fd[t]) \in Clients \cup {NoConn}
      BY DEF Behind
    <3>2. CASE Behind(fd[t]) = NoConn
      BY <1>0, <1>6, <2>1, <3>2 DEF SendTime, ClientsTypeOK
    <3>3. CASE Behind(fd[t]) # NoConn
      <4>1. PICK b \in Clients : Sent(b)
        BY <1>6, <3>1, <3>3 DEF SendTime
      <4> QED BY <1>0, <2>1, <4>1 DEF SendTime, Sent, ClientsTypeOK
    <3> QED BY <3>2, <3>3
  <2> QED BY <1>1, <2>1, <2>2 DEF AddrIsNew, WaitHasConn, FreshIsFree
<1>7. ASSUME NEW c \in Clients, Client(c) PROVE OwnerInv'
  <2>1. ClientStep(c) /\ UNCHANGED <<pc, fdClient, addrClient, fdTable, at, fd, conn>>
    BY <1>7 DEF Client, tvars
  <2>2. QueueInv' /\ ClientsTypeOK' /\ UNCHANGED closed
    BY <1>0, <2>1, QueueClient, ClientEffect, ClientStepType
  <2>3. /\ \A d \in Clients : Queued(d)' <=> Queued(d) \/ (d = c /\ Connect(c))
        /\ Connect(c) => Unmade(c)
        /\ \A d \in Clients : Unmade(d)' => Unmade(d)
        /\ \A d \in Clients : Unmade(d) => Unmade(d)' \/ (d = c /\ Connect(c))
    <3>1. CASE Connect(c)
      BY <1>0, <2>1, <3>1, ClientQueue DEF Connect, Unmade, ClientsTypeOK
    <3>2. CASE ~Connect(c)
      BY <1>0, <2>1, <3>2, ClientQueue DEF Queued
    <3> QED BY <3>1, <3>2
  <2>4. \A d \in Clients : /\ InTable(d)' = InTable(d) /\ Waited(d)' = Waited(d)
                           /\ Unmade(d) => ~closed[d]
    BY <1>0, <2>1 DEF InTable, Waited, QueueInv, UnmadeIsOpen
  <2> QED BY <2>1, <2>2, <2>3, <2>4 DEF WaitHasConn, AddrIsNew, FreshIsFree, OpenIsOwned
<1>8. CASE Return \/ \E t \in Clients : BrokenPipe(t)
  BY <1>8, ExitOwner DEF Return, BrokenPipe
<1>9. CASE Accept \/ \E t \in Clients : ReturnRecv(t) \/ Close(t)
  BY <1>9, AcceptOwner, ReturnOwner, CloseOwner
<1> QED BY <1>2, <1>3, <1>4, <1>5, <1>6, <1>7, <1>8, <1>9 DEF Next, Thread

LEMMA OwnerInit == Init => OwnerInv
<1> SUFFICES ASSUME Init PROVE OwnerInv
  OBVIOUS
<1>1. QueueInv /\ ClientsTypeOK
  BY QueueInit, InitType DEF Init
<1> QED BY <1>1, ThreadAssumption
        DEF Init, ClientsInit, OwnerInv, TypeOK, WaitHasConn, AddrIsNew, FreshIsFree,
            OpenIsOwned, InTable, Waited, Queued, Unmade

LEMMA OwnerAlways == Spec => []OwnerInv
  BY OwnerInit, OwnerStep, PTL DEF Spec

-----------------------------------------------------------------------------
(* Answers and sends on the way are matched by requests for the time that  *)
(* have been taken off a connection, whoever took them.                    *)
BalanceInv == /\ InboxIsRequest
              /\ IsFiniteSet(Answers) /\ IsFiniteSet(Sending) /\ IsFiniteSet(Asked)
              /\ AnswersAreAskedFor

(* Requests once taken stay taken, so a step that takes at most one and    *)
(* neither answers nor prepares to answer keeps the balance.               *)
LEMMA BalanceKept ==
  ASSUME BalanceInv, InboxIsRequest', NEW c, Answers' = Answers,
         Sending' = Sending \/ Sending' = {},
         Asked \subseteq Asked', Asked' \subseteq Asked \cup {c}
  PROVE  BalanceInv'
<1>1. IsFiniteSet(Asked \cup {c})
  BY FS_AddElement DEF BalanceInv
<1>2. IsFiniteSet(Asked') /\ Cardinality(Asked) <= Cardinality(Asked')
  BY <1>1, FS_Subset
<1>3. /\ Cardinality(Asked) \in Nat /\ Cardinality(Asked') \in Nat
      /\ Cardinality(Answers) \in Nat /\ Cardinality(Sending) \in Nat
      /\ Cardinality({}) = 0 /\ IsFiniteSet({})
  BY <1>2, FS_EmptySet, FS_CardinalityType DEF BalanceInv
<1>4. /\ IsFiniteSet(Sending')
      /\ Cardinality(Sending') \in Nat /\ Cardinality(Sending') <= Cardinality(Sending)
  <2>1. CASE Sending' = Sending
    BY <1>3, <2>1 DEF BalanceInv
  <2>2. CASE Sending' = {}
    BY <1>3, <2>2
  <2> QED BY <2>1, <2>2
<1> QED BY <1>2, <1>3, <1>4 DEF BalanceInv, AnswersAreAskedFor

LEMMA BalanceStep == BalanceInv /\ OwnerInv /\ [Next]_vars => BalanceInv'
<1> SUFFICES ASSUME BalanceInv, OwnerInv, [Next]_vars PROVE BalanceInv'
  OBVIOUS
<1>0. /\ NoConn \notin Clients /\ ClientsTypeOK /\ TimeClients \subseteq Clients
      /\ at \in [Clients -> {"none", "load", "recv", "wait", "send", "close", "end"}]
      /\ InboxIsRequest
  BY ThreadAssumption, ClientsAssumption DEF OwnerInv, TypeOK, BalanceInv
<1>1. ASSUME UNCHANGED <<cpc, inbox, sent>>, Sending' = Sending \/ Sending' = {}
      PROVE  BalanceInv'
  <2>1. Answers' = Answers /\ Asked' = Asked /\ InboxIsRequest'
    BY <1>0, <1>1 DEF Answers, Asked, InboxIsRequest, Request
  <2> QED BY <1>1, <2>1, BalanceKept
<1>2. CASE UNCHANGED vars \/ Done \/ Start \/ StartFails \/ AcceptFails \/ Accept \/ CreateFails
  <2>1. UNCHANGED <<cpc, inbox, sent>> /\ Sending' = Sending
    BY <1>2 DEF Done, Start, StartFails, AcceptFails, Accept, CreateFails, vars, cvars, netvars,
                tvars, Sending
  <2> QED BY <1>1, <2>1
<1>3. CASE Create
  <2>1. /\ UNCHANGED <<cpc, inbox, sent>> /\ at[addrClient] = "none"
        /\ at' = [at EXCEPT ![addrClient] = "load"]
    BY <1>3 DEF Create, Goto, cvars, netvars, OwnerInv, AddrIsNew
  <2>2. Sending' = Sending
    BY <1>0, <2>1 DEF Sending
  <2> QED BY <1>1, <2>1, <2>2
<1>4. CASE Exit
  <2>1. UNCHANGED <<cpc, inbox, sent>> /\ Sending' = {}
    BY <1>4 DEF Exit, Sending
  <2> QED BY <1>1, <2>1
<1>5. ASSUME NEW t \in Clients, Load(t) \/ EnterRecv(t) \/ Close(t) PROVE BalanceInv'
  <2>1. /\ UNCHANGED <<cpc, inbox, sent>>
        /\ at[t] # "send" /\ at'[t] # "send" /\ \A u \in Clients : u # t => at'[u] = at[u]
    BY <1>0, <1>5 DEF Load, EnterRecv, Close, Goto, cvars, netvars
  <2>2. Sending' = Sending
    BY <2>1 DEF Sending
  <2> QED BY <1>1, <2>1, <2>2
<1>6. ASSUME NEW t \in Clients, ReturnRecv(t) PROVE BalanceInv'
  <2> DEFINE c == conn[t]
  <2>1. /\ at[t] = "wait" /\ c \in Clients
        /\ inbox' = [inbox EXCEPT ![c] = "none"]
        /\ at' = [at EXCEPT ![t] = IF inbox[c] = "TIME" THEN "send" ELSE "close"]
        /\ UNCHANGED <<cpc, sent>>
    BY <1>6 DEF ReturnRecv, Read, Goto, OwnerInv, TypeOK, WaitHasConn
  <2> HIDE DEF c
  <2>2. /\ InboxIsRequest' /\ Answers' = Answers
        /\ inbox'[c] = "none" /\ \A d \in Clients : d # c => inbox'[d] = inbox[d]
    BY <1>0, <2>1 DEF InboxIsRequest, Request, Answers, ClientsTypeOK
  <2>3. CASE inbox[c] = "TIME"
    <3>1. c \in TimeClients /\ cpc[c] \notin {"start", "refused", "connected"}
      BY <1>0, <2>1, <2>3 DEF InboxIsRequest, Request
    <3>2. Asked' = Asked \cup {c} /\ c \notin Asked
      BY <1>0, <2>1, <2>2, <2>3, <3>1 DEF Asked
    <3>3. Sending' = Sending \cup {t} /\ t \notin Sending
      BY <1>0, <2>1, <2>3 DEF Sending
    <3>4. /\ IsFiniteSet(Asked') /\ Cardinality(Asked') = Cardinality(Asked) + 1
          /\ IsFiniteSet(Sending') /\ Cardinality(Sending') = Cardinality(Sending) + 1
      BY <3>2, <3>3, FS_AddElement DEF BalanceInv
    <3>5. /\ Cardinality(Asked) \in Nat /\ Cardinality(Answers) \in Nat
          /\ Cardinality(Sending) \in Nat
      BY FS_CardinalityType DEF BalanceInv
    <3> QED BY <2>2, <3>4, <3>5 DEF BalanceInv, AnswersAreAskedFor
  <2>4. CASE inbox[c] # "TIME"
    <3>1. Sending' = Sending
      BY <1>0, <2>1, <2>4 DEF Sending
    <3>2. Asked \subseteq Asked' /\ Asked' \subseteq Asked \cup {c}
      BY <1>0, <2>1, <2>2 DEF Asked
    <3> QED BY <2>2, <3>1, <3>2, BalanceKept
  <2> QED BY <2>3, <2>4
<1>7. ASSUME NEW t \in Clients, SendTime(t) PROVE BalanceInv'
  <2> DEFINE b == Behind(fd[t])
             a == <<b, sent[b] + 1>>
  <2>1. /\ at[t] = "send" /\ at' = [at EXCEPT ![t] = "close"] /\ UNCHANGED <<cpc, inbox>>
        /\ b = NoConn \/ b \in Clients
        /\ sent' = IF b = NoConn THEN sent ELSE [sent EXCEPT ![b] = @ + 1]
    BY <1>7 DEF SendTime, Sent, Goto, Behind, OwnerInv, TypeOK
  <2>2. Answers' \subseteq Answers \cup {a}
    <3>1. CASE b = NoConn
      BY <2>1, <3>1 DEF Answers
    <3>2. CASE b \in Clients
      <4>1. \A c \in Clients : sent'[c] = IF c = b THEN sent[c] + 1 ELSE sent[c]
        BY <1>0, <2>1, <3>2 DEF ClientsTypeOK
      <4> SUFFICES ASSUME NEW c \in Clients, NEW i \in 1 .. sent'[c]
                   PROVE  <<c, i>> \in Answers \cup {a}
        BY DEF Answers
      <4>2. i \in 1 .. sent[c] \/ (c = b /\ i = sent[b] + 1)
        BY <1>0, <4>1 DEF ClientsTypeOK
      <4> QED BY <4>2 DEF Answers
    <3> QED BY <2>1, <3>1, <3>2
  <2> HIDE DEF a, b
  <2>3. Sending' = Sending \ {t} /\ t \in Sending
    BY <1>0, <2>1 DEF Sending
  <2>4. Asked' = Asked /\ InboxIsRequest'
    BY <1>0, <2>1 DEF Asked, InboxIsRequest, Request
  <2>5. /\ IsFiniteSet(Answers \cup {a})
        /\ Cardinality(Answers \cup {a}) = Cardinality(Answers)
           \/ Cardinality(Answers \cup {a}) = Cardinality(Answers) + 1
    BY FS_AddElement DEF BalanceInv
  <2>6. IsFiniteSet(Sending') /\ Cardinality(Sending') = Cardinality(Sending) - 1
    BY <2>3, FS_RemoveElement DEF BalanceInv
  <2>7. /\ Cardinality(Asked) \in Nat /\ Cardinality(Answers) \in Nat
        /\ Cardinality(Sending) \in Nat
    BY FS_CardinalityType DEF BalanceInv
  <2>8. /\ IsFiniteSet(Answers') /\ Cardinality(Answers') <= Cardinality(Answers \cup {a})
        /\ Cardinality(Answers') \in Nat /\ Cardinality(Answers \cup {a}) \in Nat
    BY <2>2, <2>5, FS_Subset, FS_CardinalityType
  <2> QED BY <2>4, <2>5, <2>8, <2>6, <2>7 DEF BalanceInv, AnswersAreAskedFor
<1>8. ASSUME NEW c \in Clients, Client(c) PROVE BalanceInv'
  <2>1. ClientStep(c) /\ UNCHANGED at
    BY <1>8 DEF Client, tvars
  <2>2. /\ UNCHANGED sent
        /\ \A d \in Clients : d # c => cpc'[d] = cpc[d] /\ inbox'[d] = inbox[d]
        /\ Unsent(c)' => Unsent(c) /\ inbox'[c] = inbox[c]
        /\ \/ inbox'[c] = inbox[c]
           \/ cpc[c] = "connected" /\ inbox'[c] \in {"none", Request(c)}
    BY <1>0, <2>1, ClientEffect
  <2>3. InboxIsRequest'
    BY <1>0, <2>2 DEF InboxIsRequest, Request, Unsent
  <2>4. Answers' = Answers /\ Sending' = Sending
    BY <2>1, <2>2 DEF Answers, Sending
  <2>5. Asked \subseteq Asked' /\ Asked' \subseteq Asked \cup {c}
    BY <1>0, <2>2 DEF Asked, Unsent
  <2> QED BY <2>3, <2>4, <2>5, BalanceKept
<1> QED BY <1>2, <1>3, <1>4, <1>5, <1>6, <1>7, <1>8
        DEF Next, Thread, Return, BrokenPipe

(* However the threads are mixed up over fd_client, the server sends no    *)
(* more answers than it was asked for (lines 21-28).                       *)
THEOREM AnswersBalance == Spec => []AnswersAreAskedFor
<1>1. Init => BalanceInv
  <2> SUFFICES ASSUME Init PROVE BalanceInv
    OBVIOUS
  <2>1. Answers = {} /\ Sending = {} /\ Asked = {}
    BY ClientsAssumption DEF Init, ClientsInit, Answers, Sending, Asked
  <2>2. InboxIsRequest
    BY DEF Init, ClientsInit, InboxIsRequest
  <2> QED BY <2>1, <2>2, FS_EmptySet DEF BalanceInv, AnswersAreAskedFor
<1>2. BalanceInv => AnswersAreAskedFor
  BY DEF BalanceInv
<1> QED BY <1>1, <1>2, BalanceStep, OwnerAlways, PTL DEF Spec

-----------------------------------------------------------------------------
(* Spaced arrivals: fd_client still holds the connection just accepted     *)
(* when its thread loads it, every descriptor in use has exactly one       *)
(* thread to its account, and a thread never works on another's.           *)
SpacedNext == Next /\ (Accept \/ AcceptFails => \A t \in Clients : at[t] # "load")
Serving(t) == at[t] \in {"recv", "wait", "send", "close"}
LoadsOwn   == \A t \in Clients : at[t] = "load" =>
                ~Named /\ fdClient \in Fds /\ fdTable[fdClient] = t
ServesOwn  == \A t \in Clients : Serving(t) => fd[t] \in Fds /\ fdTable[fd[t]] = t
AddrIsOpen == Named => fdClient \in Fds /\ fdTable[fdClient] = addrClient
HasServer  == \A n \in Fds : fdTable[n] # NoConn =>
  \/ Named /\ fdClient = n
  \/ at[fdTable[n]] = "load" /\ fdClient = n
  \/ Serving(fdTable[n]) /\ fd[fdTable[n]] = n

OwnInv == LoadsOwn /\ ServesOwn /\ AddrIsOpen /\ HasServer /\ OneThreadPerClient

LEMMA OwnStep == OwnerInv /\ OwnInv /\ [SpacedNext]_vars => OwnInv'
<1> SUFFICES ASSUME OwnerInv, OwnInv, [SpacedNext]_vars PROVE OwnInv'
  OBVIOUS
<1>0. /\ NoConn \notin Clients /\ AddrIsNew /\ FreshIsFree /\ WaitHasConn
      /\ at \in [Clients -> {"none", "load", "recv", "wait", "send", "close", "end"}]
      /\ fd \in [Clients -> Fds \cup {NoFd}] /\ fdTable \in [Fds -> Clients \cup {NoConn}]
      /\ conn \in [Clients -> Clients \cup {NoConn}]
  BY ThreadAssumption DEF OwnerInv, TypeOK
<1> USE DEF OwnInv, LoadsOwn, ServesOwn, AddrIsOpen, HasServer, OneThreadPerClient, Serving
<1>1. CASE \/ UNCHANGED vars \/ Done \/ Start \/ StartFails \/ CreateFails
           \/ \E c \in Clients : Client(c)
  <2>1. /\ UNCHANGED <<fdClient, addrClient, fdTable, at, fd, conn>>
        /\ pc' = pc \/ (pc = "start" /\ pc' \in {"accept", "exit"})
           \/ (pc = "create" /\ pc' = "return")
    BY <1>1 DEF Done, Start, StartFails, CreateFails, Client, vars, tvars
  <2> QED BY <2>1
<1>2. CASE AcceptFails
  <2>1. /\ UNCHANGED <<addrClient, fdTable, at, fd, conn, pc>> /\ pc = "accept"
        /\ fdClient' = fdClient \/ \A t \in Clients : at[t] # "load"
    BY <1>2 DEF AcceptFails, SpacedNext, vars, tvars
  <2> QED BY <1>0, <2>1
<1>3. CASE Accept
  <2> DEFINE n == Min(FreeFds)
  <2>1. PICK c \in Clients :
          /\ pc = "accept" /\ pc' = "create" /\ Accepted(c)
          /\ UNCHANGED <<cpc, listening, inbox, sent, closed, reset>>
          /\ n \in Fds /\ fdTable[n] = NoConn /\ fdClient' = n
          /\ fdTable' = [fdTable EXCEPT ![n] = c] /\ addrClient' = c
          /\ UNCHANGED <<at, fd, conn>>
    BY <1>3, FreeFd DEF Accept, tvars
  <2> HIDE DEF n
  <2>2. \A t \in Clients : at[t] # "load"
    BY <1>3 DEF SpacedNext, Accept, vars
  <2>3. at[c] = "none"
    BY <1>0, <2>1, QueueAccepted DEF OwnerInv, FreshIsFree
  <2>4. fdTable'[n] = c /\ \A m \in Fds : m # n => fdTable'[m] = fdTable[m]
    BY <1>0, <2>1
  <2>5. \A t \in Clients : Serving(t) => fd[t] # n
    BY <1>0, <2>1
  <2> QED BY <1>0, <2>1, <2>2, <2>3, <2>4, <2>5
<1>4. CASE Create
  <2>1. /\ pc = "create" /\ pc' = "accept" /\ addrClient \in Clients
        /\ at[addrClient] = "none" /\ at'[addrClient] = "load"
        /\ \A u \in Clients : u # addrClient => at'[u] = at[u]
        /\ UNCHANGED <<fdClient, fdTable, fd, conn>>
    BY <1>0, <1>4 DEF Create, Goto, AddrIsNew
  <2> QED BY <1>0, <2>1
<1>5. CASE Exit
  <2>1. /\ \A n \in Fds : fdTable'[n] = NoConn
        /\ \A t \in Clients : at'[t] = "none" /\ conn'[t] = NoConn
        /\ pc' = "exit"
    BY <1>5 DEF Exit
  <2> QED BY <2>1
<1>6. ASSUME NEW t \in Clients, Load(t) PROVE OwnInv'
  <2>1. /\ at[t] = "load" /\ at'[t] = "recv" /\ fd'[t] = fdClient
        /\ \A u \in Clients : u # t => at'[u] = at[u] /\ fd'[u] = fd[u]
        /\ UNCHANGED <<pc, fdClient, addrClient, fdTable, conn>>
    BY <1>0, <1>6 DEF Load, Argument, Goto
  <2>2. \A u \in Clients : at[u] = "load" => u = t
    BY <2>1
  <2> QED BY <1>0, <2>1, <2>2
<1>7. ASSUME NEW t \in Clients, EnterRecv(t) \/ ReturnRecv(t) \/ SendTime(t) PROVE OwnInv'
  <2>1. /\ Serving(t) /\ Serving(t)' /\ conn'[t] \in {t, NoConn}
        /\ \A u \in Clients : u # t => at'[u] = at[u] /\ conn'[u] = conn[u]
        /\ UNCHANGED <<pc, fdClient, addrClient, fdTable, fd>>
    BY <1>0, <1>7 DEF EnterRecv, ReturnRecv, SendTime, Goto, Behind
  <2> QED BY <1>0, <2>1
<1>8. ASSUME NEW t \in Clients, Close(t) PROVE OwnInv'
  <2>1. /\ at[t] = "close" /\ at'[t] = "end" /\ fd[t] \in Fds /\ fdTable[fd[t]] = t
        /\ \A u \in Clients : u # t => at'[u] = at[u]
        /\ fdTable'[fd[t]] = NoConn /\ \A n \in Fds : n # fd[t] => fdTable'[n] = fdTable[n]
        /\ UNCHANGED <<pc, fdClient, addrClient, fd, conn>>
    BY <1>0, <1>8 DEF Close, Goto
  <2>2. Named => addrClient # t
    BY <1>0, <2>1 DEF AddrIsNew
  <2>3. \A n \in Fds : n # fd[t] => fdTable[n] # t
    BY <1>0, <2>1, <2>2
  <2> QED BY <1>0, <2>1, <2>2, <2>3
<1> QED BY <1>1, <1>2, <1>3, <1>4, <1>5, <1>6, <1>7, <1>8
        DEF SpacedNext, Next, Thread, Return, BrokenPipe

(* Nobody is connected before listen; a thread about to send has a request *)
(* for the time nobody has answered; and whoever asked for the time and is *)
(* let go has its answer, unless the process has ended.                    *)
StartIsQuiet  == pc = "start" => ~listening /\ \A c \in Clients : Unmade(c)
SendIsDue     == \A t \in Clients : at[t] = "send" => sent[t] = 0 /\ AnswerDue(t)
CloseIsEarned == \A t \in TimeClients :
  at[t] \in {"close", "end"} /\ Asking(t) => sent[t] # 0
EndIsEarned   == \A c \in TimeClients :
  Asking(c) /\ closed[c] => sent[c] # 0 \/ pc = "exit"

SpacedInv == /\ OwnerInv /\ OwnInv /\ AskedInv
             /\ StartIsQuiet /\ SendIsDue /\ CloseIsEarned /\ EndIsEarned

LEMMA SpacedStep == SpacedInv /\ [SpacedNext]_vars => SpacedInv'
<1> SUFFICES ASSUME SpacedInv, [SpacedNext]_vars PROVE SpacedInv'
  OBVIOUS
<1>0. /\ OwnerInv' /\ OwnInv' /\ OwnerInv /\ OwnInv
      /\ ClientsTypeOK /\ QueueInv /\ AskedInv
      /\ TimeClients \subseteq Clients /\ NoConn \notin Clients
      /\ at \in [Clients -> {"none", "load", "recv", "wait", "send", "close", "end"}]
      /\ conn \in [Clients -> Clients \cup {NoConn}]
      /\ closed \in [Clients -> BOOLEAN] /\ sent \in [Clients -> Nat]
  BY OwnerStep, OwnStep, ClientsAssumption, ThreadAssumption
     DEF SpacedInv, SpacedNext, OwnerInv, QueueInv, TypeOK, ClientsTypeOK
<1> USE DEF SpacedInv
<1>1. CASE UNCHANGED vars \/ Done \/ Start \/ StartFails \/ AcceptFails \/ CreateFails
  <2>1. /\ UNCHANGED <<cpc, backlog, inbox, sent, closed, reset, at>>
        /\ pc = "exit" => pc' = "exit"
        /\ pc' = "start" => pc = "start" /\ UNCHANGED listening
    BY <1>1 DEF Done, Start, StartFails, AcceptFails, CreateFails, vars, cvars, netvars, tvars
  <2>2. AskedInv'
    BY <1>0, <2>1, AskedKept DEF Queued
  <2>3. StartIsQuiet'
    BY <2>1 DEF StartIsQuiet, Unmade
  <2> QED BY <1>0, <2>1, <2>2, <2>3 DEF SendIsDue, AnswerDue, Queued, Unsent,
             CloseIsEarned, EndIsEarned, Asking
<1>2. CASE Accept
  <2>1. PICK c \in Clients : /\ Accepted(c) /\ pc = "accept" /\ pc' = "create"
                             /\ UNCHANGED <<cpc, listening, inbox, sent, closed, reset, at>>
    BY <1>2 DEF Accept, tvars
  <2>2. \A d : Queued(d)' => Queued(d)
    BY <1>0, <2>1, QueueAccepted
  <2>3. AskedInv'
    BY <1>0, <2>1, <2>2, AskedKept
  <2> QED BY <1>0, <2>1, <2>2, <2>3 DEF SendIsDue, AnswerDue, Unsent, CloseIsEarned,
             EndIsEarned, Asking, StartIsQuiet
<1>3. CASE Exit
  <2>1. /\ UNCHANGED <<cpc, inbox, sent, reset>> /\ pc' = "exit" /\ backlog' = <<>>
        /\ \A t \in Clients : at'[t] = "none"
    BY <1>3 DEF Exit, StopListening
  <2>2. \A d : ~Queued(d)'
    BY <2>1 DEF Queued
  <2>3. AskedInv'
    BY <1>0, <2>1, <2>2, AskedKept
  <2> QED BY <1>0, <2>1, <2>3 DEF SendIsDue, CloseIsEarned, EndIsEarned, StartIsQuiet
<1>4. CASE Create \/ \E t \in Clients : Load(t) \/ EnterRecv(t)
  <2>1. /\ UNCHANGED <<cpc, backlog, listening, inbox, sent, closed, reset>>
        /\ (pc' # "start" /\ (pc = "exit" => pc' = "exit")) \/ UNCHANGED pc
        /\ \A u \in Clients : at'[u] \in {at[u], "load", "recv", "wait"}
    <3>1. CASE Create
      BY <1>0, <3>1 DEF Create, Goto, cvars, netvars
    <3>2. ASSUME NEW t \in Clients, Load(t) \/ EnterRecv(t)
          PROVE  /\ UNCHANGED <<cpc, backlog, listening, inbox, sent, closed, reset, pc>>
                 /\ \A u \in Clients : at'[u] \in {at[u], "load", "recv", "wait"}
      BY <1>0, <3>2 DEF Load, EnterRecv, Goto, cvars, netvars, OwnInv, ServesOwn, Serving,
                        Behind
    <3> QED BY <1>4, <3>1, <3>2
  <2>2. AskedInv'
    BY <1>0, <2>1, AskedKept DEF Queued
  <2>3. StartIsQuiet'
    BY <2>1 DEF StartIsQuiet, Unmade
  <2> QED BY <1>0, <2>1, <2>2, <2>3 DEF SendIsDue, AnswerDue, Queued, Unsent,
             CloseIsEarned, EndIsEarned, Asking
<1>5. ASSUME NEW t \in Clients, ReturnRecv(t) PROVE SpacedInv'
  <2>1. at[t] = "wait" /\ conn[t] = t /\ \E n \in Fds : fdTable[n] = t
    BY <1>0, <1>5 DEF ReturnRecv, OwnInv, ServesOwn, Serving, OneThreadPerClient,
                      OwnerInv, WaitHasConn
  <2>2. /\ Read(t) /\ UNCHANGED <<cpc, backlog, listening, sent, reset, pc>>
        /\ at'[t] = IF inbox[t] = "TIME" THEN "send" ELSE "close"
        /\ \A u \in Clients : u # t => at'[u] = at[u]
        /\ \A u \in Clients : closed'[u] = closed[u]
    BY <1>0, <1>5, <2>1 DEF ReturnRecv, Goto, DropRef, Released
  <2>3. ~Queued(t)
    BY <1>0, <2>1 DEF OwnerInv, FreshIsFree
  <2>4. /\ AskedInv'
        /\ \A d \in Clients : AnswerDue(d) => AnswerDue(d)'
        /\ inbox[t] = "TIME" => sent[t] = 0 /\ AnswerDue(t)'
        /\ inbox[t] # "TIME" /\ t \in TimeClients => ~Asking(t)
    BY <1>0, <2>2, <2>3, AskedRead
  <2> QED BY <1>0, <2>2, <2>4 DEF SendIsDue, CloseIsEarned, EndIsEarned, Asking,
             StartIsQuiet, Unmade
<1>6. ASSUME NEW t \in Clients, SendTime(t) PROVE SpacedInv'
  <2>1. at[t] = "send" /\ Behind(fd[t]) = t /\ sent[t] = 0 /\ AnswerDue(t)
    BY <1>0, <1>6 DEF SendTime, SendIsDue, OwnInv, ServesOwn, Serving, Behind
  <2>2. /\ Sent(t) /\ UNCHANGED <<cpc, backlog, listening, inbox, closed, pc>>
        /\ at'[t] = "close" /\ \A u \in Clients : u # t => at'[u] = at[u]
    BY <1>0, <1>6, <2>1 DEF SendTime, Goto
  <2>3. /\ AskedInv'
        /\ \A d \in Clients : AnswerDue(d) => AnswerDue(d)'
        /\ sent'[t] = 1 /\ \A d \in Clients : d # t => sent'[d] = sent[d]
    BY <1>0, <2>1, <2>2, AskedSent
  <2> QED BY <1>0, <2>2, <2>3 DEF SendIsDue, CloseIsEarned, EndIsEarned, Asking,
             StartIsQuiet, Unmade
<1>7. ASSUME NEW t \in Clients, BrokenPipe(t) PROVE FALSE
  <2>1. Behind(fd[t]) = t /\ sent[t] = 0 /\ t \in reset
    BY <1>0, <1>7 DEF BrokenPipe, SendIsDue, OwnInv, ServesOwn, Serving, Behind
  <2> QED BY <1>0, <2>1 DEF AskedInv, ResetIsLate
<1>8. ASSUME NEW t \in Clients, Close(t) PROVE SpacedInv'
  <2>1. at[t] = "close" /\ Behind(fd[t]) = t
    BY <1>0, <1>8 DEF Close, OwnInv, ServesOwn, Serving, Behind
  <2>2. /\ UNCHANGED <<cpc, backlog, listening, inbox, sent, reset, pc>>
        /\ at'[t] = "end" /\ \A u \in Clients : u # t => at'[u] = at[u]
        /\ \A u \in Clients : closed'[u] => closed[u] \/ u = t
    BY <1>0, <1>8, <2>1 DEF Close, Goto, DropRef, Released
  <2>3. AskedInv'
    BY <1>0, <2>2, AskedKept DEF Queued
  <2> QED BY <1>0, <2>1, <2>2, <2>3 DEF SendIsDue, AnswerDue, Queued, Unsent,
             CloseIsEarned, EndIsEarned, Asking, StartIsQuiet, Unmade
<1>9. ASSUME NEW c \in Clients, Client(c) PROVE SpacedInv'
  <2>1. ClientStep(c) /\ UNCHANGED <<pc, at>>
    BY <1>9 DEF Client, tvars
  <2>2. /\ UNCHANGED <<listening, sent, closed>>
        /\ \A d \in Clients : d # c => cpc'[d] = cpc[d]
        /\ Asking(c)' => Asking(c) \/ cpc[c] = "start"
    BY <1>0, <2>1, ClientEffect
  <2>3. AskedInv' /\ \A d \in Clients : AnswerDue(d) => AnswerDue(d)'
    BY <1>0, <2>1, AskedClient
  <2>4. \A d \in Clients : cpc[d] = "start" => ~closed[d] /\ at[d] = "none"
    BY <1>0 DEF OwnerInv, FreshIsFree, QueueInv, UnmadeIsOpen, Unmade
  <2>5. SendIsDue'
    BY <2>1, <2>2, <2>3 DEF SendIsDue
  <2>6. CloseIsEarned' /\ EndIsEarned'
    BY <1>0, <2>1, <2>2, <2>4 DEF CloseIsEarned, EndIsEarned, Asking
  <2>7. StartIsQuiet'
    <3>1. CASE Connect(c)
      BY <2>1, <3>1 DEF Connect, StartIsQuiet
    <3>2. CASE ~Connect(c)
      BY <1>0, <2>1, <2>2, <3>2, ClientQueue DEF StartIsQuiet
    <3> QED BY <3>1, <3>2
  <2> QED BY <1>0, <2>3, <2>5, <2>6, <2>7
<1> QED BY <1>1, <1>2, <1>3, <1>4, <1>5, <1>6, <1>7, <1>8, <1>9
        DEF SpacedNext, Next, Thread, Return

LEMMA SpacedInit == Init => SpacedInv
<1> SUFFICES ASSUME Init PROVE SpacedInv
  OBVIOUS
<1>1. OwnerInv /\ AskedInv /\ TimeClients \subseteq Clients
  BY OwnerInit, AskedInit, ClientsAssumption DEF Init
<1> QED BY <1>1 DEF Init, ClientsInit, SpacedInv, OwnInv, LoadsOwn, ServesOwn, Serving,
             AddrIsOpen, HasServer, OneThreadPerClient, StartIsQuiet, SendIsDue,
             CloseIsEarned, EndIsEarned, Asking, Unmade

LEMMA SpacedAlways == SpacedSpec => []SpacedInv
  BY SpacedInit, SpacedStep, PTL DEF SpacedSpec, SpacedNext

LEMMA SpacedMeans == SpacedInv => SpacedHolds /\ (pc # "exit" => \A c \in Clients : ~CutOff(c))
<1> SUFFICES ASSUME SpacedInv
             PROVE  SpacedHolds /\ (pc # "exit" => \A c \in Clients : ~CutOff(c))
  OBVIOUS
<1>1. OneAnswer /\ OneThreadPerClient
  BY AskedOnce DEF SpacedInv, OwnInv
<1>2. \A t \in Clients : Serving(t) => fdTable[fd[t]] = t
  BY DEF SpacedInv, OwnInv, ServesOwn
<1>3. SpacedHolds
  BY <1>1, <1>2 DEF SpacedInv, OwnInv, HasServer, Serving, NothingLost, OneAnswer, SpacedHolds
<1>4. pc # "exit" => \A c \in Clients : ~CutOff(c)
  BY DEF SpacedInv, EndIsEarned, CutOff
<1> QED BY <1>3, <1>4

(* When arrivals leave each new thread the time to load fd_client, a       *)
(* thread serves the client it was created for, no descriptor is lost and  *)
(* each request has at most one answer (lines 15, 21-30, 57).              *)
THEOREM SpacedIsSafe == SpacedSpec => []SpacedHolds
  BY SpacedMeans, SpacedAlways, PTL

-----------------------------------------------------------------------------
(* The arrivals are not spaced.  Nobody answers for a lost descriptor: no  *)
(* thread has its number or will load it, so nobody closes it, and accept  *)
(* does not hand out what is open.                                         *)
LEMMA LostStays ==
  ASSUME OwnerInv, [Next]_vars, InLoop'
  PROVE  \A n \in Lost : n \in Lost' /\ fdTable'[n] = fdTable[n]
<1>0. /\ at \in [Clients -> {"none", "load", "recv", "wait", "send", "close", "end"}]
      /\ fd \in [Clients -> Fds \cup {NoFd}] /\ fdTable \in [Fds -> Clients \cup {NoConn}]
      /\ AddrIsNew
  BY DEF OwnerInv, TypeOK
<1> SUFFICES ASSUME NEW n \in Fds, fdTable[n] # NoConn, ~Held(n)
             PROVE  fdTable'[n] = fdTable[n] /\ ~Held(n)'
  BY DEF Lost
<1> USE DEF Held
<1>1. CASE UNCHANGED vars \/ Done \/ Start \/ \E c \in Clients : Client(c)
  <2>1. UNCHANGED <<fdClient, fdTable, at, fd>> /\ (pc' = pc \/ pc' = "accept")
    BY <1>1 DEF Done, Start, Client, vars, tvars
  <2> QED BY <2>1
<1>2. CASE Accept
  <2> DEFINE m == Min(FreeFds)
  <2>1. PICK c \in Clients : /\ m \in Fds /\ fdTable[m] = NoConn /\ fdClient' = m
                             /\ fdTable' = [fdTable EXCEPT ![m] = c] /\ UNCHANGED <<at, fd>>
    BY <1>2, FreeFd DEF Accept, tvars
  <2> HIDE DEF m
  <2> QED BY <1>0, <2>1
<1>3. CASE AcceptFails
  <2>1. fdClient' = NoFd /\ UNCHANGED <<fdTable, at, fd>> /\ n # NoFd
    BY <1>3, ThreadAssumption DEF AcceptFails, tvars, Fds, NoFd
  <2> QED BY <2>1
<1>4. CASE Create
  <2>1. /\ fdClient # n /\ at[addrClient] = "none" /\ UNCHANGED <<fdClient, fdTable, fd>>
        /\ \A t \in Clients : Serving(t)' => Serving(t)
    BY <1>0, <1>4 DEF Create, Goto, Serving, AddrIsNew
  <2> QED BY <2>1 DEF Serving
<1>5. ASSUME NEW t \in Clients, Load(t) PROVE fdTable'[n] = fdTable[n] /\ ~Held(n)'
  <2>1. /\ at[t] = "load" /\ at'[t] = "recv" /\ fd'[t] = fdClient /\ fdClient # n
        /\ \A u \in Clients : u # t => at'[u] = at[u] /\ fd'[u] = fd[u]
        /\ UNCHANGED <<pc, fdClient, fdTable>>
    BY <1>0, <1>5 DEF Load, Argument, InLoop, Goto
  <2> QED BY <2>1
<1>6. ASSUME NEW t \in Clients, EnterRecv(t) \/ ReturnRecv(t) \/ SendTime(t)
      PROVE  fdTable'[n] = fdTable[n] /\ ~Held(n)'
  <2>1. /\ Serving(t) /\ Serving(t)' /\ \A u \in Clients : u # t => at'[u] = at[u]
        /\ UNCHANGED <<pc, fdClient, fdTable, fd>>
    BY <1>0, <1>6 DEF EnterRecv, ReturnRecv, SendTime, Goto, Serving
  <2> QED BY <2>1 DEF Serving
<1>7. ASSUME NEW t \in Clients, Close(t) PROVE fdTable'[n] = fdTable[n] /\ ~Held(n)'
  <2>1. /\ at[t] = "close" /\ at'[t] = "end" /\ fd[t] # n
        /\ \A u \in Clients : u # t => at'[u] = at[u]
        /\ fdTable'[n] = fdTable[n] /\ UNCHANGED <<pc, fdClient, fd>>
    BY <1>0, <1>7 DEF Close, Goto
  <2> QED BY <2>1
<1>8. CASE StartFails \/ CreateFails \/ Return \/ \E t \in Clients : BrokenPipe(t)
  BY <1>8 DEF StartFails, CreateFails, Return, BrokenPipe, Exit, InLoop
<1> QED BY <1>1, <1>2, <1>3, <1>4, <1>5, <1>6, <1>7, <1>8 DEF Next, Thread

(* While nothing is lost the arrivals have been as good as spaced: an      *)
(* accept that overwrites what a thread has still to load loses it.        *)
MixInv == InLoop /\ Lost = {} => SpacedInv

LEMMA OverwritingLoses ==
  ASSUME OwnerInv, OwnInv, Accept \/ AcceptFails, NEW t \in Clients, at[t] = "load"
  PROVE  Lost' # {}
<1>0. /\ NoConn \notin Clients /\ fdTable \in [Fds -> Clients \cup {NoConn}]
      /\ fd \in [Clients -> Fds \cup {NoFd}]
  BY ThreadAssumption DEF OwnerInv, TypeOK
<1>1. PICK n \in Fds : n = fdClient /\ fdTable[n] = t
  BY DEF OwnInv, LoadsOwn
<1>2. \A u \in Clients : Serving(u) => fd[u] # n
  BY <1>1 DEF OwnInv, ServesOwn, Serving
<1>3. fdClient' # n /\ fdTable'[n] = t /\ UNCHANGED <<at, fd>>
  <2>1. CASE Accept
    <3> DEFINE m == Min(FreeFds)
    <3>1. PICK c \in Clients : /\ m \in Fds /\ fdTable[m] = NoConn /\ fdClient' = m
                               /\ fdTable' = [fdTable EXCEPT ![m] = c] /\ UNCHANGED <<at, fd>>
      BY <2>1, FreeFd DEF Accept, tvars
    <3> HIDE DEF m
    <3> QED BY <1>0, <1>1, <3>1
  <2>2. CASE AcceptFails
    BY <1>1, <2>2, ThreadAssumption DEF AcceptFails, tvars, Fds, NoFd
  <2> QED BY <2>1, <2>2
<1>4. ~Held(n)'
  BY <1>2, <1>3 DEF Held, Serving
<1> QED BY <1>0, <1>1, <1>3, <1>4 DEF Lost

LEMMA MixStep == OwnerInv /\ MixInv /\ [Next]_vars => MixInv'
<1> SUFFICES ASSUME OwnerInv, MixInv, [Next]_vars, InLoop', Lost' = {}
             PROVE  SpacedInv'
  BY DEF MixInv
<1>1. InLoop
  <2> USE DEF InLoop
  <2>1. CASE UNCHANGED vars \/ Done \/ \E c \in Clients : Client(c)
    BY <2>1 DEF vars, Done, Client
  <2>2. CASE Start \/ StartFails \/ Accept \/ AcceptFails \/ Create \/ CreateFails \/ Return
             \/ \E t \in Clients : BrokenPipe(t)
    BY <2>2 DEF Start, StartFails, Accept, AcceptFails, Create, CreateFails, Return, BrokenPipe, Exit
  <2>3. CASE \E t \in Clients : Load(t) \/ EnterRecv(t) \/ ReturnRecv(t) \/ SendTime(t) \/ Close(t)
    BY <2>3 DEF Load, EnterRecv, ReturnRecv, SendTime, Close
  <2> QED BY <2>1, <2>2, <2>3 DEF Next, Thread
<1>2. Lost = {}
  BY LostStays
<1>3. SpacedInv
  BY <1>1, <1>2 DEF MixInv
<1>4. [SpacedNext]_vars
  BY <1>3, OverwritingLoses DEF SpacedInv, SpacedNext
<1> QED BY <1>3, <1>4, SpacedStep

(* Whatever the race over fd_client mixes up, it has lost a descriptor     *)
(* before: until then every thread serves its own client, nobody is        *)
(* answered twice and nobody is cut off, and what is lost stays lost       *)
(* (lines 15, 30, 42 and 45).                                              *)
THEOREM RaceCostsDescriptors == Spec => MixUpsLoseDescriptors
<1> DEFINE Good == InLoop /\ Lost = {} => SpacedHolds /\ \A c \in Clients : ~CutOff(c)
           Stays == InLoop' => \A n \in Lost : n \in Lost' /\ fdTable'[n] = fdTable[n]
<1>1. Init => MixInv
  BY SpacedInit DEF MixInv
<1>2. MixInv => Good
  BY SpacedMeans DEF MixInv, InLoop
<1>3. OwnerInv /\ [Next]_vars => [Stays]_vars
  BY LostStays
<1>4. Spec => []Good
  <2> HIDE DEF Good
  <2> QED BY <1>1, <1>2, MixStep, OwnerAlways, PTL DEF Spec
<1>5. Spec => [][Stays]_vars
  <2> HIDE DEF Stays
  <2> QED BY <1>3, OwnerAlways, PTL DEF Spec
<1> QED BY <1>4, <1>5 DEF MixUpsLoseDescriptors

-----------------------------------------------------------------------------
(* A step of main starts or stops the time service, a thread's is not      *)
(* seen, a client moves its own request.                                   *)
LEMMA ServiceStep == SpacedInv /\ [SpacedNext]_vars => [T!TimeNext]_(T!tvars)
<1> DEFINE Up == pc \notin {"start", "exit"}
<1> SUFFICES ASSUME SpacedInv, [SpacedNext]_vars
             PROVE  T!TimeNext \/ (Up' = Up /\ Requests' = Requests)
  BY DEF T!tvars, Requests
<1>0. ClientsTypeOK /\ AskedInv
  BY DEF SpacedInv, OwnerInv, QueueInv
<1>1. ASSUME UNCHANGED cpc PROVE Requests' = Requests
  BY <1>1 DEF Requests, Phase, Asking
<1>2. CASE UNCHANGED vars \/ Done \/ StartFails \/ Accept \/ AcceptFails \/ Create
           \/ CreateFails
           \/ \E t \in Clients : Load(t) \/ EnterRecv(t) \/ ReturnRecv(t) \/ SendTime(t)
                                 \/ Close(t)
  <2>1. UNCHANGED cpc /\ Up' = Up
    BY <1>2 DEF Done, StartFails, Accept, AcceptFails, Create, CreateFails, Load, EnterRecv, ReturnRecv,
                SendTime, Close, vars, cvars
  <2> QED BY <1>1, <2>1
<1>3. CASE Start
  <2>1. UNCHANGED cpc /\ ~Up /\ Up' /\ \A c \in Clients : Unmade(c)
    BY <1>3 DEF Start, SpacedInv, StartIsQuiet
  <2>2. \A c \in Clients : Requests[c] \in {"out", "turned away"}
    BY <2>1 DEF Requests, Phase, Asking, Unmade
  <2>3. T!StartUp
    BY <1>1, <2>1, <2>2 DEF T!StartUp, Requests
  <2> QED BY <2>3 DEF T!TimeNext
<1>4. CASE Return
  <2>1. UNCHANGED cpc /\ Up /\ ~Up'
    BY <1>4 DEF Return, Exit
  <2>2. T!ShutDown
    BY <1>1, <2>1 DEF T!ShutDown, Requests
  <2> QED BY <2>2 DEF T!TimeNext
<1>5. ASSUME NEW t \in Clients, BrokenPipe(t) PROVE FALSE
  <2>1. Behind(fd[t]) = t /\ sent[t] = 0 /\ t \in reset
    BY <1>5 DEF BrokenPipe, SpacedInv, SendIsDue, OwnInv, ServesOwn, Serving, Behind
  <2> QED BY <1>0, <2>1 DEF AskedInv, ResetIsLate
<1>6. ASSUME NEW c \in Clients, Client(c)
      PROVE  T!TimeNext \/ (Up' = Up /\ Requests' = Requests)
  <2>1. ClientStep(c) /\ Up' = Up
    BY <1>6 DEF Client
  <2>2. sent[c] # 0 => c \in TimeClients
    BY <1>0 DEF AskedInv, AnswerIsDue, AnswerDue
  <2>3. sent[c] = 0 /\ closed[c] /\ Asking(c) /\ Up => c \notin TimeClients
    BY DEF SpacedInv, EndIsEarned
  <2>4. \/ Requests' = Requests
        \/ T!Ask(c) \/ T!TurnAway(c) \/ T!Answer(c) \/ T!Drop(c) \/ T!Leave(c)
    <3> USE DEF T!Ask, T!TurnAway, T!Answer, T!Drop, T!Leave, T!Move, Requests
    <3> QED BY <1>0, <2>1, <2>2, <2>3, ClientPhase
  <2> QED BY <2>1, <2>4 DEF T!TimeNext
<1> QED BY <1>2, <1>3, <1>4, <1>5, <1>6 DEF SpacedNext, Next, Thread

(* With spaced arrivals the threaded server implements the time service,   *)
(* for every number of clients and every descriptor table.                 *)
THEOREM SpacedServesTime == SpacedSpec => ImplementsTimeService
<1>1. Init => T!TimeInit
  BY DEF Init, ClientsInit, T!TimeInit, Phase, Asking
<1> QED BY <1>1, ServiceStep, SpacedAlways, PTL
        DEF SpacedSpec, SpacedNext, ImplementsTimeService, T!TimeSpec
=============================================================================
