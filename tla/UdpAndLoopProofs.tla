------------------------- MODULE UdpAndLoopProofs -------------------------
(***************************************************************************)
(* Two bodies of proofs that share nothing but this file.  The first is    *)
(* about the datagram programs of MCUdp: its theorems rest on UdpInv.  The *)
(* second is about the loops of MCAlgorithms: each algorithm has an        *)
(* invariant of its own (NumInv, MergeInv, SetInv, BubbleInv, SearchInv,   *)
(* EraseInv, TableInv, InsertInv, FindInv), a lemma that it holds at the   *)
(* beginning, one that every step keeps it and one that it says what the   *)
(* properties say; LoopsInv joins them at the end.  What a loop may not    *)
(* lose or invent is counted: Amount is the number of places, of a part of *)
(* a sequence, that hold a value, and a bijection of places (Matches)      *)
(* keeps it.                                                               *)
(***************************************************************************)
EXTENDS MCUdp, MCAlgorithms, FiniteSetTheorems, SequenceTheorems, TLAPS

(* Only who asked for the time and was heard can have an answer, or get    *)
(* one; and nobody is heard before the server is bound.                    *)
OnlyTheHeard == /\ \A c \in Clients : tells[c] > 0 \/ cpc[c] = "done" \/ hand = c
                                      => c \in heard /\ c \in TimeClients
                /\ srv # "bound" => heard = {}

UdpInv == TypeOK /\ OnlyTheHeard

(* What the network does to the number of copies stays within its bounds.  *)
LEMMA PutType == ASSUME NEW box \in [Clients -> 0 .. Copies], NEW c \in Clients
                 PROVE  /\ Put(box, c) \in [Clients -> 0 .. Copies]
                        /\ \A d \in Clients \ {c} : Put(box, c)[d] = box[d]
                        /\ Put(box, c)[c] > 0
  BY NetAssumption DEF Put

LEMMA TakeType == ASSUME NEW box \in [Clients -> 0 .. Copies], NEW c \in Clients, box[c] > 0
                  PROVE  /\ Take(box, c) \in [Clients -> 0 .. Copies]
                         /\ \A d \in Clients \ {c} : Take(box, c)[d] = box[d]
  BY NetAssumption DEF Take

(* A fault makes no datagram where there was none. *)
LEMMA NothingFromNothing ==
  ASSUME TypeOK, NEW c \in Clients, Lose(c) \/ Duplicate(c)
  PROVE  /\ asks' \in [Clients -> 0 .. Copies] /\ tells' \in [Clients -> 0 .. Copies]
         /\ \A d \in Clients : (tells[d] = 0 => tells'[d] = 0) /\ (asks[d] = 0 => asks'[d] = 0)
<1> USE DEF TypeOK, NetTypeOK
<1>1. CASE asks[c] > 0 /\ asks' = Take(asks, c) /\ UNCHANGED tells
  BY <1>1, TakeType
<1>2. CASE tells[c] > 0 /\ tells' = Take(tells, c) /\ UNCHANGED asks
  BY <1>2, TakeType
<1>3. CASE asks[c] > 0 /\ asks' = Put(asks, c) /\ UNCHANGED tells
  BY <1>3, PutType
<1>4. CASE tells[c] > 0 /\ tells' = Put(tells, c) /\ UNCHANGED asks
  BY <1>4, PutType
<1> QED BY <1>1, <1>2, <1>3, <1>4, NetAssumption DEF Lose, Duplicate

LEMMA UdpInvInit == Init => UdpInv
  BY NetAssumption, TimeAssumption DEF Init, NetInit, UdpInv, TypeOK, NetTypeOK, OnlyTheHeard

LEMMA ClientKeeps ==
  ASSUME UdpInv, NEW c \in Clients, Send(c) \/ SocketFails(c) \/ Recv(c)
  PROVE  UdpInv'
<1> USE TimeAssumption DEF UdpInv, TypeOK, NetTypeOK, OnlyTheHeard, Is
<1>1. CASE Send(c)
  BY <1>1, PutType DEF Send
<1>2. CASE SocketFails(c)
  BY <1>2 DEF SocketFails, net
<1>3. CASE Recv(c)
  BY <1>3, TakeType DEF Recv
<1> QED BY <1>1, <1>2, <1>3

LEMMA ServerKeeps == ASSUME UdpInv, SocketFailed \/ BindFailed \/ Bind \/ Server PROVE UdpInv'
<1> USE TimeAssumption DEF UdpInv, TypeOK, NetTypeOK, OnlyTheHeard
<1>1. CASE SocketFailed \/ BindFailed \/ Bind
  BY <1>1 DEF SocketFailed, BindFailed, Bind, net
<1>2. ASSUME NEW c \in Clients, Receive(c) PROVE UdpInv'
  <2>1. asks' \in [Clients -> 0 .. Copies]
    BY <1>2, TakeType DEF Receive
  <2>2. /\ hand' \in TimeClients \cup {NoClient} /\ (hand' \in Clients => hand' = c)
        /\ srv = "bound" /\ heard' = heard \cup {c} /\ UNCHANGED <<tells, lost, srv, cpc>>
    BY <1>2 DEF Receive
  <2> QED BY <2>1, <2>2
<1>3. CASE SendTime
  <2>1. hand \in TimeClients /\ hand \in Clients /\ hand \in heard
    BY <1>3 DEF SendTime
  <2>2. tells' \in [Clients -> 0 .. Copies] /\ \A d \in Clients \ {hand} : tells'[d] = tells[d]
    BY <1>3, <2>1, PutType DEF SendTime
  <2> QED BY <1>3, <2>1, <2>2 DEF SendTime
<1> QED BY <1>1, <1>2, <1>3 DEF Server

LEMMA NetworkKeeps == ASSUME UdpInv, NEW c \in Clients, Unreachable(c) \/ Faults(c) PROVE UdpInv'
<1> USE TimeAssumption DEF UdpInv, TypeOK, NetTypeOK, OnlyTheHeard
<1>1. CASE Unreachable(c)
  BY <1>1, TakeType DEF Unreachable
<1>2. CASE Faults(c)
  <2>1. /\ asks' \in [Clients -> 0 .. Copies] /\ tells' \in [Clients -> 0 .. Copies]
        /\ \A d \in Clients : tells[d] = 0 => tells'[d] = 0
    BY <1>2, NothingFromNothing DEF Faults
  <2>2. lost' \subseteq Clients
    BY <1>2 DEF Faults, Lose, Duplicate
  <2> QED BY <1>2, <2>1, <2>2 DEF Faults
<1> QED BY <1>1, <1>2

LEMMA UdpInvStep == UdpInv /\ [Next]_vars => UdpInv'
<1> SUFFICES ASSUME UdpInv, [Next]_vars PROVE UdpInv'
  OBVIOUS
<1>1. CASE UNCHANGED vars
  BY <1>1 DEF vars, net, UdpInv, TypeOK, NetTypeOK, OnlyTheHeard
<1> QED BY <1>1, ClientKeeps, ServerKeeps, NetworkKeeps DEF Next

LEMMA UdpInvAlways == Spec => []UdpInv
  BY UdpInvInit, UdpInvStep, PTL DEF Spec

(* The variables never leave their types: no more copies than the network  *)
(* makes, and only requests for the time in the server's hand.             *)
THEOREM UdpTypes == Spec => []TypeOK
<1>1. UdpInv => TypeOK
  BY DEF UdpInv
<1> QED BY <1>1, UdpInvAlways, PTL

-----------------------------------------------------------------------------
LEMMA HopelessStep ==
  ASSUME UdpInv, [Next]_vars, NEW c \in Clients, Hopeless(c)
  PROVE  Hopeless(c)'
<1> USE TimeAssumption DEF UdpInv, TypeOK, NetTypeOK, Hopeless
<1>1. CASE UNCHANGED vars
  BY <1>1 DEF vars, net
<1>2. CASE SocketFailed \/ BindFailed \/ Bind
  BY <1>2 DEF SocketFailed, BindFailed, Bind, net
<1>3. CASE SendTime
  BY <1>3, PutType DEF SendTime
<1>4. ASSUME NEW d \in Clients, Receive(d) \/ Unreachable(d) PROVE Hopeless(c)'
  <2>1. asks[d] > 0 /\ d # c /\ asks' = Take(asks, d) /\ UNCHANGED <<tells, cpc>>
    BY <1>4 DEF Receive, Unreachable
  <2>2. hand' # c
    BY <1>4, <2>1 DEF Receive, Unreachable
  <2> QED BY <2>1, <2>2, TakeType
<1>5. ASSUME NEW d \in Clients, Send(d) \/ SocketFails(d) \/ Recv(d) PROVE Hopeless(c)'
  <2>1. d # c
    BY <1>5 DEF Send, SocketFails, Recv, Is
  <2>2. CASE Send(d)
    BY <2>1, <2>2, PutType DEF Send, Is
  <2>3. CASE SocketFails(d)
    BY <2>1, <2>3 DEF SocketFails, Is, net
  <2>4. CASE Recv(d)
    BY <2>1, <2>4, TakeType DEF Recv, Is
  <2> QED BY <1>5, <2>2, <2>3, <2>4
<1>6. ASSUME NEW d \in Clients, Faults(d) PROVE Hopeless(c)'
  <2>1. asks'[c] = 0 /\ tells'[c] = 0
    BY <1>6, NothingFromNothing DEF Faults
  <2> QED BY <1>6, <2>1 DEF Faults
<1> QED BY <1>1, <1>2, <1>3, <1>4, <1>5, <1>6 DEF Next, Server

(* A client nothing of whom is under way waits for ever: nothing is sent a *)
(* second time (client.c:33-37).                                           *)
THEOREM WaitingIsFinal == Spec => WaitsForGood
<1>1. UdpInv /\ [Next]_vars => \A c \in Clients : Hopeless(c) => Hopeless(c)'
  BY HopelessStep
<1> QED BY <1>1, UdpInvAlways, PTL DEF Spec, WaitsForGood

-----------------------------------------------------------------------------
LEMMA ServiceInit == Init => Service!TimeInit
  BY DEF Init, Service!TimeInit

LEMMA ServiceStep == UdpInv /\ [Next]_vars => [Service!TimeNext]_(Service!tvars)
<1> SUFFICES ASSUME UdpInv, [Next]_vars PROVE [Service!TimeNext]_(Service!tvars)
  OBVIOUS
<1> USE TimeAssumption DEF UdpInv, TypeOK, NetTypeOK, OnlyTheHeard
<1>1. CASE UNCHANGED vars
  BY <1>1 DEF vars, Service!tvars
<1>2. CASE SocketFailed \/ BindFailed
  BY <1>2 DEF SocketFailed, BindFailed, Service!tvars
<1>3. CASE Bind
  BY <1>3 DEF Bind, Service!TimeNext, Service!StartUp
<1>4. ASSUME NEW c \in Clients, Receive(c) PROVE [Service!TimeNext]_(Service!tvars)
  <2>1. srv = "bound" /\ heard' = heard \cup {c} /\ UNCHANGED <<srv, cpc>>
    BY <1>4 DEF Receive
  <2>2. CASE c \in heard
    BY <2>1, <2>2 DEF Service!tvars
  <2>3. CASE c \notin heard
    BY <2>1, <2>3 DEF Service!TimeNext, Service!Ask, Service!Move
  <2> QED BY <2>2, <2>3
<1>5. ASSUME NEW c \in Clients, Recv(c) PROVE [Service!TimeNext]_(Service!tvars)
  <2>1. /\ c \in TimeClients /\ c \in heard /\ cpc[c] = "waiting"
        /\ cpc' = [cpc EXCEPT ![c] = "done"] /\ UNCHANGED <<srv, heard>>
    BY <1>5 DEF Recv, Is
  <2> QED BY <2>1 DEF Service!TimeNext, Service!Answer, Service!Move
<1>6. CASE SendTime
  BY <1>6 DEF SendTime, Service!tvars
<1>7. ASSUME NEW c \in Clients, Send(c) \/ SocketFails(c) \/ Unreachable(c) \/ Faults(c)
      PROVE [Service!TimeNext]_(Service!tvars)
  <2>1. UNCHANGED <<srv, heard>> /\ \A d \in Clients : cpc'[d] = "done" <=> cpc[d] = "done"
    BY <1>7 DEF Send, SocketFails, Unreachable, Faults, Is
  <2> QED BY <2>1 DEF Service!tvars
<1> QED BY <1>1, <1>2, <1>3, <1>4, <1>5, <1>6, <1>7 DEF Next, Server

(* The server and its network implement the time service of the TCP        *)
(* servers for every number of clients: only who asked for the time and    *)
(* was heard is told it (server.c:36-47), faults or not.                   *)
THEOREM UdpServesTime == Spec => TellsTheTime
  BY ServiceInit, ServiceStep, UdpInvAlways, PTL DEF Spec, TellsTheTime, Service!TimeSpec

-----------------------------------------------------------------------------
(* The echo clients.  The server has room for nothing, so it keeps nothing *)
(* of a datagram and every echo is empty; an empty echo is written over    *)
(* none of a client's buffer, and neither is an error: a client shows what *)
(* it has sent.                                                            *)
EchoInv == /\ eCpc \in [EchoClients -> {"start", "waiting", "print", "done", "failed"}]
           /\ sbuf = EC!Nothing /\ size = 0
           /\ echoes \in [EchoClients -> SUBSET {EC!Nothing}]
           /\ buf = [c \in EchoClients |-> EC!Hello] /\ DOMAIN shown = EchoClients
           /\ \A c \in EchoClients : eCpc[c] = "done" => shown[c] = EC!Hello

(* What no room and no words leave of a buffer.                            *)
LEMMA NothingKept == EC!Kept(EC!Hello, Len(EC!Nothing)) = EC!Nothing
  BY DEF EC!Kept, EC!Hello, EC!Nothing

LEMMA NothingWritten == EC!Over(EC!Kept(EC!Nothing, Len(EC!Hello)), EC!Hello) = EC!Hello
<1>1. EC!Kept(EC!Nothing, Len(EC!Hello)) = <<>>
  BY DEF EC!Kept, EC!Hello, EC!Nothing
<1>2. EC!Hello \in Seq({"HELLO", "UDP"})
  BY DEF EC!Hello
<1>3. SubSeq(EC!Hello, 1, Len(EC!Hello)) = EC!Hello /\ <<>> \o EC!Hello = EC!Hello
  BY <1>2
<1>4. Len(<<>>) + 1 = 1
  OBVIOUS
<1> QED BY <1>1, <1>3, <1>4 DEF EC!Over

LEMMA EchoInvInit == EC!Init => EchoInv
  BY DEF EC!Init, EchoInv

LEMMA EchoInvStep == EchoInv /\ [EC!Next]_EC!vars => EchoInv'
<1> SUFFICES ASSUME EchoInv, [EC!Next]_EC!vars PROVE EchoInv'
  OBVIOUS
<1> USE DEF EchoInv, EC!served
<1>1. CASE UNCHANGED EC!vars
  BY <1>1 DEF EC!vars
<1>2. CASE EC!SocketFailed \/ EC!Bind
  BY <1>2 DEF EC!SocketFailed, EC!Bind
<1>3. CASE EC!Echo
  <2>1. SubSeq(sbuf, 1, size) = EC!Nothing
    BY DEF EC!Nothing
  <2> QED BY <1>3, <2>1 DEF EC!Echo
<1>4. ASSUME NEW c \in EchoClients, EC!Receive(c) PROVE EchoInv'
  <2>1. size' = Len(EC!Nothing) /\ sbuf' = EC!Over(EC!Nothing, EC!Nothing)
    BY <1>4, NothingKept DEF EC!Receive
  <2>2. Len(EC!Nothing) = 0 /\ EC!Over(EC!Nothing, EC!Nothing) = EC!Nothing
    BY DEF EC!Nothing, EC!Over
  <2> QED BY <1>4, <2>1, <2>2 DEF EC!Receive
<1>5. ASSUME NEW c \in EchoClients, EC!Recv(c) PROVE EchoInv'
  <2>1. CASE UNCHANGED buf
    BY <1>5, <2>1 DEF EC!Recv, EC!Is
  <2>2. ASSUME NEW w \in echoes[c], buf' = [buf EXCEPT ![c] = EC!Over(EC!Kept(w, Len(EC!Hello)), buf[c])]
        PROVE  buf' = buf
    <3>1. w = EC!Nothing /\ buf[c] = EC!Hello
      OBVIOUS
    <3> QED BY <2>2, <3>1, NothingWritten
  <2> QED BY <1>5, <2>1, <2>2 DEF EC!Recv
<1>6. ASSUME NEW c \in EchoClients, EC!Unreachable(c) \/ EC!Faults(c) PROVE EchoInv'
  BY <1>6 DEF EC!Unreachable, EC!Faults
<1>7. ASSUME NEW c \in EchoClients, EC!Send(c) \/ EC!SocketFails(c) PROVE EchoInv'
  BY <1>7 DEF EC!Send, EC!SocketFails, EC!Is
<1>8. ASSUME NEW c \in EchoClients, EC!ShowBuf(c) PROVE EchoInv'
  BY <1>8 DEF EC!ShowBuf, EC!Is
<1> QED BY <1>1, <1>2, <1>3, <1>4, <1>5, <1>6, <1>7, <1>8 DEF EC!Next

LEMMA EchoMeaning == EchoInv => EC!PrintsItsOwnWords
  BY DEF EchoInv, EC!PrintsItsOwnWords, EC!Nothing

(* Every echo is empty, since the server receives into a buffer without    *)
(* room (server.c:13-21), and so every echo client prints its own words,   *)
(* whatever the network does and whether anybody has echoed them or not    *)
(* (client.c:17-19).                                                       *)
THEOREM EchoesItself == EC!Spec => []EC!PrintsItsOwnWords
  BY EchoMeaning, EchoInvInit, EchoInvStep, PTL DEF EC!Spec

-----------------------------------------------------------------------------
(* One program a behaviour: what holds of each holds of both in one model. *)
BothInv == /\ program = "time" => UdpInv
           /\ program = "echo" => EchoInv

(* The time server stays in its ranges, the echo server sends nothing back *)
(* and its clients print their own words, for every number of clients of   *)
(* either.                                                                 *)
THEOREM DatagramsAreSafe == MCSpec => []DatagramsHold
<1>1. MCInit => BothInv
  BY UdpInvInit, EchoInvInit DEF MCInit, BothInv
<1>2. BothInv /\ [MCNext]_MCvars => BothInv'
  <2> SUFFICES ASSUME BothInv, [MCNext]_MCvars PROVE BothInv'
    OBVIOUS
  <2>1. program' = program
    BY DEF MCNext, Time, Echo, MCvars
  <2>2. program = "time" => [Next]_vars
    BY DEF MCNext, Time, Echo, MCvars
  <2>3. program = "echo" => [EC!Next]_EC!vars
    BY DEF MCNext, Time, Echo, MCvars, echoVars, EC!vars, EC!net, EC!served
  <2> QED BY <2>1, <2>2, <2>3, UdpInvStep, EchoInvStep DEF BothInv
<1>3. BothInv => DatagramsHold
  BY EchoMeaning DEF BothInv, DatagramsHold, UdpInv
<1> QED BY <1>1, <1>2, <1>3, PTL DEF MCSpec

---------------------------------------------------------------------------

(* Prime/stl/9-4.cpp: nothing the iterator has passed is the number.       *)
FindInv == /\ fn \in {"find_num", "find_value"} /\ vec \in Seq({1, 4, 101}) /\ num \in {1, 70, 101}
           /\ begin \in 1 .. Len(vec) + 1
           /\ \A q \in 1 .. begin - 1 : vec[q] # num
           /\ \/ back = <<>>
              \/ begin <= Len(vec) /\ vec[begin] = num /\ back = <<IF fn = "find_num" THEN 1 ELSE num>>
              \/ begin = Len(vec) + 1 /\ back = <<IF fn = "find_num" THEN 0 ELSE 101>>

(* What an instance bounds is a sequence of a bounded length.              *)
LEMMA BoundedSequences == ASSUME NEW S, NEW n \in Nat, NEW s \in UNION {[1 .. m -> S] : m \in 0 .. n}
                          PROVE  s \in Seq(S) /\ Len(s) <= n
<1>1. PICK m \in 0 .. n : s \in [1 .. m -> S]
  OBVIOUS
<1> QED BY <1>1

(* The search begins with nothing passed.                                  *)
LEMMA FindInitial == PR!FindInit => FindInv
<1> SUFFICES ASSUME PR!FindInit PROVE FindInv
  OBVIOUS
<1>1. MostItems \in Nat
  BY LoopsAssumption DEF PR!EraseAssumption
<1>2. vec \in Seq({1, 4, 101})
  BY <1>1, BoundedSequences DEF PR!FindInit, PR!BoundedSeq, PR!SeqOf
<1> QED BY <1>2 DEF PR!FindInit, FindInv

(* A number that is not the one looked for is passed.                      *)
LEMMA FindStep == FindInv /\ [PR!FindNext]_findVars => FindInv'
<1> SUFFICES ASSUME FindInv, [PR!FindNext]_findVars PROVE FindInv'
  OBVIOUS
<1>1. CASE PR!Hit
  BY <1>1 DEF FindInv, PR!Hit
<1>2. CASE PR!Miss
  BY <1>2 DEF FindInv, PR!Miss
<1>3. CASE PR!FindEnd
  BY <1>3 DEF FindInv, PR!FindEnd
<1>4. CASE UNCHANGED findVars
  BY <1>4 DEF FindInv, findVars
<1> QED BY <1>1, <1>2, <1>3, <1>4 DEF PR!FindNext

(* So the number is found if it is there, and 101 stands for the rest.     *)
LEMMA FindMeaning == FindInv => PR!FoundUnless101
<1> SUFFICES ASSUME FindInv PROVE PR!FoundUnless101
  OBVIOUS
<1>1. num \in PR!Range(vec) <=> \E q \in 1 .. Len(vec) : vec[q] = num
  BY DEF PR!Range, FindInv
<1>2. CASE back = <<>>
  BY <1>2 DEF FindInv, PR!FoundUnless101
<1>3. CASE begin <= Len(vec) /\ vec[begin] = num /\ back = <<IF fn = "find_num" THEN 1 ELSE num>>
  BY <1>1, <1>3 DEF FindInv, PR!FoundUnless101
<1>4. CASE begin = Len(vec) + 1 /\ back = <<IF fn = "find_num" THEN 0 ELSE 101>>
  BY <1>1, <1>4 DEF FindInv, PR!FoundUnless101
<1> QED BY <1>2, <1>3, <1>4 DEF FindInv

(* Prime/1/type_chag.cpp: the results so far are those of the functions    *)
(* called so far, and the quotient is only asked for a positive divisor.   *)
Functions == {"add", "sub", "mul", "divv"}
TableInv == /\ funX \in Int /\ funY \in Int
            /\ vp \in Seq(Functions) /\ Len(vp) <= 4
            /\ (Len(vp) >= 1 => vp[1] = "add") /\ (Len(vp) >= 2 => vp[2] = "sub")
            /\ (Len(vp) >= 3 => vp[3] = "mul") /\ (Len(vp) >= 4 => vp[4] = "divv")
            /\ vpIter \in 0 .. 4 /\ results \in Seq(Int) /\ Len(results) = vpIter
            /\ (vpIter >= 1 => results[1] = funX + funY) /\ (vpIter >= 2 => results[2] = funX - funY)
            /\ (vpIter >= 3 => results[3] = funX * funY)
            /\ (vpIter >= 4 => funY > 0 /\ results[4] = PR!Quotient(funX, funY))
            /\ tablePc \in {"push", "loop", "exit", "abort"} /\ (tablePc = "push" => vpIter = 0 /\ Len(vp) < 4)
            /\ (tablePc # "push" => Len(vp) = 4) /\ (tablePc = "abort" => vpIter = 3)

(* The four functions, in the order main pushes them.                      *)
LEMMA PushedNames == /\ PR!Pushed(1) = "add" /\ PR!Pushed(2) = "sub" /\ PR!Pushed(3) = "mul" /\ PR!Pushed(4) = "divv"
  BY DEF PR!Pushed

(* Integer division as C truncates it: the remainder is smaller than the   *)
(* divisor and on the dividend's side.                                     *)
LEMMA QuotientFits ==
  ASSUME NEW a \in Int, NEW b \in Int, b > 0
  PROVE  PR!Quotient(a, b) \in Int
         /\ a - PR!Quotient(a, b) * b \in -(b - 1) .. b - 1 /\ (a - PR!Quotient(a, b) * b) * a >= 0
<1>1. CASE a >= 0
  <2>1. PR!Quotient(a, b) = a \div b
    BY <1>1 DEF PR!Quotient
  <2>2. a = b * (a \div b) + (a % b) /\ a \div b \in Int /\ a % b \in 0 .. b - 1
    OBVIOUS
  <2>3. a - (a \div b) * b = a % b
    BY <2>2
  <2>4. (a % b) * a >= 0
    BY <1>1, <2>2
  <2> QED BY <2>1, <2>2, <2>3, <2>4
<1>2. CASE a < 0
  <2>1. PR!Quotient(a, b) = -((-a) \div b)
    BY <1>2 DEF PR!Quotient
  <2>2. (-a) = b * ((-a) \div b) + ((-a) % b) /\ (-a) \div b \in Int /\ (-a) % b \in 0 .. b - 1
    OBVIOUS
  <2> DEFINE r == (-a) % b
  <2>3. a - (-((-a) \div b)) * b = -r
    BY <2>2
  <2>4. (-r) * a >= 0
    BY <1>2, <2>2
  <2> QED BY <2>1, <2>2, <2>3, <2>4
<1> QED BY <1>1, <1>2

(* Nothing is pushed and nothing called.                                   *)
LEMMA TableInitial == PR!TableInit => TableInv
  BY LoopsAssumption DEF PR!TableInit, TableInv, PR!TableAssumption

(* The places of the table, one by one.                                    *)
LEMMA BelowFour == \A n \in Nat : n < 4 => n = 0 \/ n = 1 \/ n = 2 \/ n = 3
  OBVIOUS

(* What each of the four functions returns.                                *)
LEMMA ResultOf == /\ PR!Result("add") = funX + funY /\ PR!Result("sub") = funX - funY
                  /\ PR!Result("mul") = funX * funY /\ PR!Result("divv") = PR!Quotient(funX, funY)
  BY DEF PR!Result

(* Pushing and calling keep to the order of the table.                     *)
LEMMA TableStep == TableInv /\ [PR!TableNext]_funcVars => TableInv'
<1> SUFFICES ASSUME TableInv, [PR!TableNext]_funcVars PROVE TableInv'
  OBVIOUS
<1>1. CASE PR!PushBack
  <2>1. Len(vp) \in Nat /\ Len(vp) < 4 /\ vpIter = 0
    BY <1>1 DEF PR!PushBack, TableInv
  <2>2. vp' = Append(vp, PR!Pushed(Len(vp) + 1)) /\ tablePc' = (IF Len(vp') = 4 THEN "loop" ELSE "push")
    BY <1>1 DEF PR!PushBack
  <2>3. vpIter' = vpIter /\ results' = results /\ funX' = funX /\ funY' = funY
    BY <1>1 DEF PR!PushBack
  <2>4. PR!Pushed(Len(vp) + 1) \in Functions
    BY <2>1, PushedNames DEF Functions
  <2>5. vp' \in Seq(Functions) /\ Len(vp') = Len(vp) + 1 /\ \A p \in 1 .. Len(vp) : vp'[p] = vp[p]
    BY <2>2, <2>4 DEF TableInv
  <2>6. vp'[Len(vp) + 1] = PR!Pushed(Len(vp) + 1)
    BY <2>2, <2>4 DEF TableInv
  <2>7. /\ Len(vp') >= 1 => vp'[1] = "add"
        /\ Len(vp') >= 2 => vp'[2] = "sub"
        /\ Len(vp') >= 3 => vp'[3] = "mul"
        /\ Len(vp') >= 4 => vp'[4] = "divv"
    <3>1. CASE Len(vp) = 0
      BY <2>5, <2>6, <3>1, PushedNames DEF TableInv
    <3>2. CASE Len(vp) = 1
      BY <2>5, <2>6, <3>2, PushedNames DEF TableInv
    <3>3. CASE Len(vp) = 2
      BY <2>5, <2>6, <3>3, PushedNames DEF TableInv
    <3>4. CASE Len(vp) = 3
      BY <2>5, <2>6, <3>4, PushedNames DEF TableInv
    <3>5. Len(vp) = 0 \/ Len(vp) = 1 \/ Len(vp) = 2 \/ Len(vp) = 3
      BY <2>1, BelowFour, Zenon
    <3> QED BY <3>1, <3>2, <3>3, <3>4, <3>5
  <2> QED BY <2>1, <2>2, <2>3, <2>5, <2>7 DEF TableInv
<1>2. CASE PR!Call
  <2> DEFINE f == vp[vpIter + 1]
  <2>1. /\ Len(vp) = 4 /\ vpIter \in Nat /\ vpIter < 4 /\ vpIter' = vpIter + 1 /\ results' = Append(results, PR!Result(f))
        /\ funX' = funX /\ funY' = funY /\ vp' = vp /\ tablePc = "loop" /\ tablePc' = tablePc
    BY <1>2 DEF PR!Call, TableInv
  <2> HIDE DEF f
  <2>2. /\ vpIter = 0 => f = "add"
        /\ vpIter = 1 => f = "sub"
        /\ vpIter = 2 => f = "mul"
        /\ vpIter = 3 => f = "divv" /\ funY > 0
    BY <1>2, <2>1 DEF TableInv, f, PR!Call
  <2>3. /\ vpIter = 0 => PR!Result(f) = funX + funY
        /\ vpIter = 1 => PR!Result(f) = funX - funY
        /\ vpIter = 2 => PR!Result(f) = funX * funY
        /\ vpIter = 3 => PR!Result(f) = PR!Quotient(funX, funY)
    BY <2>2, ResultOf, Zenon
  <2>4. vpIter = 0 \/ vpIter = 1 \/ vpIter = 2 \/ vpIter = 3
    BY <2>1
  <2>5. PR!Result(f) \in Int
    <3>1. funX \in Int /\ funY \in Int
      BY DEF TableInv
    <3>2. funX + funY \in Int /\ funX - funY \in Int /\ funX * funY \in Int
      BY <3>1
    <3>3. vpIter = 3 => PR!Quotient(funX, funY) \in Int
      BY <2>2, <3>1, QuotientFits
    <3> QED BY <2>3, <2>4, <3>2, <3>3, Zenon
  <2>6. /\ results' \in Seq(Int) /\ Len(results') = vpIter + 1 /\ results'[vpIter + 1] = PR!Result(f)
        /\ \A p \in 1 .. vpIter : results'[p] = results[p]
    BY <2>1, <2>5 DEF TableInv
  <2>7. /\ vpIter' \in 0 .. 4
        /\ vpIter' >= 1 => results'[1] = funX + funY
        /\ vpIter' >= 2 => results'[2] = funX - funY
        /\ vpIter' >= 3 => results'[3] = funX * funY
        /\ vpIter' >= 4 => funY > 0 /\ results'[4] = PR!Quotient(funX, funY)
    <3>1. CASE vpIter = 0
      BY <2>1, <2>3, <2>6, <3>1 DEF TableInv
    <3>2. CASE vpIter = 1
      BY <2>1, <2>3, <2>6, <3>2 DEF TableInv
    <3>3. CASE vpIter = 2
      BY <2>1, <2>3, <2>6, <3>3 DEF TableInv
    <3>4. CASE vpIter = 3
      BY <2>1, <2>2, <2>3, <2>6, <3>4 DEF TableInv
    <3> QED BY <2>4, <3>1, <3>2, <3>3, <3>4, Zenon
  <2> QED BY <2>1, <2>6, <2>7 DEF TableInv
<1>3. ASSUME vpIter' = vpIter, results' = results, funX' = funX, funY' = funY, vp' = vp
      PROVE  ( \/ tablePc' = tablePc
               \/ tablePc = "loop" /\ tablePc' = "exit"
               \/ tablePc = "loop" /\ tablePc' = "abort" /\ vpIter = 3) => TableInv'
  BY <1>3 DEF TableInv
<1>4. CASE PR!Abort
  <2>1. Len(vp) = 4 /\ vpIter \in Nat /\ vpIter < 4 /\ vp[vpIter + 1] = "divv"
    BY <1>4 DEF PR!Abort, TableInv
  <2>2. vpIter = 0 \/ vpIter = 1 \/ vpIter = 2 \/ vpIter = 3
    BY <2>1
  <2>3. vp[1] = "add" /\ vp[2] = "sub" /\ vp[3] = "mul"
    BY <2>1 DEF TableInv
  <2>4. vpIter = 3
    BY <2>1, <2>2, <2>3
  <2> QED BY <1>3, <1>4, <2>4 DEF PR!Abort
<1>5. CASE PR!Return
  <2>1. Len(vp) = 4 /\ vpIter = 4
    BY <1>5 DEF PR!Return, TableInv
  <2> QED BY <1>3, <1>5, <2>1 DEF PR!Return
<1>6. CASE UNCHANGED funcVars
  <2>1. vpIter' = vpIter /\ results' = results /\ funX' = funX /\ funY' = funY /\ vp' = vp /\ tablePc' = tablePc
    BY <1>6 DEF funcVars
  <2> QED BY <2>1 DEF TableInv
<1> QED BY <1>1, <1>2, <1>4, <1>5, <1>6 DEF PR!TableNext

(* So each result is its function's, and an abort leaves three.            *)
LEMMA TableMeaning == TableInv => PR!ResultsFit /\ PR!ThreeThenAbort
<1> SUFFICES ASSUME TableInv PROVE PR!ResultsFit /\ PR!ThreeThenAbort
  OBVIOUS
<1>1. PR!ResultsFit
  <2>1. Len(results) >= 2 => results[1] + results[2] = 2 * funX
    BY DEF TableInv
  <2>2. ASSUME Len(results) = 4
        PROVE  funX - results[4] * funY \in -(funY - 1) .. funY - 1 /\ (funX - results[4] * funY) * funX >= 0
    <3>1. funY > 0 /\ results[4] = PR!Quotient(funX, funY) /\ funX \in Int /\ funY \in Int
      BY <2>2 DEF TableInv
    <3> QED BY <3>1, QuotientFits
  <2> QED BY <2>1, <2>2 DEF PR!ResultsFit
<1>2. PR!ThreeThenAbort
  <2>1. ASSUME tablePc = "abort" PROVE results = <<funX + funY, funX - funY, funX * funY>>
    <3>1. Len(results) = 3 /\ results \in Seq(Int)
      BY <2>1 DEF TableInv
    <3>2. results[1] = funX + funY /\ results[2] = funX - funY /\ results[3] = funX * funY
      BY <2>1 DEF TableInv
    <3> DEFINE t == <<funX + funY, funX - funY, funX * funY>>
    <3>3. Len(t) = 3 /\ t[1] = funX + funY /\ t[2] = funX - funY /\ t[3] = funX * funY /\ t \in Seq(Int)
      BY DEF TableInv
    <3> HIDE DEF t
    <3> QED BY <3>1, <3>2, <3>3
  <2> QED BY <2>1 DEF PR!ThreeThenAbort
<1> QED BY <1>1, <1>2

(* What the calls of the library do to a sequence.                         *)
LEMMA UpTo ==
  ASSUME NEW S, NEW s \in Seq(S), NEW n \in 0 .. Len(s)
  PROVE  SubSeq(s, 1, n) \in Seq(S) /\ Len(SubSeq(s, 1, n)) = n /\ \A q \in 1 .. n : SubSeq(s, 1, n)[q] = s[q]
  OBVIOUS

(* those from the n-th on,                                                 *)
LEMMA Onwards ==
  ASSUME NEW S, NEW s \in Seq(S), NEW n \in 1 .. Len(s) + 1
  PROVE  /\ SubSeq(s, n, Len(s)) \in Seq(S) /\ Len(SubSeq(s, n, Len(s))) = Len(s) - n + 1
         /\ \A q \in 1 .. Len(s) - n + 1 : SubSeq(s, n, Len(s))[q] = s[q + n - 1]
  OBVIOUS

(* all but the n-th, as after erase,                                       *)
LEMMA RemovedAt ==
  ASSUME NEW S, NEW s \in Seq(S), NEW n \in 1 .. Len(s)
  PROVE  /\ PR!RemoveAt(s, n) \in Seq(S) /\ Len(PR!RemoveAt(s, n)) = Len(s) - 1
         /\ \A q \in 1 .. Len(s) - 1 : PR!RemoveAt(s, n)[q] = IF q < n THEN s[q] ELSE s[q + 1]
<1> DEFINE a == SubSeq(s, 1, n - 1)
           c == SubSeq(s, n + 1, Len(s))
<1>1. a \in Seq(S) /\ Len(a) = n - 1 /\ \A q \in 1 .. n - 1 : a[q] = s[q]
  OBVIOUS
<1>2. c \in Seq(S) /\ Len(c) = Len(s) - n /\ \A q \in 1 .. Len(s) - n : c[q] = s[q + n]
  OBVIOUS
<1> HIDE DEF a, c
<1>3. /\ a \o c \in Seq(S) /\ Len(a \o c) = Len(a) + Len(c)
      /\ \A q \in 1 .. Len(a) + Len(c) : (a \o c)[q] = IF q <= Len(a) THEN a[q] ELSE c[q - Len(a)]
  BY <1>1, <1>2, ConcatProperties, Zenon
<1>4. Len(a) + Len(c) = Len(s) - 1
  BY <1>1, <1>2
<1>5. \A q \in 1 .. Len(s) - 1 : (a \o c)[q] = IF q < n THEN s[q] ELSE s[q + 1]
  <2> SUFFICES ASSUME NEW q \in 1 .. Len(s) - 1 PROVE (a \o c)[q] = IF q < n THEN s[q] ELSE s[q + 1]
    OBVIOUS
  <2>1. (a \o c)[q] = IF q <= n - 1 THEN a[q] ELSE c[q - (n - 1)]
    BY <1>1, <1>3, <1>4
  <2>2. CASE q < n
    BY <1>1, <2>1, <2>2
  <2>3. CASE ~(q < n)
    BY <1>2, <2>1, <2>3
  <2> QED BY <2>2, <2>3
<1> QED BY <1>3, <1>4, <1>5 DEF PR!RemoveAt, a, c

(* and one more in front of the n-th, as after insert.                     *)
LEMMA InsertedAt ==
  ASSUME NEW S, NEW s \in Seq(S), NEW n \in 1 .. Len(s) + 1, NEW e \in S
  PROVE  /\ PR!InsertAt(s, n, e) \in Seq(S) /\ Len(PR!InsertAt(s, n, e)) = Len(s) + 1
         /\ \A q \in 1 .. Len(s) + 1 :
              PR!InsertAt(s, n, e)[q] = IF q < n THEN s[q] ELSE IF q = n THEN e ELSE s[q - 1]
<1> DEFINE d == SubSeq(s, 1, n - 1)
           a == d \o <<e>>
           c == SubSeq(s, n, Len(s))
<1>0. d \in Seq(S) /\ Len(d) = n - 1 /\ \A q \in 1 .. n - 1 : d[q] = s[q]
  OBVIOUS
<1>2. c \in Seq(S) /\ Len(c) = Len(s) - n + 1 /\ \A q \in 1 .. Len(s) - n + 1 : c[q] = s[q + n - 1]
  OBVIOUS
<1> HIDE DEF d, c
<1>1. a \in Seq(S) /\ Len(a) = n /\ \A q \in 1 .. n : a[q] = IF q < n THEN s[q] ELSE e
  <2>1. a = Append(d, e)
    BY <1>0
  <2> HIDE DEF a
  <2> QED BY <1>0, <2>1
<1> HIDE DEF a
<1>3. /\ a \o c \in Seq(S) /\ Len(a \o c) = Len(a) + Len(c)
      /\ \A q \in 1 .. Len(a) + Len(c) : (a \o c)[q] = IF q <= Len(a) THEN a[q] ELSE c[q - Len(a)]
  BY <1>1, <1>2, ConcatProperties, Zenon
<1>4. Len(a) + Len(c) = Len(s) + 1
  BY <1>1, <1>2
<1>5. \A q \in 1 .. Len(s) + 1 : (a \o c)[q] = IF q < n THEN s[q] ELSE IF q = n THEN e ELSE s[q - 1]
  <2> SUFFICES ASSUME NEW q \in 1 .. Len(s) + 1
               PROVE  (a \o c)[q] = IF q < n THEN s[q] ELSE IF q = n THEN e ELSE s[q - 1]
    OBVIOUS
  <2>1. (a \o c)[q] = IF q <= n THEN a[q] ELSE c[q - n]
    BY <1>1, <1>3, <1>4
  <2>2. CASE q <= n
    BY <1>1, <2>1, <2>2
  <2>3. CASE ~(q <= n)
    BY <1>2, <2>1, <2>3
  <2> QED BY <2>2, <2>3
<1> QED BY <1>3, <1>4, <1>5 DEF PR!InsertAt, a, c, d

(* A number is odd or even and not both.                                   *)
LEMMA OddOrEven == \A a \in Nat : (PR!Odd(a) \/ PR!Even(a)) /\ ~(PR!Odd(a) /\ PR!Even(a))
  BY DEF PR!Odd, PR!Even

(* Prime/stl/9-34.cpp: n copies of the first odd number stand before it,   *)
(* and the iterator stays at that number.                                  *)
Grown == Len(grown) - Len(whole)
CopiedAt(p, n) == /\ p \in 1 .. Len(whole) /\ PR!Odd(whole[p]) /\ \A q \in 1 .. p - 1 : PR!Even(whole[q])
                  /\ \A q \in 1 .. Len(grown) : grown[q] = IF q < p THEN whole[q] ELSE IF q <= p + n THEN whole[p] ELSE whole[q - n]
InsertInv == /\ whole \in Seq(Nat) /\ grown \in Seq(Nat) /\ place \in Nat /\ place >= 1 /\ place <= Len(grown) + 1
             /\ insertPc \in {"loop", "bad_alloc", "done"} /\ Grown \in Int /\ Grown >= 0
             /\ Grown = 0 => grown = whole /\ \A q \in 1 .. place - 1 : PR!Even(whole[q])
             /\ Grown > 0 => CopiedAt(place - Grown, Grown)
             /\ insertPc = "done" => place > Len(grown)

(* The vector is as it was and nothing is passed.                          *)
LEMMA InsertInitial == PR!InsertInit => InsertInv
<1> SUFFICES ASSUME PR!InsertInit PROVE InsertInv
  OBVIOUS
<1>1. MostItems \in Nat /\ ItemValues \subseteq Nat
  BY LoopsAssumption DEF PR!EraseAssumption
<1>2. whole \in Seq(ItemValues)
  BY <1>1, BoundedSequences DEF PR!InsertInit, PR!BoundedSeq, PR!SeqOf
<1>3. whole \in Seq(Nat)
  <2>1. Len(whole) \in Nat /\ \A q \in 1 .. Len(whole) : whole[q] \in Nat
    BY <1>1, <1>2, ElementOfSeq, LenProperties
  <2>2. whole = [q \in 1 .. Len(whole) |-> whole[q]]
    BY <1>2
  <2> QED BY <2>1, <2>2
<1> QED BY <1>3 DEF PR!InsertInit, InsertInv, Grown

(* An even number is passed; before the odd one a copy of it is put, and   *)
(* the iterator stands at the odd one again.                               *)
LEMMA InsertStep == InsertInv /\ [PR!InsertNext]_insertVars => InsertInv'
<1> SUFFICES ASSUME InsertInv, [PR!InsertNext]_insertVars PROVE InsertInv'
  OBVIOUS
<1>1. CASE PR!Insert
  <2>1. place \in 1 .. Len(grown) /\ grown[place] \in Nat /\ place' = place + 1 /\ whole' = whole /\ insertPc' = insertPc
        /\ insertPc = "loop" /\ PR!Odd(grown[place])
    BY <1>1 DEF PR!Insert, InsertInv
  <2>2. /\ grown' \in Seq(Nat) /\ Len(grown') = Len(grown) + 1
        /\ \A q \in 1 .. Len(grown) + 1 : grown'[q] = IF q < place THEN grown[q] ELSE IF q = place THEN grown[place] ELSE grown[q - 1]
    <3>1. PICK e \in Nat : grown[place] = e
      BY <2>1
    <3>2. grown' = PR!InsertAt(grown, place, e)
      BY <1>1, <2>1, <3>1 DEF PR!Insert, InsertInv
    <3>6. place \in 1 .. Len(grown) + 1 /\ grown \in Seq(Nat)
      BY <2>1 DEF InsertInv
    <3>3. PR!InsertAt(grown, place, e) \in Seq(Nat)
      BY <3>6, InsertedAt
    <3>4. Len(PR!InsertAt(grown, place, e)) = Len(grown) + 1
      BY <3>6, InsertedAt
    <3>5. \A q \in 1 .. Len(grown) + 1 :
            PR!InsertAt(grown, place, e)[q] = IF q < place THEN grown[q] ELSE IF q = place THEN e ELSE grown[q - 1]
      BY <3>1, <3>6, InsertedAt, SMTT(60)
    <3> QED BY <3>1, <3>2, <3>3, <3>4, <3>5, Zenon
  <2>3. Grown' = Grown + 1 /\ place' - Grown' = place - Grown /\ Grown \in Int
    BY <2>1, <2>2 DEF Grown, InsertInv
  <2>0. PICK p \in Int, n \in Int : n = Grown /\ n >= 0 /\ p + n = place /\ p = place - Grown
    BY <2>1, <2>3 DEF InsertInv
  <2>4. CopiedAt(p, n)
    <3>1. CASE n > 0
      BY <2>0, <3>1 DEF InsertInv
    <3>2. CASE ~(n > 0)
      <4>1. Grown = 0 /\ p = place /\ grown = whole
        BY <2>0, <3>2 DEF InsertInv
      <4> QED BY <2>0, <2>1, <4>1 DEF InsertInv, CopiedAt
    <3> QED BY <3>1, <3>2
  <2>5. \A q \in 1 .. Len(grown') : grown'[q] = IF q < p THEN whole[q] ELSE IF q <= p + (n + 1) THEN whole[p] ELSE whole[q - (n + 1)]
    <3> SUFFICES ASSUME NEW q \in 1 .. Len(grown) + 1
                 PROVE  grown'[q] = IF q < p THEN whole[q] ELSE IF q <= p + (n + 1) THEN whole[p] ELSE whole[q - (n + 1)]
      BY <2>2
    <3>1. CASE q < place
      <4>1. grown'[q] = grown[q] /\ q \in 1 .. Len(grown)
        BY <2>1, <2>2, <3>1
      <4> QED BY <2>0, <2>1, <2>4, <3>1, <4>1 DEF CopiedAt
    <3>2. CASE q = place
      <4>1. grown'[q] = grown[place] /\ place \in 1 .. Len(grown)
        BY <2>1, <2>2, <3>2
      <4> QED BY <2>0, <2>1, <2>4, <3>2, <4>1 DEF CopiedAt
    <3>3. CASE ~(q < place) /\ q # place
      <4>1. grown'[q] = grown[q - 1] /\ q - 1 \in 1 .. Len(grown) /\ q - 1 >= place
        BY <2>1, <2>2, <3>3
      <4>2. grown[q - 1] = IF q - 1 < p THEN whole[q - 1] ELSE IF q - 1 <= p + n THEN whole[p] ELSE whole[q - 1 - n]
        BY <2>4, <4>1 DEF CopiedAt
      <4>3. ~(q - 1 < p) /\ ~(q < p) /\ (q - 1 <= p + n <=> q <= p + (n + 1)) /\ q - 1 - n = q - (n + 1)
        BY <2>0, <3>3, <4>1
      <4> QED BY <4>1, <4>2, <4>3
    <3> QED BY <3>1, <3>2, <3>3
  <2>6. CopiedAt(p, n + 1)'
    BY <2>1, <2>4, <2>5 DEF CopiedAt
  <2>7. Grown' = n + 1 /\ place' - Grown' = p
    BY <2>0, <2>1, <2>3
  <2> QED BY <2>0, <2>1, <2>2, <2>6, <2>7 DEF InsertInv
<1>2. CASE PR!Pass
  <2>1. Grown = 0
    BY <1>2, OddOrEven DEF PR!Pass, InsertInv, CopiedAt, Grown
  <2> QED BY <1>2, <2>1 DEF PR!Pass, InsertInv, Grown
<1>3. CASE PR!NoMemory
  BY <1>3 DEF PR!NoMemory, InsertInv, Grown, CopiedAt
<1>4. CASE PR!InsertEnd
  BY <1>4 DEF PR!InsertEnd, InsertInv, Grown, CopiedAt
<1>5. CASE UNCHANGED insertVars
  BY <1>5 DEF InsertInv, insertVars, Grown, CopiedAt
<1> QED BY <1>1, <1>2, <1>3, <1>4, <1>5 DEF PR!InsertNext

(* So what has been inserted is the first odd number, again and again.     *)
LEMMA InsertMeaning == InsertInv => PR!FirstOddAgain
<1> SUFFICES ASSUME InsertInv PROVE PR!FirstOddAgain
  OBVIOUS
<1>1. ASSUME Grown > 0
      PROVE  place = PR!Min(PR!Odds) + Grown
             /\ grown = SubSeq(whole, 1, PR!Min(PR!Odds) - 1) \o [q \in 1 .. Grown |-> whole[PR!Min(PR!Odds)]]
                        \o SubSeq(whole, PR!Min(PR!Odds), Len(whole))
  <2>0. PICK p \in Int, n \in Int : n = Grown /\ n > 0 /\ p + n = place /\ p = place - Grown
    BY <1>1 DEF InsertInv
  <2>1. CopiedAt(p, n)
    BY <1>1, <2>0 DEF InsertInv
  <2>2. p \in PR!Odds /\ \A q \in PR!Odds : p <= q
    BY <2>1, OddOrEven DEF CopiedAt, PR!Odds, InsertInv
  <2>3. PR!Odds \subseteq Int
    BY DEF PR!Odds, InsertInv
  <2>4. PR!Min(PR!Odds) = p
    <3>1. ASSUME NEW r \in PR!Odds, \A q \in PR!Odds : r <= q PROVE r = p
      BY <2>2, <2>3, <3>1
    <3> QED BY <2>2, <3>1, Zenon DEF PR!Min
  <2>5. place = p + n /\ n = Grown
    BY <2>0
  <2> DEFINE a == SubSeq(whole, 1, p - 1)
             b == [q \in 1 .. n |-> whole[p]]
             c == SubSeq(whole, p, Len(whole))
  <2>6. a \in Seq(Nat) /\ Len(a) = p - 1 /\ \A q \in 1 .. p - 1 : a[q] = whole[q]
    BY <2>1 DEF CopiedAt, InsertInv
  <2>7. b \in Seq(Nat) /\ Len(b) = n /\ \A q \in 1 .. n : b[q] = whole[p]
    BY <2>0, <2>1 DEF CopiedAt, InsertInv
  <2>8. c \in Seq(Nat) /\ Len(c) = Len(whole) - p + 1 /\ \A q \in 1 .. Len(whole) - p + 1 : c[q] = whole[q + p - 1]
    BY <2>1, Onwards DEF CopiedAt, InsertInv
  <2> HIDE DEF a, b, c
  <2>9. /\ a \o b \in Seq(Nat) /\ Len(a \o b) = Len(a) + Len(b)
        /\ \A q \in 1 .. Len(a) + Len(b) : (a \o b)[q] = IF q <= Len(a) THEN a[q] ELSE b[q - Len(a)]
    BY <2>6, <2>7, ConcatProperties, Zenon
  <2> DEFINE d == a \o b
  <2>10. d \in Seq(Nat) /\ Len(d) = place - 1 /\ \A q \in 1 .. place - 1 : d[q] = IF q < p THEN whole[q] ELSE whole[p]
    <3>0. place - 1 = (p - 1) + n
      BY <2>0
    <3>1. d \in Seq(Nat) /\ Len(d) = (p - 1) + n
      BY <2>6, <2>7, <2>9
    <3>2. ASSUME NEW q \in 1 .. (p - 1) + n PROVE d[q] = IF q < p THEN whole[q] ELSE whole[p]
      <4>1. d[q] = IF q <= p - 1 THEN a[q] ELSE b[q - (p - 1)]
        BY <2>6, <2>7, <2>9
      <4>2. CASE q < p
        BY <2>0, <2>6, <4>1, <4>2
      <4>3. CASE ~(q < p)
        BY <2>0, <2>7, <4>1, <4>3
      <4> QED BY <4>2, <4>3
    <3> QED BY <3>0, <3>1, <3>2, Zenon
  <2> HIDE DEF d
  <2>11. /\ d \o c \in Seq(Nat) /\ Len(d \o c) = Len(d) + Len(c)
         /\ \A q \in 1 .. Len(d) + Len(c) : (d \o c)[q] = IF q <= Len(d) THEN d[q] ELSE c[q - Len(d)]
    BY <2>8, <2>10, ConcatProperties, Zenon
  <2>12. Len(d) + Len(c) = Len(grown)
    BY <2>0, <2>8, <2>10 DEF InsertInv, Grown
  <2>13. \A q \in 1 .. Len(grown) : grown[q] = (d \o c)[q]
    <3> SUFFICES ASSUME NEW q \in 1 .. Len(grown) PROVE grown[q] = (d \o c)[q]
      OBVIOUS
    <3>1. (d \o c)[q] = IF q <= place - 1 THEN d[q] ELSE c[q - (place - 1)]
      BY <2>10, <2>11, <2>12
    <3>2. grown[q] = IF q < p THEN whole[q] ELSE IF q <= p + n THEN whole[p] ELSE whole[q - n]
      BY <2>1 DEF CopiedAt
    <3>3. CASE q <= place - 1
      BY <2>0, <2>10, <3>1, <3>2, <3>3
    <3>4. CASE ~(q <= place - 1)
      <4>1. c[q - (place - 1)] = whole[q - n]
        <5>1. q - (place - 1) \in 1 .. Len(whole) - p + 1 /\ q - (place - 1) + p - 1 = q - n
          BY <2>0, <3>4 DEF InsertInv, Grown
        <5> QED BY <2>8, <5>1
      <4>2. q <= p + n => q - n = p
        BY <2>0, <3>4
      <4>3. ~(q < p)
        BY <2>0, <3>4
      <4> QED BY <3>1, <3>2, <3>4, <4>1, <4>2, <4>3, Zenon
    <3> QED BY <3>3, <3>4
  <2>14. grown = d \o c
    BY <2>11, <2>12, <2>13, SeqEqual, Zenon DEF InsertInv
  <2> QED BY <2>0, <2>4, <2>14 DEF a, b, c, d
<1>2. insertPc = "done" => PR!Odds = {} /\ grown = whole
  <2> SUFFICES ASSUME insertPc = "done" PROVE PR!Odds = {} /\ grown = whole
    OBVIOUS
  <2>1. Grown = 0
    BY DEF InsertInv, CopiedAt, Grown
  <2> QED BY <2>1, OddOrEven DEF InsertInv, PR!Odds
<1> QED BY <1>1, <1>2 DEF PR!FirstOddAgain, Grown

(* Prime/stl/9-26.cpp: the witness of what the vector keeps, and the cells *)
(* behind its end, which all hold the array's last number.                 *)
Takes(m, n, v, a) == /\ m \in [1 .. n -> 1 .. Len(a)]
                     /\ \A p \in 1 .. n : v[p] = a[m[p]]
                     /\ \A p, q \in 1 .. n : p < q => m[p] < m[q]
                     /\ \A r \in 1 .. Len(a) : PR!Odd(a[r]) => \E p \in 1 .. n : m[p] = r
EraseInv == /\ ia \in Seq(Nat) /\ vecMem \in Seq(Nat) /\ Len(vecMem) = Len(ia) + 1
            /\ vecSize \in Nat /\ vecSize <= Len(ia) /\ iterv \in Nat /\ iterv >= 1 /\ iterv <= vecSize + 1
            /\ erasePc \in {"vector", "list", "done"}
            /\ \E m : Takes(m, vecSize, vecMem, ia)
            /\ \A p \in 1 .. iterv - 1 : PR!Odd(vecMem[p])
            /\ \A p \in 1 .. Len(ia) : p > vecSize \/ (p = vecSize /\ iterv <= vecSize) => vecMem[p] = ia[Len(ia)]
            /\ li \in Seq(Nat) /\ iterl \in Nat /\ iterl >= 1
            /\ erasePc = "vector" => li = ia /\ iterl = 1
            /\ erasePc # "vector" => /\ iterv = vecSize + 1
                                     /\ PR!Odd(vecMem[iterv]) => iterl = 1
                                     /\ PR!Even(vecMem[iterv]) => li = ia
            /\ erasePc = "done" => iterl > Len(li)

(* Both containers have the array's numbers.                               *)
LEMMA EraseInitial == PR!EraseInit => EraseInv
<1> SUFFICES ASSUME PR!EraseInit PROVE EraseInv
  OBVIOUS
<1>1. MostItems \in Nat /\ ItemValues \subseteq Nat
  BY LoopsAssumption DEF PR!EraseAssumption
<1>2. ia \in Seq(ItemValues)
  BY <1>1, BoundedSequences DEF PR!EraseInit
<1>3. ia \in Seq(Nat)
  <2>1. Len(ia) \in Nat /\ \A q \in 1 .. Len(ia) : ia[q] \in Nat
    BY <1>1, <1>2, ElementOfSeq, LenProperties
  <2>2. ia = [q \in 1 .. Len(ia) |-> ia[q]]
    BY <1>2
  <2> QED BY <2>1, <2>2
<1>4. PICK b \in Nat : vecMem = Append(ia, b)
  BY <1>1 DEF PR!EraseInit
<1>5. vecMem \in Seq(Nat) /\ Len(vecMem) = Len(ia) + 1 /\ \A p \in 1 .. Len(ia) : vecMem[p] = ia[p]
  BY <1>3, <1>4
<1>6. vecSize = Len(ia) /\ li = ia /\ iterv = 1 /\ iterl = 1 /\ erasePc = "vector"
  BY DEF PR!EraseInit
<1>7. Takes([p \in 1 .. vecSize |-> p], vecSize, vecMem, ia)
  BY <1>3, <1>5, <1>6 DEF Takes
<1> QED BY <1>3, <1>5, <1>6, <1>7 DEF EraseInv

(* Erasing an even number closes the gap; an odd one is passed.            *)
LEMMA EraseStep == EraseInv /\ [PR!EraseNext]_eraseVars => EraseInv'
<1> SUFFICES ASSUME EraseInv, [PR!EraseNext]_eraseVars PROVE EraseInv'
  OBVIOUS
<1>0. PICK m : Takes(m, vecSize, vecMem, ia)
  BY DEF EraseInv
<1>a. PICK k \in Nat : k = Len(ia)
  BY DEF EraseInv
<1>1. CASE PR!Erase
  <2>1. /\ vecSize' = vecSize - 1 /\ ia' = ia /\ iterv' = iterv /\ li' = li /\ iterl' = iterl /\ erasePc' = erasePc
        /\ erasePc = "vector" /\ iterv \in 1 .. vecSize /\ PR!Even(vecMem[iterv]) /\ vecSize \in 1 .. k
    BY <1>1, <1>a DEF PR!Erase, EraseInv
  <2>2. /\ vecMem' = [n \in 1 .. k + 1 |-> IF n \in iterv .. vecSize - 1 THEN vecMem[n + 1] ELSE vecMem[n]]
        /\ \A n \in 1 .. k + 1 : vecMem[n] \in Nat
    <3>1. vecMem \in Seq(Nat) /\ Len(vecMem) = k + 1
      BY <1>a DEF EraseInv
    <3>2. DOMAIN vecMem = 1 .. k + 1 /\ \A n \in 1 .. k + 1 : vecMem[n] \in Nat
      BY <3>1
    <3>3. vecMem' = [n \in DOMAIN vecMem |-> IF n \in iterv .. vecSize - 1 THEN vecMem[n + 1] ELSE vecMem[n]]
      BY <1>1, Zenon DEF PR!Erase
    <3> QED BY <3>2, <3>3, Zenon
  <2>3. vecMem' \in Seq(Nat) /\ Len(vecMem') = k + 1
    BY <2>1, <2>2
  <2>4. \A n \in 1 .. k + 1 : vecMem'[n] = IF n \in iterv .. vecSize - 1 THEN vecMem[n + 1] ELSE vecMem[n]
    BY <2>2
  <2> DEFINE g == [p \in 1 .. vecSize - 1 |-> IF p < iterv THEN m[p] ELSE m[p + 1]]
  <2>5. Takes(g, vecSize - 1, vecMem', ia)
    <3>1. g \in [1 .. vecSize - 1 -> 1 .. k]
      BY <1>0, <1>a, <2>1 DEF Takes
    <3>2. \A p \in 1 .. vecSize - 1 : vecMem'[p] = ia[g[p]]
      <4> SUFFICES ASSUME NEW p \in 1 .. vecSize - 1 PROVE vecMem'[p] = ia[g[p]]
        OBVIOUS
      <4>1. CASE p < iterv
        BY <1>0, <1>a, <2>1, <2>4, <4>1 DEF Takes
      <4>2. CASE ~(p < iterv)
        <5>1. p + 1 \in 1 .. vecSize /\ p \in 1 .. k + 1 /\ p \in iterv .. vecSize - 1
          BY <2>1, <4>2
        <5>2. vecMem[p + 1] = ia[m[p + 1]]
          BY <1>0, <5>1 DEF Takes
        <5> QED BY <2>4, <4>2, <5>1, <5>2
      <4> QED BY <4>1, <4>2
    <3>3. \A p, q \in 1 .. vecSize - 1 : p < q => g[p] < g[q]
      <4> SUFFICES ASSUME NEW p \in 1 .. vecSize - 1, NEW q \in 1 .. vecSize - 1, p < q PROVE g[p] < g[q]
        OBVIOUS
      <4>1. \A x, y \in 1 .. vecSize : x < y => m[x] < m[y]
        BY <1>0, Zenon DEF Takes
      <4>2. p \in 1 .. vecSize /\ q \in 1 .. vecSize /\ p + 1 \in 1 .. vecSize /\ q + 1 \in 1 .. vecSize
        BY <2>1
      <4>3. m[p] < m[q] /\ m[p] < m[q + 1] /\ m[p + 1] < m[q + 1]
        BY <4>1, <4>2
      <4>4. q < iterv => p < iterv
        BY <2>1
      <4> QED BY <4>3, <4>4
    <3>4. ASSUME NEW r \in 1 .. k, PR!Odd(ia[r]) PROVE \E p \in 1 .. vecSize - 1 : g[p] = r
      <4>1. PICK p \in 1 .. vecSize : m[p] = r
        BY <1>0, <1>a, <3>4 DEF Takes
      <4>2. vecMem[p] = ia[r] /\ vecMem[p] \in Nat
        BY <1>0, <1>a, <2>1, <2>2, <4>1 DEF Takes
      <4>3. p # iterv
        BY <2>1, <3>4, <4>2, OddOrEven
      <4>4. CASE p < iterv
        BY <2>1, <4>1, <4>4
      <4>5. CASE ~(p < iterv)
        <5>1. p - 1 \in 1 .. vecSize - 1 /\ ~(p - 1 < iterv) /\ (p - 1) + 1 = p
          BY <2>1, <4>3, <4>5
        <5> QED BY <4>1, <5>1
      <4> QED BY <4>4, <4>5
    <3> HIDE DEF g
    <3>5. \A r \in 1 .. k : PR!Odd(ia[r]) => \E p \in 1 .. vecSize - 1 : g[p] = r
      BY <3>4
    <3> QED BY <1>a, <3>1, <3>2, <3>3, <3>5, Zenon DEF Takes
  <2>6. \A p \in 1 .. iterv - 1 : vecMem'[p] = vecMem[p]
    BY <2>1, <2>4
  <2>7. \A p \in 1 .. k : p > vecSize - 1 \/ (p = vecSize - 1 /\ iterv <= vecSize - 1) => vecMem'[p] = ia[k]
    <3>1. \A p \in 1 .. k : p > vecSize \/ p = vecSize => vecMem[p] = ia[k]
      <4>1. \A p \in 1 .. Len(ia) : p > vecSize \/ (p = vecSize /\ iterv <= vecSize) => vecMem[p] = ia[Len(ia)]
        BY Zenon DEF EraseInv
      <4> QED BY <1>a, <2>1, <4>1
    <3> SUFFICES ASSUME NEW p \in 1 .. k, p > vecSize - 1 \/ (p = vecSize - 1 /\ iterv <= vecSize - 1) PROVE vecMem'[p] = ia[k]
      OBVIOUS
    <3>2. CASE p > vecSize - 1
      BY <2>1, <2>4, <3>1, <3>2
    <3>3. CASE p = vecSize - 1 /\ iterv <= vecSize - 1
      <4>1. vecMem'[p] = vecMem[vecSize]
        BY <2>1, <2>4, <3>3
      <4> QED BY <2>1, <3>1, <4>1
    <3> QED BY <3>2, <3>3
  <2> HIDE DEF g
  <2>8. /\ ia \in Seq(Nat) /\ vecSize \in Nat /\ vecSize <= Len(ia) /\ iterv \in Nat /\ iterv >= 1
        /\ li \in Seq(Nat) /\ iterl \in Nat /\ iterl >= 1 /\ li = ia /\ iterl = 1
    BY <2>1 DEF EraseInv
  <2>9. \A p \in 1 .. iterv - 1 : PR!Odd(vecMem'[p])
    BY <2>6 DEF EraseInv
  <2>10. /\ vecSize' \in Nat /\ vecSize' <= Len(ia') /\ iterv' \in Nat /\ iterv' >= 1 /\ iterv' <= vecSize' + 1
         /\ ia' \in Seq(Nat) /\ Len(vecMem') = Len(ia') + 1
    BY <1>a, <2>1, <2>3, <2>8
  <2>11. \A p \in 1 .. Len(ia') : p > vecSize' \/ (p = vecSize' /\ iterv' <= vecSize') => vecMem'[p] = ia'[Len(ia')]
    BY <1>a, <2>1, <2>7, Zenon
  <2>12. \E z : Takes(z, vecSize', vecMem', ia')
    BY <2>1, <2>5, Zenon
  <2> QED BY <2>1, <2>3, <2>8, <2>9, <2>10, <2>11, <2>12 DEF EraseInv
<1>2. ASSUME ia' = ia, vecMem' = vecMem, vecSize' = vecSize PROVE Takes(m, vecSize, vecMem, ia)'
  BY <1>0, <1>2 DEF Takes
<1>3. CASE PR!Keep
  <2>1. /\ iterv \in 1 .. vecSize /\ PR!Odd(vecMem[iterv]) /\ iterv' = iterv + 1 /\ erasePc = "vector"
        /\ UNCHANGED <<ia, vecMem, vecSize, li, iterl, erasePc>>
    BY <1>3 DEF PR!Keep, EraseInv
  <2>2. \A p \in 1 .. iterv' - 1 : PR!Odd(vecMem[p])
    BY <2>1 DEF EraseInv
  <2>3. \A p \in 1 .. Len(ia) : p > vecSize \/ (p = vecSize /\ iterv' <= vecSize) => vecMem[p] = ia[Len(ia)]
    <3>1. \A p \in 1 .. Len(ia) : p > vecSize \/ (p = vecSize /\ iterv <= vecSize) => vecMem[p] = ia[Len(ia)]
      BY Zenon DEF EraseInv
    <3>2. iterv <= vecSize
      BY <2>1
    <3> QED BY <3>1, <3>2, Zenon
  <2>4. /\ ia \in Seq(Nat) /\ vecMem \in Seq(Nat) /\ Len(vecMem) = Len(ia) + 1 /\ vecSize \in Nat /\ vecSize <= Len(ia)
        /\ li \in Seq(Nat) /\ iterl \in Nat /\ iterl >= 1 /\ li = ia /\ iterl = 1 /\ iterv + 1 \in Nat
        /\ iterv + 1 >= 1 /\ iterv + 1 <= vecSize + 1
    BY <2>1 DEF EraseInv
  <2>5. \E z : Takes(z, vecSize, vecMem, ia)'
    BY <1>2, <2>1, Zenon
  <2>6. /\ (\A p \in 1 .. iterv - 1 : PR!Odd(vecMem[p]))' /\ UNCHANGED <<vecMem, vecSize, ia, li, iterl, erasePc>>
        /\ iterv' = iterv + 1 /\ erasePc = "vector"
    BY <2>1, <2>2
  <2> QED BY <2>3, <2>4, <2>5, <2>6 DEF EraseInv
<1>4. CASE PR!VectorEnd
  BY <1>2, <1>4 DEF PR!VectorEnd, EraseInv
<1>5. CASE PR!ListErase
  <2>1. vecMem[iterv] \in Nat
    BY <1>5, <1>a DEF PR!ListErase, EraseInv
  <2>2. iterl = 1 /\ ~PR!Even(vecMem[iterv]) /\ iterl \in 1 .. Len(li)
    BY <1>5, <2>1, OddOrEven DEF PR!ListErase, EraseInv
  <2>3. li' \in Seq(Nat)
    BY <1>5, <2>2, RemovedAt DEF PR!ListErase, EraseInv
  <2> QED BY <1>2, <1>5, <2>2, <2>3 DEF PR!ListErase, EraseInv
<1>6. CASE PR!ListKeep
  <2>1. vecMem[iterv] \in Nat
    BY <1>6, <1>a DEF PR!ListKeep, EraseInv
  <2>2. ~PR!Odd(vecMem[iterv])
    BY <1>6, <2>1, OddOrEven DEF PR!ListKeep, EraseInv
  <2> QED BY <1>2, <1>6, <2>2 DEF PR!ListKeep, EraseInv
<1>7. CASE PR!ListEnd
  BY <1>2, <1>7 DEF PR!ListEnd, EraseInv
<1>8. CASE UNCHANGED eraseVars
  BY <1>2, <1>8 DEF EraseInv, eraseVars
<1> QED BY <1>1, <1>3, <1>4, <1>5, <1>6, <1>7, <1>8 DEF PR!EraseNext

(* So the vector keeps the odd numbers in order, and the last number       *)
(* decides what the list's loop does.                                      *)
LEMMA EraseMeaning == EraseInv => PR!VectorKeepsOdd /\ PR!LastDecides
<1> SUFFICES ASSUME EraseInv PROVE PR!VectorKeepsOdd /\ PR!LastDecides
  OBVIOUS
<1>0. PICK m : Takes(m, vecSize, vecMem, ia)
  BY DEF EraseInv
<1>1. vecSize \in 0 .. Len(vecMem)
  BY DEF EraseInv
<1>2. /\ PR!vi \in Seq(Nat) /\ Len(PR!vi) = vecSize /\ DOMAIN PR!vi = 1 .. vecSize
      /\ \A q \in 1 .. vecSize : PR!vi[q] = vecMem[q]
  <2>1. vecMem \in Seq(Nat)
    BY DEF EraseInv
  <2> DEFINE s == SubSeq(vecMem, 1, vecSize)
  <2>2. s \in Seq(Nat) /\ Len(s) = vecSize /\ \A q \in 1 .. vecSize : s[q] = vecMem[q]
    BY <1>1, <2>1, UpTo
  <2> HIDE DEF s
  <2>3. DOMAIN s = 1 .. vecSize
    BY <2>2
  <2> QED BY <2>2, <2>3 DEF PR!vi, s
<1>3. PR!VectorKeepsOdd
  <2>1. \A n \in DOMAIN PR!vi : n < iterv => PR!Odd(PR!vi[n])
    <3> SUFFICES ASSUME NEW n \in 1 .. vecSize, n < iterv PROVE PR!Odd(vecMem[n])
      BY <1>2
    <3>1. n \in 1 .. iterv - 1
      BY DEF EraseInv
    <3> QED BY <3>1 DEF EraseInv
  <2>4. DOMAIN ia = 1 .. Len(ia)
    BY DEF EraseInv
  <2>2. m \in PR!Thins(PR!vi, ia)
    BY <1>0, <1>2, <2>4 DEF PR!Thins, Takes
  <2>3. erasePc # "vector" => iterv > vecSize
    BY DEF EraseInv
  <2> QED BY <2>1, <2>2, <2>3 DEF PR!VectorKeepsOdd
<1>4. PR!LastDecides
  <2> SUFFICES ASSUME erasePc = "done"
               PROVE  li \in {<<>>, ia} /\ (vecSize < Len(ia) => li = IF PR!Odd(PR!Last(ia)) THEN <<>> ELSE ia)
    BY DEF PR!LastDecides
  <2>1. iterv = vecSize + 1 /\ iterl > Len(li) /\ vecMem[iterv] \in Nat
    BY DEF EraseInv
  <2>2. PR!Odd(vecMem[iterv]) => li = <<>>
    <3>1. ASSUME PR!Odd(vecMem[iterv]) PROVE Len(li) = 0
      BY <2>1, <3>1 DEF EraseInv
    <3> QED BY <3>1 DEF EraseInv
  <2>3. ~PR!Odd(vecMem[iterv]) => li = ia
    BY <2>1, OddOrEven DEF EraseInv
  <2>4. vecSize < Len(ia) => vecMem[iterv] = PR!Last(ia)
    <3>1. ASSUME vecSize < Len(ia) PROVE iterv \in 1 .. Len(ia) /\ iterv > vecSize
      BY <2>1, <3>1 DEF EraseInv
    <3>2. vecSize < Len(ia) => vecMem[iterv] = ia[Len(ia)]
      BY <3>1 DEF EraseInv
    <3> QED BY <3>2 DEF PR!Last
  <2> QED BY <2>2, <2>3, <2>4
<1> QED BY <1>3, <1>4

(* How often a value is among the numbers from the a-th to the b-th.       *)
Amount(v, s, a, b) == Cardinality({p \in a .. b : s[p] = v})

(* The modules count the members of a set alike.                           *)
LEMMA SameCount == \A S : /\ SS!Cardinality(S) = Cardinality(S) /\ MG!Cardinality(S) = Cardinality(S)
                         /\ SN!Cardinality(S) = Cardinality(S)
  BY Zenon DEF SS!Cardinality, MG!Cardinality, SN!Cardinality, Cardinality

(* A count of places is a natural number:                                  *)
LEMMA AmountType ==
  ASSUME NEW v, NEW s, NEW a \in Int, NEW b \in Int
  PROVE  IsFiniteSet({p \in a .. b : s[p] = v}) /\ Amount(v, s, a, b) \in Nat
<1> DEFINE S == {p \in a .. b : s[p] = v}
<1>1. IsFiniteSet(a .. b)
  BY FS_Interval
<1>2. S \in SUBSET (a .. b)
  OBVIOUS
<1>3. IsFiniteSet(S)
  BY <1>1, <1>2, FS_Subset, Zenon
<1> QED BY <1>3, FS_CardinalityType, Zenon DEF Amount

(* none where there are no places,                                         *)
LEMMA AmountNone ==
  ASSUME NEW v, NEW s, NEW a \in Int, NEW b \in Int, a > b
  PROVE  Amount(v, s, a, b) = 0
<1>1. {p \in a .. b : s[p] = v} = {}
  OBVIOUS
<1> QED BY <1>1, FS_EmptySet, Zenon DEF Amount

(* the same where the numbers are the same,                                *)
LEMMA AmountSame ==
  ASSUME NEW v, NEW s, NEW t, NEW a \in Int, NEW b \in Int, \A p \in a .. b : s[p] = t[p]
  PROVE  Amount(v, s, a, b) = Amount(v, t, a, b)
<1>1. {p \in a .. b : s[p] = v} = {p \in a .. b : t[p] = v}
  BY Zenon
<1> QED BY <1>1, Zenon DEF Amount

(* one more for a place at the upper end,                                  *)
LEMMA AmountUp ==
  ASSUME NEW v, NEW s, NEW a \in Int, NEW b \in Int, a <= b + 1
  PROVE  Amount(v, s, a, b + 1) = Amount(v, s, a, b) + (IF s[b + 1] = v THEN 1 ELSE 0)
<1> DEFINE S == {p \in a .. b : s[p] = v}
           T == {p \in a .. b + 1 : s[p] = v}
<1>1. IsFiniteSet(S) /\ Cardinality(S) \in Nat
  BY AmountType, Zenon DEF Amount
<1>2. b + 1 \notin S
  OBVIOUS
<1>3. CASE s[b + 1] = v
  <2>1. T = S \cup {b + 1}
    BY <1>3
  <2> HIDE DEF S, T
  <2>2. Cardinality(T) = Cardinality(S) + 1
    BY <1>1, <1>2, <2>1, FS_AddElement, Zenon
  <2> QED BY <1>3, <2>2, Zenon DEF Amount, S, T
<1>4. CASE s[b + 1] # v
  <2>1. T = S
    BY <1>4
  <2> HIDE DEF S, T
  <2>2. Cardinality(T) = Cardinality(S) + 0
    BY <1>1, <2>1
  <2> QED BY <1>4, <2>2, Zenon DEF Amount, S, T
<1> QED BY <1>3, <1>4, Zenon

(* or at the lower,                                                        *)
LEMMA AmountDown ==
  ASSUME NEW v, NEW s, NEW a \in Int, NEW b \in Int, a <= b
  PROVE  Amount(v, s, a, b) = Amount(v, s, a + 1, b) + (IF s[a] = v THEN 1 ELSE 0)
<1> DEFINE S == {p \in a + 1 .. b : s[p] = v}
           T == {p \in a .. b : s[p] = v}
<1>1. IsFiniteSet(S) /\ Cardinality(S) \in Nat
  <2>1. a + 1 \in Int
    OBVIOUS
  <2> QED BY <2>1, AmountType, Zenon DEF Amount
<1>2. a \notin S
  OBVIOUS
<1>3. CASE s[a] = v
  <2>1. T = S \cup {a}
    BY <1>3
  <2> HIDE DEF S, T
  <2>2. Cardinality(T) = Cardinality(S) + 1
    BY <1>1, <1>2, <2>1, FS_AddElement, Zenon
  <2> QED BY <1>3, <2>2, Zenon DEF Amount, S, T
<1>4. CASE s[a] # v
  <2>1. T = S
    BY <1>4
  <2> HIDE DEF S, T
  <2>2. Cardinality(T) = Cardinality(S) + 0
    BY <1>1, <2>1
  <2> QED BY <1>4, <2>2, Zenon DEF Amount, S, T
<1> QED BY <1>3, <1>4, Zenon

(* and at the end of a prefix;                                             *)
LEMMA AmountNext ==
  ASSUME NEW a \in Nat, NEW v, NEW s
  PROVE  /\ Amount(v, s, 1, a) \in Nat
         /\ Amount(v, s, 1, a + 1) = Amount(v, s, 1, a) + (IF s[a + 1] = v THEN 1 ELSE 0)
<1>1. 1 \in Int /\ a \in Int /\ 1 <= a + 1
  OBVIOUS
<1> QED BY <1>1, AmountType, AmountUp, Zenon

(* over the whole sequence it is the count the properties use.             *)
LEMMA AmountWhole ==
  ASSUME NEW S, NEW s \in Seq(S), NEW v
  PROVE  Cardinality({p \in DOMAIN s : s[p] = v}) = Amount(v, s, 1, Len(s))
<1>1. DOMAIN s = 1 .. Len(s)
  OBVIOUS
<1> QED BY <1>1, Zenon DEF Amount

(* The places of s from a to b hold what those of t from c to d hold.      *)
Matches(m, s, a, b, t, c, d) ==
  /\ m \in [a .. b -> c .. d]
  /\ \A p \in a .. b : s[p] = t[m[p]]
  /\ \A p, q \in a .. b : p # q => m[p] # m[q]
  /\ \A r \in c .. d : \E p \in a .. b : m[p] = r

(* A bijection of the places keeps the copies of every value.              *)
LEMMA AmountMoved ==
  ASSUME NEW v, NEW s, NEW t, NEW a \in Int, NEW b \in Int, NEW c \in Int, NEW d \in Int,
         NEW m, Matches(m, s, a, b, t, c, d)
  PROVE  Amount(v, s, a, b) = Amount(v, t, c, d)
<1> DEFINE S == {p \in a .. b : s[p] = v}
           T == {p \in c .. d : t[p] = v}
           f == [p \in S |-> m[p]]
<1>0. /\ m \in [a .. b -> c .. d]
      /\ \A p \in a .. b : s[p] = t[m[p]]
      /\ \A p, q \in a .. b : p # q => m[p] # m[q]
      /\ \A r \in c .. d : \E p \in a .. b : m[p] = r
  BY DEF Matches
<1>6. IsFiniteSet(S)
  <2>1. IsFiniteSet(a .. b)
    BY FS_Interval
  <2>2. S \in SUBSET (a .. b)
    OBVIOUS
  <2> HIDE DEF S
  <2> QED BY <2>1, <2>2, FS_Subset, Zenon
<1>1. f \in [S -> T]
  BY <1>0, Zenon
<1>2. \A p, q \in S : f[p] = f[q] => p = q
  BY <1>0, Zenon
<1>3. \A r \in T : \E p \in S : f[p] = r
  <2> SUFFICES ASSUME NEW r \in T PROVE \E p \in S : f[p] = r
    OBVIOUS
  <2>1. PICK p \in a .. b : m[p] = r
    BY <1>0, Zenon
  <2>2. p \in S
    BY <1>0, <2>1, Zenon
  <2> QED BY <2>1, <2>2, Zenon
<1> HIDE DEF f
<1>4. f \in Injection(S, T) /\ f \in Surjection(S, T)
  BY <1>1, <1>2, <1>3, Zenon DEF Injection, Surjection, IsInjective
<1>5. ExistsBijection(S, T)
  BY <1>4, Zenon DEF ExistsBijection, Bijection
<1> HIDE DEF S, T
<1>7. Cardinality(T) = Cardinality(S)
  BY <1>5, <1>6, FS_Bijection, Zenon
<1> QED BY <1>7, Zenon DEF Amount, S, T

(* Counts of neighbouring parts add up,                                    *)
LEMMA AmountSplit ==
  ASSUME NEW v, NEW s, NEW a \in Int, NEW b \in Int, NEW c \in Int, a <= b + 1, b <= c
  PROVE  Amount(v, s, a, c) = Amount(v, s, a, b) + Amount(v, s, b + 1, c)
<1> DEFINE S == {p \in a .. b : s[p] = v}
           T == {p \in b + 1 .. c : s[p] = v}
           U == {p \in a .. c : s[p] = v}
<1>1. U = S \cup T /\ S \cap T = {}
  OBVIOUS
<1>2. IsFiniteSet(S) /\ Cardinality(S) \in Nat
  BY AmountType, Zenon DEF Amount
<1>3. IsFiniteSet(T) /\ Cardinality(T) \in Nat
  <2>1. b + 1 \in Int
    OBVIOUS
  <2> QED BY <2>1, AmountType, Zenon DEF Amount
<1> HIDE DEF S, T, U
<1>4. Cardinality(U) = Cardinality(S) + Cardinality(T) - Cardinality(S \cap T)
  BY <1>1, <1>2, <1>3, FS_Union, Zenon
<1>5. Cardinality(S \cap T) = 0
  BY <1>1, FS_EmptySet, Zenon
<1>7. Cardinality(U) = Cardinality(S) + Cardinality(T)
  BY <1>2, <1>3, <1>4, <1>5
<1> QED BY <1>7, Zenon DEF Amount, S, T, U

(* and do not change where the numbers move by the same distance.          *)
LEMMA AmountShift ==
  ASSUME NEW v, NEW s, NEW t, NEW n \in Nat, NEW d \in Nat, \A p \in 1 .. n : s[p] = t[p + d]
  PROVE  Amount(v, s, 1, n) = Amount(v, t, d + 1, d + n)
<1> DEFINE m == [p \in 1 .. n |-> p + d]
<1>1. m \in [1 .. n -> d + 1 .. d + n] /\ \A p \in 1 .. n : s[p] = t[m[p]]
  OBVIOUS
<1>2. \A p, q \in 1 .. n : p # q => m[p] # m[q]
  OBVIOUS
<1>3. ASSUME NEW r \in d + 1 .. d + n PROVE \E p \in 1 .. n : m[p] = r
  <2>1. r - d \in 1 .. n /\ m[r - d] = r
    OBVIOUS
  <2> QED BY <2>1
<1> HIDE DEF m
<1>4. Matches(m, s, 1, n, t, d + 1, d + n)
  BY <1>1, <1>2, <1>3, Zenon DEF Matches
<1>5. 1 \in Int /\ n \in Int /\ d + 1 \in Int /\ d + n \in Int
  OBVIOUS
<1> QED BY <1>4, <1>5, AmountMoved, SMT

(* The copies in a sequence, and in two that follow each other.            *)
CopiesIn(v, s) == Amount(v, s, 1, Len(s))

(* A sequence behind another: the copies add up.                           *)
LEMMA CopiesOver ==
  ASSUME NEW s \in Seq(Int), NEW t \in Seq(Int), NEW v
  PROVE  CopiesIn(v, s \o t) = CopiesIn(v, s) + CopiesIn(v, t)
<1> DEFINE u == s \o t
<1>1. PICK a \in Nat, b \in Nat : a = Len(s) /\ b = Len(t)
  OBVIOUS
<1>2. /\ Len(u) = a + b /\ \A p \in 1 .. a : u[p] = s[p]
      /\ \A p \in 1 .. b : t[p] = u[p + a]
  BY <1>1
<1> HIDE DEF u
<1>3. Amount(v, u, 1, a + b) = Amount(v, u, 1, a) + Amount(v, u, a + 1, a + b)
  BY AmountSplit
<1>4. Amount(v, u, 1, a) = Amount(v, s, 1, a)
  BY <1>2, AmountSame
<1>5. Amount(v, t, 1, b) = Amount(v, u, a + 1, a + b)
  BY <1>2, AmountShift
<1> QED BY <1>1, <1>2, <1>3, <1>4, <1>5, Zenon DEF CopiesIn, u

(* The copies in a rest are those at its places.                           *)
LEMMA CopiesAfter ==
  ASSUME NEW s \in Seq(Int), NEW a \in Nat, a <= Len(s), NEW v
  PROVE  CopiesIn(v, SubSeq(s, a + 1, Len(s))) = Amount(v, s, a + 1, Len(s))
<1> DEFINE u == SubSeq(s, a + 1, Len(s))
<1>0. PICK n \in Nat : n = Len(s)
  OBVIOUS
<1>5. a <= n
  BY <1>0
<1>1. PICK b \in Nat : b = n - a
  BY <1>5
<1>2. Len(u) = b /\ (\A p \in 1 .. b : u[p] = s[p + a]) /\ n = a + b
  BY <1>0, <1>1
<1> HIDE DEF u
<1>3. Amount(v, u, 1, b) = Amount(v, s, a + 1, a + b)
  BY <1>2, AmountShift
<1> QED BY <1>0, <1>2, <1>3, Zenon DEF CopiesIn, u

(* A number at the end is one more copy of itself.                         *)
LEMMA CopiesAppended ==
  ASSUME NEW s \in Seq(Int), NEW e \in Int, NEW v
  PROVE  CopiesIn(v, Append(s, e)) = CopiesIn(v, s) + (IF e = v THEN 1 ELSE 0)
<1> DEFINE u == Append(s, e)
<1>1. PICK n \in Nat : n = Len(s)
  OBVIOUS
<1>2. Len(u) = n + 1 /\ u[n + 1] = e /\ \A p \in 1 .. n : u[p] = s[p]
  BY <1>1
<1> HIDE DEF u
<1>3. Amount(v, u, 1, n + 1) = Amount(v, u, 1, n) + (IF u[n + 1] = v THEN 1 ELSE 0)
  BY AmountUp
<1>4. Amount(v, u, 1, n) = Amount(v, s, 1, n)
  BY <1>2, AmountSame
<1> QED BY <1>1, <1>2, <1>3, <1>4, Zenon DEF CopiesIn, u

(* array/code, the two searches: the outermost and the next of what has    *)
(* been read, at two places of their own.                                  *)
Further(w, x, y) == IF w = "max" THEN x > y ELSE x < y
TwoAt(p, q, w, s, n, v1, v2) == /\ p # q /\ s[p] = v1 /\ s[q] = v2 /\ ~Further(w, v2, v1)
                                /\ \A r \in 1 .. n : r # p /\ r # q => ~Further(w, s[r], v2)
(* The third: the map's pairs have the counts of what has been read, in    *)
(* the order of the places where their numbers are met first.              *)
MetAt(f, s, t, n) == /\ f \in [1 .. Len(s) -> 1 .. n]
                     /\ \A p \in 1 .. Len(s) : t[f[p]] = s[p][1]
                     /\ \A p \in 1 .. Len(s) : \A r \in 1 .. f[p] - 1 : t[r] # s[p][1]
                     /\ \A p, q \in 1 .. Len(s) : p < q => f[p] < f[q]
                     /\ \A r \in 1 .. n : \E p \in 1 .. Len(s) : s[p][1] = t[r]
Ones(s) == {p \in 1 .. Len(s) : s[p][2] = 1}
SearchInv ==
  /\ search \in {"max", "min", "once"} /\ searchArr \in Seq(Int) /\ searchPc \in {"start", "run", "done"}
  /\ searchI \in Nat /\ searchI <= Len(searchArr) /\ (searchPc = "start" => searchI = 0)
  /\ first \in Int /\ second \in Int /\ Map \in Seq(Int \X Nat)
  /\ search # "once" => /\ searchPc = "run" => searchI >= 2
                        /\ searchI >= 2 => \E p, q \in 1 .. searchI : TwoAt(p, q, search, searchArr, searchI, first, second)
  /\ search = "once" => /\ \E f : MetAt(f, Map, searchArr, searchI)
                        /\ \A p \in 1 .. Len(Map) : Map[p][2] = Amount(Map[p][1], searchArr, 1, searchI)
  /\ search = "once" /\ searchPc = "done" =>
       /\ searchI = Len(searchArr)
       /\ \/ Ones(Map) = {} /\ found = <<>>
          \/ \E p \in Ones(Map) : (\A q \in Ones(Map) : p <= q) /\ found = <<Map[p][1]>>

(* Nothing has been read.                                                  *)
LEMMA SearchInitial == SS!SearchInit => SearchInv
<1> SUFFICES ASSUME SS!SearchInit PROVE SearchInv
  OBVIOUS
<1>1. SearchMaxLen \in Nat /\ SearchValues \subseteq Int
  BY LoopsAssumption DEF SS!SearchAssumption
<1>2. searchArr \in Seq(SearchValues)
  BY <1>1, BoundedSequences DEF SS!SearchInit
<1>3. searchArr \in Seq(Int)
  <2>1. Len(searchArr) \in Nat /\ \A q \in 1 .. Len(searchArr) : searchArr[q] \in Int
    BY <1>1, <1>2, ElementOfSeq, LenProperties
  <2>2. searchArr = [q \in 1 .. Len(searchArr) |-> searchArr[q]]
    BY <1>2
  <2> QED BY <2>1, <2>2
<1>4. MetAt([p \in 1 .. 0 |-> 0], Map, searchArr, searchI)
  BY <1>3 DEF MetAt, SS!SearchInit
<1> QED BY <1>3, <1>4 DEF SS!SearchInit, SearchInv

(* Further orders the numbers, upwards or downwards.                       *)
LEMMA FurtherOrder ==
  ASSUME NEW w, NEW a \in Int, NEW b \in Int, NEW c \in Int
  PROVE  /\ ~Further(w, a, a)
         /\ Further(w, a, b) /\ ~Further(w, c, b) => Further(w, a, c)
         /\ Further(w, a, b) /\ Further(w, b, c) => Further(w, a, c)
         /\ Further(w, a, b) => ~Further(w, b, a)
  BY DEF Further

(* The property's count of what has been read is Amount.                   *)
LEMMA CopiesRead ==
  ASSUME NEW v, NEW s, NEW n \in Nat, DOMAIN s = 1 .. n PROVE SS!SearchCopies(v, s) = Amount(v, s, 1, n)
<1>1. {p \in DOMAIN s : s[p] = v} = {p \in 1 .. n : s[p] = v}
  OBVIOUS
<1> QED BY <1>1, SameCount, Zenon DEF SS!SearchCopies, Amount

(* One number more: it is the outermost, the next, or neither.             *)
LEMMA FindSecondStep == ASSUME SearchInv, SS!FindSecond PROVE SearchInv'
<1> DEFINE n == searchI
           x == searchArr[n + 1]
<1>1. /\ searchPc = "run" /\ search # "once" /\ n \in Nat /\ n < Len(searchArr) /\ searchI' = n + 1 /\ n >= 2
      /\ search' = search /\ searchArr' = searchArr /\ Map' = Map /\ searchPc' = searchPc /\ found' = found
      /\ x \in Int /\ searchArr \in Seq(Int) /\ first \in Int /\ second \in Int /\ search \in {"max", "min", "once"}
  BY DEF SearchInv, SS!FindSecond, SS!Same
<1>2. PICK p \in 1 .. n, q \in 1 .. n : TwoAt(p, q, search, searchArr, n, first, second)
  BY <1>1 DEF SearchInv
<1>3. \A r \in 1 .. n : searchArr[r] \in Int
  BY <1>1
<1>4. \A a, b \in Int : SS!Beyond(a, b) <=> Further(search, a, b)
  BY DEF SS!Beyond, Further
<1>5. first' \in Int /\ second' \in Int /\ \E a, b \in 1 .. n + 1 : TwoAt(a, b, search, searchArr, n + 1, first', second')
  <2>0. n + 1 \in 1 .. n + 1 /\ p \in 1 .. n + 1 /\ q \in 1 .. n + 1 /\ p # n + 1 /\ q # n + 1
    BY <1>1
  <2>1. CASE SS!Beyond(x, first) /\ second' = first /\ first' = x
    <3>1. \A r \in 1 .. n : ~Further(search, searchArr[r], first)
      <4> SUFFICES ASSUME NEW r \in 1 .. n PROVE ~Further(search, searchArr[r], first)
        OBVIOUS
      <4>1. CASE r = p
        BY <1>1, <1>2, <4>1, FurtherOrder DEF TwoAt
      <4>2. CASE r = q
        BY <1>2, <4>2 DEF TwoAt
      <4>3. CASE r # p /\ r # q
        <5>1. ~Further(search, searchArr[r], second) /\ ~Further(search, second, first) /\ searchArr[r] \in Int
          BY <1>2, <1>3, <4>3 DEF TwoAt
        <5> QED BY <1>1, <5>1, FurtherOrder
      <4> QED BY <4>1, <4>2, <4>3
    <3>2. ~Further(search, first, x)
      BY <1>1, <2>1 DEF SS!Beyond, Further
    <3>3. TwoAt(n + 1, p, search, searchArr, n + 1, x, first)
      BY <1>1, <1>2, <2>0, <3>1, <3>2 DEF TwoAt
    <3> QED BY <1>1, <2>0, <2>1, <3>3, Zenon
  <2>2. CASE ~SS!Beyond(x, first) /\ SS!Beyond(x, second) /\ second' = x /\ UNCHANGED first
    <3>1. \A r \in 1 .. n : r # p => ~Further(search, searchArr[r], x)
      <4> SUFFICES ASSUME NEW r \in 1 .. n, r # p PROVE ~Further(search, searchArr[r], x)
        OBVIOUS
      <4>0. Further(search, x, second)
        BY <1>1, <1>4, <2>2
      <4>1. CASE r = q
        <5>1. searchArr[r] = second
          BY <1>2, <4>1 DEF TwoAt
        <5> QED BY <1>1, <4>0, <5>1, FurtherOrder
      <4>2. CASE r # q
        <5>1. ~Further(search, searchArr[r], second) /\ searchArr[r] \in Int
          BY <1>2, <1>3, <4>2 DEF TwoAt
        <5> QED BY <1>1, <4>0, <5>1, FurtherOrder
      <4> QED BY <4>1, <4>2
    <3>2. ~Further(search, x, first)
      BY <1>1, <1>4, <2>2
    <3>3. TwoAt(p, n + 1, search, searchArr, n + 1, first, x)
      BY <1>1, <1>2, <2>0, <3>1, <3>2 DEF TwoAt
    <3> QED BY <1>1, <2>0, <2>2, <3>3, Zenon
  <2>3. CASE ~SS!Beyond(x, first) /\ ~SS!Beyond(x, second) /\ UNCHANGED <<first, second>>
    <3>1. ~Further(search, x, second)
      BY <1>1, <1>4, <2>3
    <3>2. TwoAt(p, q, search, searchArr, n + 1, first, second)
      BY <1>1, <1>2, <2>0, <3>1 DEF TwoAt
    <3> QED BY <1>1, <2>0, <2>3, <3>2, Zenon
  <2> QED BY <2>1, <2>2, <2>3 DEF SS!FindSecond
<1> QED BY <1>1, <1>5 DEF SearchInv

(* One number more: its pair counts it, or it gets a pair.                 *)
LEMMA CountStep == ASSUME SearchInv, SS!Count PROVE SearchInv'
<1> DEFINE n == searchI
<1>1. /\ search = "once" /\ n \in Nat /\ n < Len(searchArr) /\ searchI' = n + 1 /\ searchPc' = "run"
      /\ search' = search /\ searchArr' = searchArr /\ first' = first /\ second' = second
      /\ searchArr \in Seq(Int) /\ first \in Int /\ second \in Int /\ Map \in Seq(Int \X Nat)
  BY DEF SearchInv, SS!Count, SS!Same
<1>2. PICK x \in Int : x = searchArr[n + 1]
  BY <1>1
<1>3. PICK k \in Nat : k = Len(Map)
  BY <1>1
<1>4. PICK f : MetAt(f, Map, searchArr, searchI)
  BY <1>1 DEF SearchInv
<1>11. /\ f \in [1 .. k -> 1 .. n] /\ (\A p \in 1 .. k : searchArr[f[p]] = Map[p][1])
      /\ (\A p \in 1 .. k : \A r \in 1 .. f[p] - 1 : searchArr[r] # Map[p][1])
      /\ (\A p, q \in 1 .. k : p < q => f[p] < f[q]) /\ (\A r \in 1 .. n : \E p \in 1 .. k : Map[p][1] = searchArr[r])
  BY <1>3, <1>4 DEF MetAt
<1>5. \A v : Amount(v, searchArr, 1, n + 1) = Amount(v, searchArr, 1, n) + (IF x = v THEN 1 ELSE 0)
  <2>1. n \in Nat
    BY <1>1
  <2> QED BY <1>2, <2>1, AmountNext, Zenon
<1>6. \A p \in 1 .. k : Map[p] = <<Map[p][1], Map[p][2]>> /\ Map[p][1] \in Int /\ Map[p][2] \in Nat
  BY <1>1, <1>3
<1>7. \A p \in 1 .. k : Map[p][2] = Amount(Map[p][1], searchArr, 1, n)
  BY <1>1, <1>3 DEF SearchInv
<1>8. SS!Has(x) = {p \in 1 .. k : Map[p][1] = x}
  BY <1>1, <1>3 DEF SS!Has
<1>9. CASE SS!Has(x) # {}
  <2>1. Map' = [p \in 1 .. k |-> <<Map[p][1], Map[p][2] + IF p \in SS!Has(x) THEN 1 ELSE 0>>]
    BY <1>1, <1>2, <1>3, <1>9 DEF SS!Count
  <2>2. Map' \in Seq(Int \X Nat) /\ Len(Map') = k
    BY <1>3, <1>6, <2>1
  <2>3. \A p \in 1 .. k : Map'[p][1] = Map[p][1] /\ Map'[p][2] = Map[p][2] + IF Map[p][1] = x THEN 1 ELSE 0
    BY <1>8, <2>1
  <2>4. \A p \in 1 .. k : Map'[p][2] = Amount(Map'[p][1], searchArr, 1, n + 1)
    BY <1>5, <1>7, <2>3
  <2>5. PICK e \in 1 .. k : Map[e][1] = x
    BY <1>8, <1>9
  <2>6. MetAt(f, Map', searchArr, n + 1)
    <3>1. f \in [1 .. k -> 1 .. n + 1]
      BY <1>1, <1>11
    <3>2. \A r \in 1 .. n + 1 : \E p \in 1 .. k : Map'[p][1] = searchArr[r]
      <4> SUFFICES ASSUME NEW r \in 1 .. n + 1 PROVE \E p \in 1 .. k : Map[p][1] = searchArr[r]
        BY <2>3
      <4>1. CASE r = n + 1
        BY <1>2, <2>5, <4>1
      <4>2. CASE r # n + 1
        <5>1. r \in 1 .. n
          BY <1>1, <4>2
        <5> QED BY <1>11, <5>1
      <4> QED BY <4>1, <4>2
    <3>3. /\ \A p \in 1 .. k : searchArr[f[p]] = Map'[p][1]
          /\ \A p \in 1 .. k : \A r \in 1 .. f[p] - 1 : searchArr[r] # Map'[p][1]
      BY <1>11, <2>3
    <3> QED BY <1>11, <2>2, <3>1, <3>2, <3>3, Zenon DEF MetAt
  <2> QED BY <1>1, <2>2, <2>4, <2>6 DEF SearchInv
<1>10. CASE SS!Has(x) = {}
  <2>1. Map' = Append(Map, <<x, 1>>)
    BY <1>1, <1>2, <1>10 DEF SS!Count
  <2>2. /\ Map' \in Seq(Int \X Nat) /\ Len(Map') = k + 1 /\ Map'[k + 1] = <<x, 1>>
        /\ \A p \in 1 .. k : Map'[p] = Map[p]
    <3>1. <<x, 1>> \in Int \X Nat
      OBVIOUS
    <3> QED BY <1>1, <1>3, <2>1, <3>1
  <2>3. \A p \in 1 .. k : Map[p][1] # x
    BY <1>8, <1>10
  <2>4. \A r \in 1 .. n : searchArr[r] # x
    BY <1>3, <1>4, <2>3 DEF MetAt
  <2>5. Amount(x, searchArr, 1, n) = 0
    <3>1. {r \in 1 .. n : searchArr[r] = x} = {}
      BY <2>4
    <3> QED BY <3>1, FS_EmptySet, Zenon DEF Amount
  <2>6. \A p \in 1 .. k + 1 : Map'[p][2] = Amount(Map'[p][1], searchArr, 1, n + 1)
    <3> SUFFICES ASSUME NEW p \in 1 .. k + 1 PROVE Map'[p][2] = Amount(Map'[p][1], searchArr, 1, n + 1)
      OBVIOUS
    <3>1. CASE p = k + 1
      BY <1>5, <2>2, <2>5, <3>1
    <3>2. CASE p # k + 1
      <4>1. p \in 1 .. k
        BY <3>2
      <4>2. Map'[p] = Map[p] /\ Map[p][1] # x /\ Map[p][2] = Amount(Map[p][1], searchArr, 1, n) /\ Map[p][2] \in Nat
        BY <1>6, <1>7, <2>2, <2>3, <4>1
      <4>3. Amount(Map[p][1], searchArr, 1, n + 1) = Amount(Map[p][1], searchArr, 1, n) + 0
        BY <1>5, <4>2
      <4> QED BY <4>2, <4>3
    <3> QED BY <3>1, <3>2
  <2> DEFINE g == [p \in 1 .. k + 1 |-> IF p = k + 1 THEN n + 1 ELSE f[p]]
  <2>7. MetAt(g, Map', searchArr, n + 1)
    <3>1. g \in [1 .. k + 1 -> 1 .. n + 1]
      <4>1. \A p \in 1 .. k + 1 : p # k + 1 => p \in 1 .. k
        BY <1>3
      <4>2. \A p \in 1 .. k + 1 : (IF p = k + 1 THEN n + 1 ELSE f[p]) \in 1 .. n + 1
        <5>1. n \in Nat /\ n + 1 \in 1 .. n + 1 /\ \A r \in 1 .. n : r \in 1 .. n + 1
          BY <1>1
        <5>2. \A p \in 1 .. k : f[p] \in 1 .. n
          BY <1>11
        <5> QED BY <4>1, <5>1, <5>2, Zenon
      <4> QED BY <4>2
    <3>2. \A p \in 1 .. k + 1 : searchArr[g[p]] = Map'[p][1]
      <4> SUFFICES ASSUME NEW p \in 1 .. k + 1 PROVE searchArr[g[p]] = Map'[p][1]
        OBVIOUS
      <4>1. CASE p = k + 1
        BY <1>2, <2>2, <4>1
      <4>2. CASE p # k + 1
        <5>1. p \in 1 .. k /\ g[p] = f[p]
          BY <1>3, <4>2
        <5> QED BY <1>11, <2>2, <5>1
      <4> QED BY <4>1, <4>2
    <3>3. \A p \in 1 .. k + 1 : \A r \in 1 .. g[p] - 1 : searchArr[r] # Map'[p][1]
      <4> SUFFICES ASSUME NEW p \in 1 .. k + 1, NEW r \in 1 .. g[p] - 1 PROVE searchArr[r] # Map'[p][1]
        OBVIOUS
      <4>1. CASE p = k + 1
        BY <1>1, <2>2, <2>4, <4>1
      <4>2. CASE p # k + 1
        <5>1. p \in 1 .. k /\ r \in 1 .. f[p] - 1
          BY <4>2
        <5> QED BY <1>11, <2>2, <5>1
      <4> QED BY <4>1, <4>2
    <3>4. \A p, q \in 1 .. k + 1 : p < q => g[p] < g[q]
      <4> SUFFICES ASSUME NEW p \in 1 .. k + 1, NEW q \in 1 .. k + 1, p < q PROVE g[p] < g[q]
        OBVIOUS
      <4>1. p \in 1 .. k /\ g[p] = f[p] /\ f[p] \in 1 .. n
        BY <1>3, <1>11
      <4>2. CASE q = k + 1
        BY <1>1, <4>1, <4>2
      <4>3. CASE q # k + 1
        <5>1. q \in 1 .. k
          BY <4>3
        <5> QED BY <1>11, <4>1, <4>3, <5>1
      <4> QED BY <4>2, <4>3
    <3>5. \A r \in 1 .. n + 1 : \E p \in 1 .. k + 1 : Map'[p][1] = searchArr[r]
      <4> SUFFICES ASSUME NEW r \in 1 .. n + 1 PROVE \E p \in 1 .. k + 1 : Map'[p][1] = searchArr[r]
        OBVIOUS
      <4>1. CASE r = n + 1
        BY <1>2, <1>3, <2>2, <4>1
      <4>2. CASE r # n + 1
        <5>1. r \in 1 .. n
          BY <1>1, <4>2
        <5>2. PICK p \in 1 .. k : Map[p][1] = searchArr[r]
          BY <1>11, <5>1
        <5>3. p \in 1 .. k + 1 /\ Map'[p] = Map[p]
          BY <1>3, <2>2
        <5> QED BY <5>2, <5>3
      <4> QED BY <4>1, <4>2
    <3> HIDE DEF g
    <3> QED BY <2>2, <3>1, <3>2, <3>3, <3>4, <3>5, Zenon DEF MetAt
  <2> HIDE DEF g
  <2> QED BY <1>1, <2>2, <2>6, <2>7 DEF SearchInv
<1> QED BY <1>9, <1>10

(* Every step of a search, and steps of the other algorithms.              *)
LEMMA SearchStep == SearchInv /\ [SS!SearchNext]_searchVars => SearchInv'
<1> SUFFICES ASSUME SearchInv, [SS!SearchNext]_searchVars PROVE SearchInv'
  OBVIOUS
<1>2. CASE SS!Short
  BY <1>2 DEF SearchInv, SS!Short, SS!Same
<1>3. CASE SS!First
  <2>1. /\ search \in {"max", "min"} /\ searchArr \in Seq(Int) /\ Len(searchArr) >= 2 /\ searchI' = 2 /\ searchPc' = "run"
        /\ search' = search /\ searchArr' = searchArr /\ Map' = Map /\ found' = found /\ Map \in Seq(Int \X Nat)
        /\ searchArr[1] \in Int /\ searchArr[2] \in Int
    BY <1>3 DEF SearchInv, SS!First, SS!Same
  <2>2. first' \in Int /\ second' \in Int /\ \E p, q \in 1 .. 2 : TwoAt(p, q, search, searchArr, 2, first', second')
    <3>1. CASE SS!Beyond(searchArr[2], searchArr[1])
      <4>1. first' = searchArr[2] /\ second' = searchArr[1]
        BY <1>3, <3>1 DEF SS!First
      <4>2. TwoAt(2, 1, search, searchArr, 2, first', second')
        BY <2>1, <3>1, <4>1 DEF TwoAt, Further, SS!Beyond
      <4> QED BY <2>1, <4>1, <4>2
    <3>2. CASE ~SS!Beyond(searchArr[2], searchArr[1])
      <4>1. first' = searchArr[1] /\ second' = searchArr[2]
        BY <1>3, <3>2 DEF SS!First
      <4>2. TwoAt(1, 2, search, searchArr, 2, first', second')
        BY <2>1, <3>2, <4>1 DEF TwoAt, Further, SS!Beyond
      <4> QED BY <2>1, <4>1, <4>2
    <3> QED BY <3>1, <3>2
  <2> QED BY <2>1, <2>2 DEF SearchInv
<1>4. CASE SS!FindSecond
  BY <1>4, FindSecondStep
<1>5. CASE SS!Found
  BY <1>5 DEF SearchInv, SS!Found, SS!Same
<1>6. CASE SS!Count
  BY <1>6, CountStep
<1>7. CASE SS!Once
  <2>1. /\ search = "once" /\ searchI = Len(searchArr) /\ searchPc' = "done" /\ UNCHANGED <<search, searchArr, searchI, first, second, Map>>
    BY <1>7 DEF SS!Once, SS!Same
  <2>2. DOMAIN Map = 1 .. Len(Map)
    BY DEF SearchInv
  <2>3. \/ Ones(Map) = {} /\ found' = <<>>
        \/ \E p \in Ones(Map) : (\A q \in Ones(Map) : p <= q) /\ found' = <<Map[p][1]>>
    BY <1>7, <2>2 DEF SS!Once, Ones
  <2> QED BY <2>1, <2>3 DEF SearchInv
<1>8. CASE UNCHANGED searchVars
  BY <1>8 DEF SearchInv, searchVars
<1> QED BY <1>2, <1>3, <1>4, <1>5, <1>6, <1>7, <1>8 DEF SS!SearchNext

(* So the two found are the outermost, the counts are right, and the       *)
(* first number that is there once is found.                               *)
LEMMA SearchMeaning == SearchInv => SS!FirstAndSecond /\ SS!MapCounts /\ SS!FirstOnce
<1> SUFFICES ASSUME SearchInv PROVE SS!FirstAndSecond /\ SS!MapCounts /\ SS!FirstOnce
  OBVIOUS
<1> DEFINE read == SubSeq(searchArr, 1, searchI)
<1>1. read \in Seq(Int) /\ Len(read) = searchI /\ \A q \in 1 .. searchI : read[q] = searchArr[q]
  <2>1. searchArr \in Seq(Int) /\ searchI \in 0 .. Len(searchArr)
    BY DEF SearchInv
  <2> QED BY <2>1, UpTo
<1>2. DOMAIN read = 1 .. searchI
  <2> HIDE DEF read
  <2> QED BY <1>1
<1>3. SS!FirstAndSecond
  <2> HIDE DEF read
  <2>2. ASSUME search # "once", searchI >= 2
        PROVE  \E p, q \in DOMAIN read :
                 /\ p # q /\ read[p] = first /\ read[q] = second
                 /\ \A r \in DOMAIN read \ {p, q} : ~SS!Beyond(read[r], second)
                 /\ ~SS!Beyond(second, first)
    <3>1. PICK p \in 1 .. searchI, q \in 1 .. searchI : TwoAt(p, q, search, searchArr, searchI, first, second)
      BY <2>2 DEF SearchInv
    <3>2. p \in DOMAIN read /\ q \in DOMAIN read /\ p # q /\ read[p] = first /\ read[q] = second /\ ~SS!Beyond(second, first)
      BY <1>1, <1>2, <3>1 DEF TwoAt, Further, SS!Beyond
    <3>3. \A r \in DOMAIN read \ {p, q} : ~SS!Beyond(read[r], second)
      BY <1>1, <1>2, <3>1 DEF TwoAt, Further, SS!Beyond
    <3> QED BY <3>2, <3>3
  <2> QED BY <2>2 DEF SS!FirstAndSecond, read
<1>4. SS!MapCounts
  <2> HIDE DEF read
  <2>0. DOMAIN Map = 1 .. Len(Map)
    BY DEF SearchInv
  <2> SUFFICES ASSUME search = "once"
               PROVE  /\ \A p \in 1 .. Len(Map) : Map[p][2] = SS!SearchCopies(Map[p][1], read)
                      /\ \A p, q \in 1 .. Len(Map) : p # q => Map[p][1] # Map[q][1]
    BY <2>0, Zenon DEF SS!MapCounts, read
  <2>1. \A v : SS!SearchCopies(v, read) = Amount(v, searchArr, 1, searchI)
    <3> SUFFICES ASSUME NEW v PROVE SS!SearchCopies(v, read) = Amount(v, searchArr, 1, searchI)
      OBVIOUS
    <3>1. SS!SearchCopies(v, read) = Amount(v, read, 1, searchI)
      BY <1>2, CopiesRead DEF SearchInv
    <3>2. Amount(v, read, 1, searchI) = Amount(v, searchArr, 1, searchI)
      <4>1. PICK z \in Int : z = searchI
        BY DEF SearchInv
      <4>2. \A p \in 1 .. z : read[p] = searchArr[p]
        BY <1>1, <4>1
      <4>3. 1 \in Int
        OBVIOUS
      <4>4. Amount(v, read, 1, z) = Amount(v, searchArr, 1, z)
        BY <4>2, <4>3, AmountSame, SMT
      <4> QED BY <4>1, <4>4
    <3> QED BY <3>1, <3>2
  <2>2. PICK f : MetAt(f, Map, searchArr, searchI)
    BY DEF SearchInv
  <2>3. ASSUME NEW p \in 1 .. Len(Map), NEW q \in 1 .. Len(Map), p < q PROVE Map[p][1] # Map[q][1]
    <3>1. f[p] \in 1 .. f[q] - 1
      BY <2>2, <2>3 DEF MetAt
    <3>2. searchArr[f[p]] = Map[p][1] /\ \A r \in 1 .. f[q] - 1 : searchArr[r] # Map[q][1]
      BY <2>2 DEF MetAt
    <3> QED BY <3>1, <3>2
  <2>4. \A p, q \in 1 .. Len(Map) : p # q => p < q \/ q < p
    OBVIOUS
  <2>5. \A p \in 1 .. Len(Map) : Map[p][2] = SS!SearchCopies(Map[p][1], read)
    BY <2>1 DEF SearchInv
  <2> QED BY <2>3, <2>4, <2>5
<1>5. SS!FirstOnce
  <2> HIDE DEF read
  <2> DEFINE single == {p \in DOMAIN searchArr : SS!SearchCopies(searchArr[p], searchArr) = 1}
  <2> SUFFICES ASSUME search = "once", searchPc = "done"
               PROVE  /\ single = {} => found = <<>>
                      /\ single # {} => \E p \in single : found = <<searchArr[p]>> /\ \A q \in single : p <= q
    BY DEF SS!FirstOnce
  <2>1. searchI = Len(searchArr) /\ DOMAIN searchArr = 1 .. searchI
    BY DEF SearchInv
  <2>2. \A v : SS!SearchCopies(v, searchArr) = Amount(v, searchArr, 1, searchI)
    BY <2>1, CopiesRead DEF SearchInv
  <2>3. PICK f : MetAt(f, Map, searchArr, searchI)
    BY DEF SearchInv
  <2>4. \A q \in single : \E e \in Ones(Map) : Map[e][1] = searchArr[q] /\ f[e] <= q
    <3> SUFFICES ASSUME NEW q \in single PROVE \E e \in Ones(Map) : Map[e][1] = searchArr[q] /\ f[e] <= q
      OBVIOUS
    <3>1. q \in 1 .. searchI /\ Amount(searchArr[q], searchArr, 1, searchI) = 1
      BY <2>1, <2>2
    <3>2. PICK e \in 1 .. Len(Map) : Map[e][1] = searchArr[q]
      BY <2>3, <3>1 DEF MetAt
    <3>3. e \in Ones(Map)
      BY <3>1, <3>2 DEF SearchInv, Ones
    <3>4. f[e] <= q
      BY <2>3, <3>1, <3>2 DEF MetAt
    <3> QED BY <3>2, <3>3, <3>4
  <2>5. \A e \in Ones(Map) : f[e] \in single /\ searchArr[f[e]] = Map[e][1]
    <3> SUFFICES ASSUME NEW e \in Ones(Map) PROVE f[e] \in single /\ searchArr[f[e]] = Map[e][1]
      OBVIOUS
    <3>1. e \in 1 .. Len(Map) /\ Map[e][2] = 1
      BY DEF Ones
    <3>2. searchArr[f[e]] = Map[e][1] /\ f[e] \in 1 .. searchI
      BY <2>3, <3>1 DEF MetAt
    <3> QED BY <2>1, <2>2, <3>1, <3>2 DEF SearchInv
  <2> HIDE DEF single
  <2>6. CASE Ones(Map) = {} /\ found = <<>>
    BY <2>4, <2>6
  <2>7. CASE \E p \in Ones(Map) : (\A q \in Ones(Map) : p <= q) /\ found = <<Map[p][1]>>
    <3>1. PICK p \in Ones(Map) : (\A q \in Ones(Map) : p <= q) /\ found = <<Map[p][1]>>
      BY <2>7
    <3>2. ASSUME NEW q \in single PROVE f[p] <= q
      <4>1. PICK e \in Ones(Map) : Map[e][1] = searchArr[q] /\ f[e] <= q
        BY <2>4
      <4>2. p <= e /\ p \in 1 .. Len(Map) /\ e \in 1 .. Len(Map)
        BY <3>1 DEF Ones
      <4>3. f[p] <= f[e] /\ f[p] \in Int /\ f[e] \in Int
        BY <2>3, <4>2 DEF MetAt
      <4>4. q \in Int
        BY <2>1 DEF single
      <4> QED BY <4>1, <4>3, <4>4
    <3> QED BY <2>5, <3>1, <3>2
  <2> QED BY <2>6, <2>7 DEF SearchInv
<1> QED BY <1>3, <1>4, <1>5

(* Two cells change places.                                                *)
Exchanged(s, r, q) == [s EXCEPT ![r] = s[q], ![q] = s[r]]

AsExchanged(t, s, r, q) == /\ t \in Seq(Int) /\ Len(t) = Len(s) /\ t[r] = s[q] /\ t[q] = s[r]
                           /\ \A p \in 1 .. Len(s) : p # r /\ p # q => t[p] = s[p]
                           /\ \A v : Amount(v, t, 1, Len(s)) = Amount(v, s, 1, Len(s))

(* Two cells that change places: the same numbers. *)
LEMMA Changed ==
  ASSUME NEW s \in Seq(Int), NEW r \in 1 .. Len(s), NEW q \in 1 .. Len(s), r # q,
         NEW t, t = Exchanged(s, r, q)
  PROVE  AsExchanged(t, s, r, q)
<1>0. PICK n \in Nat : n = Len(s)
  OBVIOUS
<1>1. r \in 1 .. n /\ q \in 1 .. n /\ DOMAIN s = 1 .. n /\ s[r] \in Int /\ s[q] \in Int
  BY <1>0
<1>2. /\ t \in Seq(Int) /\ Len(t) = n /\ t[r] = s[q] /\ t[q] = s[r]
      /\ \A p \in 1 .. n : p # r /\ p # q => t[p] = s[p]
  BY <1>0, <1>1 DEF Exchanged
<1>3. ASSUME NEW v PROVE Amount(v, t, 1, n) = Amount(v, s, 1, n)
  <2> DEFINE m == [p \in 1 .. n |-> IF p = r THEN q ELSE IF p = q THEN r ELSE p]
  <2>1. m \in [1 .. n -> 1 .. n]
    BY <1>1
  <2>2. \A p \in 1 .. n : t[p] = s[m[p]]
    BY <1>1, <1>2
  <2>3. \A p, c \in 1 .. n : p # c => m[p] # m[c]
    BY <1>1
  <2>4. \A c \in 1 .. n : m[m[c]] = c /\ m[c] \in 1 .. n
    BY <1>1
  <2>5. \A c \in 1 .. n : \E p \in 1 .. n : m[p] = c
    BY <2>4
  <2> HIDE DEF m
  <2>6. Matches(m, t, 1, n, s, 1, n)
    BY <2>1, <2>2, <2>3, <2>5, Zenon DEF Matches
  <2>7. 1 \in Int /\ n \in Int
    OBVIOUS
  <2> QED BY <2>6, <2>7, AmountMoved, SMT
<1>4. \A v : Amount(v, t, 1, n) = Amount(v, s, 1, n)
  BY <1>3
<1> QED BY <1>0, <1>2, <1>4, Zenon DEF AsExchanged

(* sort/StableSort.cpp: the pass is always the first, and the cell it has  *)
(* come to holds the largest number so far.                                *)
Carried(s, t, c) == /\ c \in Nat /\ c >= 1 /\ c <= Len(s)
                    /\ \E p \in 1 .. c : t[p] = s[c]
                    /\ \A p \in 1 .. c : t[p] <= s[c]
                    /\ \A p \in c + 1 .. Len(s) : s[p] = t[p]
Rearranged(s, t) == /\ s \in Seq(Int) /\ t \in Seq(Int) /\ Len(t) = Len(s)
                    /\ \A p \in 1 .. Len(s) : t[p] \in BubbleValues
                    /\ \A v : Amount(v, s, 1, Len(s)) = Amount(v, t, 1, Len(s))
BubbleInv ==
  /\ Rearranged(mem, bubbleOrig) /\ bubbleI = 1 /\ bubblePc \in {"outer", "inner", "done", "fault"}
  /\ bubblePc = "outer" => mem = bubbleOrig /\ length \in Nat /\ length <= Len(mem)
  /\ bubblePc \in {"inner", "fault"} => Carried(mem, bubbleOrig, bubbleJ)

(* The array is as it was.                                                 *)
LEMMA BubbleInitial == SS!BubbleInit => BubbleInv
<1> SUFFICES ASSUME SS!BubbleInit PROVE BubbleInv
  OBVIOUS
<1>1. BubbleMaxLen \in Nat /\ BubbleValues \subseteq Int /\ Behind \in Nat
  BY LoopsAssumption DEF SS!BubbleAssumption
<1>2. PICK n \in Nat : n = length + Behind /\ length \in Nat /\ length <= n
  BY <1>1 DEF SS!BubbleInit
<1>3. mem \in [1 .. n -> BubbleValues] /\ bubbleOrig = mem
  BY <1>2 DEF SS!BubbleInit
<1>4. \A p \in 1 .. n : mem[p] \in BubbleValues /\ mem[p] \in Int
  BY <1>1, <1>3
<1>5. mem = [p \in 1 .. n |-> mem[p]]
  BY <1>3
<1>6. mem \in Seq(Int) /\ Len(mem) = n
  BY <1>4, <1>5
<1>7. Rearranged(mem, bubbleOrig)
  BY <1>3, <1>4, <1>6 DEF Rearranged
<1> QED BY <1>2, <1>3, <1>6, <1>7 DEF SS!BubbleInit, BubbleInv

(* The larger of two neighbours is carried on.                             *)
LEMMA CarryOn ==
  ASSUME NEW s, NEW t, NEW r \in Nat, Rearranged(s, t), Carried(s, t, r), r < Len(s),
         NEW u, u = Exchanged(s, r, r + 1)
  PROVE  /\ s[r] > s[r + 1] => Rearranged(u, t) /\ Carried(u, t, r + 1)
         /\ ~(s[r] > s[r + 1]) => Carried(s, t, r + 1)
<1>1. PICK n \in Nat : n = Len(s)
  BY DEF Rearranged
<1>2. /\ r \in Int /\ r >= 1 /\ r \in 1 .. n /\ r + 1 \in 1 .. n /\ r # r + 1 /\ s \in Seq(Int) /\ t \in Seq(Int) /\ Len(t) = n
  BY <1>1 DEF Rearranged, Carried
<1>3. \A p \in 1 .. n : s[p] \in Int /\ t[p] \in Int /\ t[p] \in BubbleValues
  BY <1>1, <1>2 DEF Rearranged
<1>4. /\ \E p \in 1 .. r : t[p] = s[r]
      /\ \A p \in 1 .. r : t[p] <= s[r]
      /\ \A p \in r + 1 .. n : s[p] = t[p]
  BY <1>1 DEF Carried
<1>5. /\ u \in Seq(Int) /\ Len(u) = n /\ u[r + 1] = s[r] /\ u[r] = s[r + 1]
      /\ \A p \in 1 .. n : p # r /\ p # r + 1 => u[p] = s[p]
      /\ \A v : Amount(v, u, 1, n) = Amount(v, s, 1, n)
  <2>1. s \in Seq(Int) /\ r \in 1 .. Len(s) /\ r + 1 \in 1 .. Len(s) /\ r # r + 1
    BY <1>1, <1>2
  <2>2. AsExchanged(u, s, r, r + 1)
    BY <2>1, Changed, Zenon
  <2> QED BY <1>1, <2>2 DEF AsExchanged
<1>6. s[r + 1] = t[r + 1]
  <2>1. r + 1 \in r + 1 .. n
    BY <1>2
  <2> QED BY <1>4, <2>1
<1>10. r \in Nat /\ r + 1 <= n
  BY <1>2
<1>9. \A p \in 1 .. r + 1 : p = r + 1 \/ p \in 1 .. r
  BY <1>2
<1>7. ASSUME s[r] > s[r + 1] PROVE Rearranged(u, t) /\ Carried(u, t, r + 1)
  <2>1. Rearranged(u, t)
    <3>1. \A v : Amount(v, u, 1, n) = Amount(v, t, 1, n)
      BY <1>1, <1>5 DEF Rearranged
    <3> QED BY <1>2, <1>3, <1>5, <3>1 DEF Rearranged
  <2>2. \E p \in 1 .. r + 1 : t[p] = u[r + 1]
    <3>1. PICK p \in 1 .. r : t[p] = s[r]
      BY <1>4
    <3>2. p \in 1 .. r + 1
      BY <1>10
    <3> QED BY <1>5, <3>1, <3>2, Zenon
  <2>3. \A p \in 1 .. r + 1 : t[p] <= u[r + 1]
    <3> SUFFICES ASSUME NEW p \in 1 .. r + 1 PROVE t[p] <= s[r]
      BY <1>5
    <3>1. CASE p = r + 1
      BY <1>2, <1>3, <1>6, <1>7, <3>1
    <3> QED BY <1>4, <1>9, <3>1
  <2>4. \A p \in (r + 1) + 1 .. n : u[p] = t[p]
    <3>1. \A p \in (r + 1) + 1 .. n : p \in 1 .. n /\ p \in r + 1 .. n /\ p # r /\ p # r + 1
      BY <1>10, SMT
    <3> QED BY <1>4, <1>5, <3>1
  <2>5. r + 1 \in Nat /\ r + 1 >= 1 /\ r + 1 <= Len(u)
    BY <1>5, <1>10
  <2>6. Carried(u, t, r + 1)
    BY <1>5, <2>2, <2>3, <2>4, <2>5, Zenon DEF Carried
  <2> QED BY <2>1, <2>6
<1>8. ASSUME ~(s[r] > s[r + 1]) PROVE Carried(s, t, r + 1)
  <2>2. \E p \in 1 .. r + 1 : t[p] = s[r + 1]
    <3>1. r + 1 \in 1 .. r + 1
      BY <1>10
    <3> QED BY <1>6, <3>1
  <2>3. \A p \in 1 .. r + 1 : t[p] <= s[r + 1]
    <3> SUFFICES ASSUME NEW p \in 1 .. r + 1 PROVE t[p] <= s[r + 1]
      OBVIOUS
    <3>1. CASE p = r + 1
      BY <1>2, <1>3, <1>6, <3>1
    <3>2. CASE p \in 1 .. r
      <4>1. t[p] <= s[r] /\ t[p] \in Int /\ s[r] \in Int /\ s[r + 1] \in Int
        BY <1>2, <1>3, <1>4, <3>2
      <4> QED BY <1>8, <4>1
    <3> QED BY <1>9, <3>1, <3>2
  <2>4. \A p \in (r + 1) + 1 .. n : s[p] = t[p]
    <3>1. \A p \in (r + 1) + 1 .. n : p \in r + 1 .. n
      BY <1>10
    <3> QED BY <1>4, <3>1, Zenon
  <2> QED BY <1>1, <1>2, <2>2, <2>3, <2>4 DEF Carried
<1> QED BY <1>7, <1>8, Zenon

(* Every step of BubbleSort, and steps of the other algorithms.            *)
LEMMA BubbleStep == BubbleInv /\ [SS!BubbleNext]_bubbleVars => BubbleInv'
<1> SUFFICES ASSUME BubbleInv, [SS!BubbleNext]_bubbleVars PROVE BubbleInv'
  OBVIOUS
<1>1. CASE SS!Outer
  <2>1. /\ mem = bubbleOrig /\ Len(mem) >= 1 /\ bubbleJ' = 1 /\ bubblePc' = "inner" /\ mem' = mem
        /\ length' = length /\ bubbleOrig' = bubbleOrig /\ bubbleI' = bubbleI /\ mem \in Seq(Int)
    BY <1>1 DEF SS!Outer, BubbleInv, Rearranged
  <2>2. Carried(mem, bubbleOrig, 1)
    BY <2>1 DEF Carried
  <2> QED BY <2>1, <2>2 DEF BubbleInv
<1>2. CASE SS!Return
  BY <1>2 DEF SS!Return, BubbleInv
<1>3. CASE SS!Compare
  <2>1. /\ bubblePc = "inner" /\ bubbleJ < Len(mem) /\ bubbleJ' = bubbleJ + 1
        /\ bubbleOrig' = bubbleOrig /\ bubbleI' = bubbleI /\ bubblePc' = bubblePc
        /\ (mem[bubbleJ] > mem[bubbleJ + 1]) => mem' = Exchanged(mem, bubbleJ, bubbleJ + 1)
        /\ ~(mem[bubbleJ] > mem[bubbleJ + 1]) => mem' = mem
    BY <1>3 DEF SS!Compare, Exchanged
  <2>2. Rearranged(mem, bubbleOrig) /\ Carried(mem, bubbleOrig, bubbleJ) /\ bubbleJ \in Nat
    BY <2>1 DEF BubbleInv, Carried
  <2>3. Rearranged(mem', bubbleOrig) /\ Carried(mem', bubbleOrig, bubbleJ + 1)
    BY <2>1, <2>2, CarryOn, Zenon
  <2> QED BY <2>1, <2>3 DEF BubbleInv
<1>4. CASE SS!Fault
  BY <1>4 DEF SS!Fault, BubbleInv
<1>5. CASE UNCHANGED bubbleVars
  BY <1>5 DEF bubbleVars, BubbleInv
<1> QED BY <1>1, <1>2, <1>3, <1>4, <1>5 DEF SS!BubbleNext

(* So one pass carries the largest to the end.                             *)
LEMMA BubbleMeaning == BubbleInv => SS!CarriesTheLargest
<1> SUFFICES ASSUME BubbleInv PROVE SS!CarriesTheLargest
  OBVIOUS
<1>1. ASSUME bubblePc \in {"inner", "fault"}
      PROVE  mem[bubbleJ] = SS!Largest(bubbleJ) /\ \A p \in bubbleJ + 1 .. Len(mem) : mem[p] = bubbleOrig[p]
  <2> DEFINE x == mem[bubbleJ]
  <2>1. /\ \E p \in 1 .. bubbleJ : bubbleOrig[p] = x
        /\ \A p \in 1 .. bubbleJ : bubbleOrig[p] <= x
        /\ \A p \in bubbleJ + 1 .. Len(mem) : mem[p] = bubbleOrig[p]
        /\ bubbleJ \in Nat /\ bubbleJ <= Len(mem) /\ bubbleJ >= 1 /\ x \in Int
    BY <1>1 DEF BubbleInv, Rearranged, Carried
  <2>2. x \in BubbleValues
    BY <2>1 DEF BubbleInv, Rearranged
  <2>3. ASSUME NEW y \in BubbleValues, \E p \in 1 .. bubbleJ : bubbleOrig[p] = y, \A p \in 1 .. bubbleJ : bubbleOrig[p] <= y
        PROVE  y = x
    <3>1. y \in Int
      BY LoopsAssumption DEF SS!BubbleAssumption
    <3>2. y <= x /\ x <= y
      BY <2>1, <2>3
    <3> QED BY <2>1, <3>1, <3>2
  <2> HIDE DEF x
  <2>4. SS!Largest(bubbleJ) = x
    BY <2>1, <2>2, <2>3, Zenon DEF SS!Largest
  <2> QED BY <2>1, <2>4 DEF x
<1>2. ASSUME NEW v \in BubbleValues PROVE SS!BubbleCopies(v, mem) = SS!BubbleCopies(v, bubbleOrig)
  <2>1. mem \in Seq(Int) /\ bubbleOrig \in Seq(Int) /\ Len(bubbleOrig) = Len(mem)
    BY DEF BubbleInv, Rearranged
  <2>2. SS!BubbleCopies(v, mem) = Amount(v, mem, 1, Len(mem))
    BY <2>1, AmountWhole, SameCount, Zenon DEF SS!BubbleCopies
  <2>3. SS!BubbleCopies(v, bubbleOrig) = Amount(v, bubbleOrig, 1, Len(bubbleOrig))
    BY <2>1, AmountWhole, SameCount, Zenon DEF SS!BubbleCopies
  <2> QED BY <2>1, <2>2, <2>3 DEF BubbleInv, Rearranged
<1> QED BY <1>1, <1>2 DEF SS!CarriesTheLargest

(* C++/setalg.cpp: what the library promises, from the copies of a value   *)
(* in the two multisets; what the code writes of them.                     *)
Wanted(g, m, c) == IF g = "union" THEN (IF m > c THEN m ELSE c)
                   ELSE IF g = "intersection" THEN (IF m > c THEN c ELSE m)
                   ELSE IF g = "difference" THEN (IF m > c THEN m - c ELSE 0)
                   ELSE (IF m > c THEN m - c ELSE c - m)
SetCalls == {"union", "intersection", "difference", "symmetric"}

(* Where the iterators have passed a and b numbers of s and t, the output  *)
(* u has what is wanted of those; a number still ahead in one of the two   *)
(* has not been met more often in the other.                               *)
Rising(s)           == \A p, q \in 1 .. Len(s) : p < q => s[p] <= s[q]
Under(u, s, a)      == \A p \in 1 .. Len(u) : \A q \in a + 1 .. Len(s) : u[p] <= s[q]
Leads(s, a, t, b)   == \A q \in a + 1 .. Len(s) : Amount(s[q], t, 1, b) <= Amount(s[q], s, 1, a)
Keeps(u, g, s, a, t, b) == \A v : CopiesIn(v, u) = Wanted(g, Amount(v, s, 1, a), Amount(v, t, 1, b))
Half(u, s, a)       == s \in Seq(Int) /\ Rising(s) /\ a \in Nat /\ a <= Len(s) /\ Under(u, s, a)
SetMoment(u, g, s, a, t, b) ==
  /\ g \in SetCalls /\ u \in Seq(Int) /\ Rising(u) /\ Half(u, s, a) /\ Half(u, t, b)
  /\ Leads(s, a, t, b) /\ Leads(t, b, s, a) /\ Keeps(u, g, s, a, t, b)
SetInv ==
  /\ setPc \in {"loop", "copy", "done"}
  /\ setPc # "done" => SetMoment(setResult, setAlg, set1, first1, set2, first2)
  /\ setPc = "copy" => first1 = Len(set1) \/ first2 = Len(set2)
  /\ setPc = "done" => /\ set1 \in Seq(Int) /\ set2 \in Seq(Int) /\ setResult \in Seq(Int) /\ Rising(setResult) /\ setAlg \in SetCalls
                       /\ Keeps(setResult, setAlg, set1, Len(set1), set2, Len(set2))

(* What the four calls write of the numbers they pass.                     *)
LEMMA WhatIsWritten ==
  ASSUME setAlg \in SetCalls
  PROVE  /\ MG!w.less <=> setAlg # "intersection"
         /\ MG!w.rest1 <=> setAlg # "intersection"
         /\ MG!w.greater <=> setAlg \in {"union", "symmetric"}
         /\ MG!w.rest2 <=> setAlg \in {"union", "symmetric"}
         /\ MG!w.equal <=> setAlg \in {"union", "intersection"}
<1>1. CASE setAlg = "union"
  <2>1. MG!w = MG!set_union_1
    BY <1>1, Zenon DEF MG!w
  <2> QED BY <1>1, <2>1 DEF MG!set_union_1, MG!Writes
<1>2. CASE setAlg = "intersection"
  <2>1. MG!w = MG!set_intersection_1
    BY <1>2, Zenon DEF MG!w
  <2> QED BY <1>2, <2>1 DEF MG!set_intersection_1, MG!Writes
<1>3. CASE setAlg = "difference"
  <2>1. MG!w = MG!set_difference_1
    BY <1>3, Zenon DEF MG!w
  <2> QED BY <1>3, <2>1 DEF MG!set_difference_1, MG!Writes
<1>4. CASE setAlg = "symmetric"
  <2>1. MG!w = MG!set_symmetric_difference_1
    BY <1>4, Zenon DEF MG!w
  <2> QED BY <1>4, <2>1 DEF MG!set_symmetric_difference_1, MG!Writes
<1> QED BY <1>1, <1>2, <1>3, <1>4 DEF SetCalls

(* What the property wants of a value is what Wanted says.                 *)
LEMMA WhatBelongs ==
  ASSUME setAlg \in SetCalls, NEW m \in Nat, NEW c \in Nat
  PROVE  MG!Belongs(m, c) = Wanted(setAlg, m, c)
<1>1. CASE setAlg = "union"
  <2>1. MG!Belongs(m, c) = MG!Larger(m, c)
    BY <1>1, Zenon DEF MG!Belongs
  <2> QED BY <1>1, <2>1 DEF MG!Larger, Wanted
<1>2. CASE setAlg = "intersection"
  <2>1. MG!Belongs(m, c) = m + c - MG!Larger(m, c)
    BY <1>2, Zenon DEF MG!Belongs
  <2> QED BY <1>2, <2>1 DEF MG!Larger, Wanted
<1>3. CASE setAlg = "difference"
  <2>1. MG!Belongs(m, c) = MG!Less0(m - c)
    BY <1>3, Zenon DEF MG!Belongs
  <2> QED BY <1>3, <2>1 DEF MG!Larger, MG!Less0, Wanted
<1>4. CASE setAlg = "symmetric"
  <2>1. MG!Belongs(m, c) = MG!Larger(m, c) - (m + c - MG!Larger(m, c))
    BY <1>4, Zenon DEF MG!Belongs
  <2> QED BY <1>4, <2>1 DEF MG!Larger, Wanted
<1> QED BY <1>1, <1>2, <1>3, <1>4 DEF SetCalls

(* How many are wanted is a natural number.                                *)
LEMMA WantedType ==
  ASSUME NEW g, NEW m \in Nat, NEW c \in Nat PROVE Wanted(g, m, c) \in Nat
  BY DEF Wanted

(* One copy more in the first multiset,                                    *)
LEMMA WantedOneFirst ==
  ASSUME NEW g \in SetCalls, NEW m \in Nat, NEW c \in Nat, c <= m
  PROVE  Wanted(g, m + 1, c) = Wanted(g, m, c) + (IF g # "intersection" THEN 1 ELSE 0)
  BY DEF Wanted, SetCalls

(* in the second,                                                          *)
LEMMA WantedOneSecond ==
  ASSUME NEW g \in SetCalls, NEW m \in Nat, NEW c \in Nat, m <= c
  PROVE  Wanted(g, m, c + 1) = Wanted(g, m, c) + (IF g \in {"union", "symmetric"} THEN 1 ELSE 0)
  BY DEF Wanted, SetCalls

(* in both: what is wanted grows by what the code writes.                  *)
LEMMA WantedBoth ==
  ASSUME NEW g \in SetCalls, NEW m \in Nat, NEW c \in Nat, m = c
  PROVE  Wanted(g, m + 1, c + 1) = Wanted(g, m, c) + (IF g \in {"union", "intersection"} THEN 1 ELSE 0)
  BY DEF Wanted, SetCalls

(* Nothing is passed and nothing written.                                  *)
LEMMA SetInitial == MG!SetInit => SetInv
<1> SUFFICES ASSUME MG!SetInit PROVE SetInv
  OBVIOUS
<1>1. LongestSet \in Nat /\ SetValues \subseteq Int
  BY LoopsAssumption DEF MG!SetAlgAssumption
<1>2. ASSUME NEW s \in MG!Multisets PROVE s \in Seq(Int) /\ Rising(s)
  <2>1. s \in Seq(SetValues)
    BY <1>1, BoundedSequences DEF MG!Multisets
  <2>2. Len(s) \in Nat /\ \A q \in 1 .. Len(s) : s[q] \in Int
    BY <1>1, <2>1, ElementOfSeq, LenProperties
  <2>3. s = [q \in 1 .. Len(s) |-> s[q]]
    BY <2>1
  <2>4. s \in Seq(Int)
    BY <2>2, <2>3
  <2> QED BY <2>4 DEF MG!Multisets, MG!SetOrdered, Rising
<1>3. set1 \in Seq(Int) /\ Rising(set1) /\ set2 \in Seq(Int) /\ Rising(set2)
  BY <1>2 DEF MG!SetInit
<1>4. /\ setResult = <<>> /\ first1 = 0 /\ first2 = 0 /\ setPc = "loop" /\ setAlg \in SetCalls
  BY DEF MG!SetInit, SetCalls
<1>5. \A v, s : Amount(v, s, 1, 0) = 0
  BY AmountNone
<1>6. setResult \in Seq(Int) /\ Len(setResult) = 0
  BY <1>4
<1>7. Half(setResult, set1, 0) /\ Half(setResult, set2, 0) /\ Rising(setResult)
  BY <1>3, <1>6 DEF Half, Under, Rising
<1>8. Leads(set1, 0, set2, 0) /\ Leads(set2, 0, set1, 0)
  BY <1>5 DEF Leads
<1>9. Keeps(setResult, setAlg, set1, 0, set2, 0)
  BY <1>4, <1>5, <1>6 DEF Keeps, CopiesIn, Wanted
<1> QED BY <1>4, <1>6, <1>7, <1>8, <1>9 DEF SetInv, SetMoment

(* A number not below the others goes to the end of an ordered output,     *)
LEMMA AppendedRising ==
  ASSUME NEW u \in Seq(Int), Rising(u), NEW e \in Int, \A p \in 1 .. Len(u) : u[p] <= e
  PROVE  Rising(Append(u, e))
<1>1. PICK n \in Nat : n = Len(u)
  OBVIOUS
<1>2. Len(Append(u, e)) = n + 1 /\ Append(u, e)[n + 1] = e /\ \A p \in 1 .. n : Append(u, e)[p] = u[p]
  BY <1>1
<1>3. \A p \in 1 .. n + 1 : p = n + 1 \/ p \in 1 .. n
  OBVIOUS
<1>4. \A p \in 1 .. n : \A q \in 1 .. n : p < q => u[p] <= u[q]
  BY <1>1 DEF Rising
<1>5. \A p \in 1 .. n : u[p] <= e
  BY <1>1
<1> SUFFICES ASSUME NEW p \in 1 .. n + 1, NEW q \in 1 .. n + 1, p < q PROVE Append(u, e)[p] <= Append(u, e)[q]
  BY <1>2 DEF Rising
<1>6. p \in 1 .. n
  OBVIOUS
<1> QED BY <1>2, <1>3, <1>4, <1>5, <1>6

(* which stays below what is still to be read.                             *)
LEMMA AppendedUnder ==
  ASSUME NEW u \in Seq(Int), NEW s, NEW a, Under(u, s, a), NEW e \in Int, \A q \in a + 1 .. Len(s) : e <= s[q]
  PROVE  Under(Append(u, e), s, a)
<1>1. PICK n \in Nat : n = Len(u)
  OBVIOUS
<1>2. Len(Append(u, e)) = n + 1 /\ Append(u, e)[n + 1] = e /\ \A p \in 1 .. n : Append(u, e)[p] = u[p]
  BY <1>1
<1>3. \A p \in 1 .. n + 1 : p = n + 1 \/ p \in 1 .. n
  OBVIOUS
<1> QED BY <1>1, <1>2, <1>3 DEF Under

(* The smaller number is the first multiset's: its iterator moves.         *)
LEMMA FirstMoves ==
  ASSUME NEW u, NEW g, NEW s, NEW t, NEW a \in Nat, NEW b \in Nat, SetMoment(u, g, s, a, t, b),
         a < Len(s), b < Len(t), s[a + 1] < t[b + 1]
  PROVE  SetMoment(IF g # "intersection" THEN Append(u, s[a + 1]) ELSE u, g, s, a + 1, t, b)
<1>1. /\ g \in SetCalls /\ u \in Seq(Int) /\ Rising(u) /\ s \in Seq(Int) /\ t \in Seq(Int) /\ Rising(s) /\ Rising(t)
      /\ Under(u, s, a) /\ Under(u, t, b) /\ Leads(s, a, t, b) /\ Leads(t, b, s, a) /\ Keeps(u, g, s, a, t, b)
  BY DEF SetMoment, Half
<1>2. PICK n \in Nat, l \in Nat : n = Len(s) /\ l = Len(t)
  BY <1>1
<1>3. a + 1 \in 1 .. n /\ b + 1 \in 1 .. l /\ a + 1 \in a + 1 .. n /\ b + 1 \in b + 1 .. l
  BY <1>2
<1>4. \A p \in 1 .. n : s[p] \in Int
  BY <1>1, <1>2
<1>5. \A p \in 1 .. l : t[p] \in Int
  BY <1>1, <1>2
<1>6. PICK e \in Int : e = s[a + 1]
  BY <1>3, <1>4, <1>5
<1>7. ASSUME NEW p \in a + 1 .. n PROVE p \in 1 .. n /\ s[p] \in Int /\ e <= s[p]
  <2>1. p \in 1 .. n /\ (p = a + 1 \/ a + 1 < p)
    OBVIOUS
  <2>2. s[a + 1] <= s[p] /\ s[p] \in Int /\ s[a + 1] \in Int
    BY <1>1, <1>2, <1>3, <1>4, <2>1 DEF Rising
  <2> QED BY <1>3, <1>5, <1>6, <2>1, <2>2
<1>8. ASSUME NEW p \in b + 1 .. l PROVE p \in 1 .. l /\ t[p] \in Int /\ e <= t[p] /\ e # t[p]
  <2>1. p \in 1 .. l /\ (p = b + 1 \/ b + 1 < p)
    OBVIOUS
  <2>2. t[b + 1] <= t[p] /\ t[p] \in Int /\ t[b + 1] \in Int
    BY <1>1, <1>2, <1>3, <1>5, <2>1 DEF Rising
  <2> QED BY <1>3, <1>4, <1>6, <2>1, <2>2
<1>9. \A v : Amount(v, s, 1, a) \in Nat /\ Amount(v, t, 1, b) \in Nat
  BY AmountNext
<1>10. \A v : Amount(v, s, 1, a + 1) = Amount(v, s, 1, a) + (IF e = v THEN 1 ELSE 0)
  BY <1>6, AmountNext
<1>11. \A v : Amount(v, t, 1, b) = Amount(v, t, 1, b) + (IF e = v THEN 0 ELSE 0)
  BY <1>9
<1>12. \A p \in a + 1 .. n : Amount(s[p], t, 1, b) <= Amount(s[p], s, 1, a)
  BY <1>1, <1>2 DEF Leads
<1>13. \A p \in b + 1 .. l : Amount(t[p], s, 1, a) <= Amount(t[p], t, 1, b)
  BY <1>1, <1>2 DEF Leads
<1>14. Leads(s, a + 1, t, b)
  <2> SUFFICES ASSUME NEW p \in (a + 1) + 1 .. n PROVE Amount(s[p], t, 1, b) <= Amount(s[p], s, 1, a + 1)
    BY <1>2 DEF Leads
  <2>1. p \in a + 1 .. n
    OBVIOUS
  <2>2. Amount(s[p], t, 1, b) <= Amount(s[p], s, 1, a) /\ Amount(s[p], s, 1, a) \in Nat /\ Amount(s[p], t, 1, b) \in Nat
    BY <1>9, <1>12, <2>1
  <2>3. Amount(s[p], s, 1, a + 1) = Amount(s[p], s, 1, a) + (IF e = s[p] THEN 1 ELSE 0)
    BY <1>10
  <2>4. Amount(s[p], t, 1, b) = Amount(s[p], t, 1, b) + (IF e = s[p] THEN 0 ELSE 0)
    BY <1>11
  <2>5. p \in 1 .. n
    BY <1>7, <2>1
  <2> QED BY <2>2, <2>3, <2>4, <2>5
<1>15. Leads(t, b, s, a + 1)
  <2> SUFFICES ASSUME NEW p \in (b) + 1 .. l PROVE Amount(t[p], s, 1, a + 1) <= Amount(t[p], t, 1, b)
    BY <1>2 DEF Leads
  <2>1. p \in b + 1 .. l
    OBVIOUS
  <2>2. Amount(t[p], s, 1, a) <= Amount(t[p], t, 1, b) /\ Amount(t[p], s, 1, a) \in Nat /\ Amount(t[p], t, 1, b) \in Nat
    BY <1>9, <1>13, <2>1
  <2>3. Amount(t[p], s, 1, a + 1) = Amount(t[p], s, 1, a) + (IF e = t[p] THEN 1 ELSE 0)
    BY <1>10
  <2>4. Amount(t[p], t, 1, b) = Amount(t[p], t, 1, b) + (IF e = t[p] THEN 0 ELSE 0)
    BY <1>11
  <2>5. p \in 1 .. l /\ e # t[p]
    BY <1>8, <2>1
  <2> QED BY <2>2, <2>3, <2>4, <2>5
<1> DEFINE x == IF g # "intersection" THEN Append(u, e) ELSE u
<1>16. x \in Seq(Int) /\ Rising(x) /\ Under(x, s, a + 1) /\ Under(x, t, b)
  <2>1. PICK c \in Nat : c = Len(u)
    BY <1>1
  <2>2. \A p \in 1 .. c : u[p] \in Int /\ u[p] <= e
    BY <1>1, <1>2, <1>3, <1>6, <2>1 DEF Under
  <2>3. (\A p \in (a + 1) + 1 .. n : p \in a + 1 .. n) /\ (\A p \in (b) + 1 .. l : p \in b + 1 .. l)
    OBVIOUS
  <2>4. Under(u, s, a + 1) /\ Under(u, t, b)
    BY <1>1, <1>2, <2>3, Zenon DEF Under
  <2>5. Append(u, e) \in Seq(Int) /\ Rising(Append(u, e))
    <3>1. u \in Seq(Int) /\ Rising(u) /\ e \in Int /\ \A p \in 1 .. Len(u) : u[p] <= e
      BY <1>1, <1>6, <2>1, <2>2
    <3> QED BY <3>1, AppendedRising
  <2>6. Under(Append(u, e), s, a + 1)
    BY <1>1, <1>2, <1>6, <1>7, <2>3, <2>4, AppendedUnder
  <2>7. Under(Append(u, e), t, b)
    BY <1>1, <1>2, <1>6, <1>8, <2>3, <2>4, AppendedUnder
  <2> QED BY <1>1, <2>4, <2>5, <2>6, <2>7
<1>17. Keeps(x, g, s, a + 1, t, b)
  <2> SUFFICES ASSUME NEW v PROVE CopiesIn(v, x) = Wanted(g, Amount(v, s, 1, a + 1), Amount(v, t, 1, b))
    BY DEF Keeps
  <2>1. PICK m \in Nat, c \in Nat : m = Amount(v, s, 1, a) /\ c = Amount(v, t, 1, b)
    BY <1>9
  <2>2. CopiesIn(v, u) = Wanted(g, m, c) /\ Wanted(g, m, c) \in Nat
    BY <1>1, <2>1, WantedType DEF Keeps
  <2>3. CopiesIn(v, x) = Wanted(g, m, c) + (IF e = v /\ g # "intersection" THEN 1 ELSE 0)
    <3>1. CopiesIn(v, Append(u, e)) = CopiesIn(v, u) + (IF e = v THEN 1 ELSE 0)
      BY <1>1, <1>6, CopiesAppended
    <3> QED BY <2>2, <3>1
  <2>4. CASE e # v
    <3>1. Amount(v, s, 1, a + 1) = m /\ Amount(v, t, 1, b) = c /\ CopiesIn(v, x) = Wanted(g, m, c)
      BY <1>10, <1>11, <2>1, <2>2, <2>3, <2>4
    <3> QED BY <3>1
  <2>5. CASE e = v
    <3>1. Amount(v, s, 1, a + 1) = m + 1 /\ Amount(v, t, 1, b) = c
      BY <1>10, <1>11, <2>1, <2>5
    <3>2. c <= m
      BY <1>3, <1>6, <1>12, <2>1, <2>5
    <3>3. Wanted(g, m + 1, c) = Wanted(g, m, c) + (IF g # "intersection" THEN 1 ELSE 0)
      BY <1>1, <3>2, WantedOneFirst
    <3> QED BY <2>3, <2>5, <3>1, <3>3
  <2> QED BY <2>4, <2>5
<1> HIDE DEF x
<1>18. Half(x, s, a + 1) /\ Half(x, t, b)
  BY <1>1, <1>2, <1>3, <1>16 DEF Half
<1>19. SetMoment(x, g, s, a + 1, t, b)
  BY <1>1, <1>14, <1>15, <1>16, <1>17, <1>18, Zenon DEF SetMoment
<1> QED BY <1>6, <1>19 DEF x

(* The smaller number is the second multiset's: its iterator moves.        *)
LEMMA SecondMoves ==
  ASSUME NEW u, NEW g, NEW s, NEW t, NEW a \in Nat, NEW b \in Nat, SetMoment(u, g, s, a, t, b),
         a < Len(s), b < Len(t), t[b + 1] < s[a + 1]
  PROVE  SetMoment(IF g \in {"union", "symmetric"} THEN Append(u, t[b + 1]) ELSE u, g, s, a, t, b + 1)
<1>1. /\ g \in SetCalls /\ u \in Seq(Int) /\ Rising(u) /\ s \in Seq(Int) /\ t \in Seq(Int) /\ Rising(s) /\ Rising(t)
      /\ Under(u, s, a) /\ Under(u, t, b) /\ Leads(s, a, t, b) /\ Leads(t, b, s, a) /\ Keeps(u, g, s, a, t, b)
  BY DEF SetMoment, Half
<1>2. PICK n \in Nat, l \in Nat : n = Len(s) /\ l = Len(t)
  BY <1>1
<1>3. a + 1 \in 1 .. n /\ b + 1 \in 1 .. l /\ a + 1 \in a + 1 .. n /\ b + 1 \in b + 1 .. l
  BY <1>2
<1>4. \A p \in 1 .. n : s[p] \in Int
  BY <1>1, <1>2
<1>5. \A p \in 1 .. l : t[p] \in Int
  BY <1>1, <1>2
<1>6. PICK e \in Int : e = t[b + 1]
  BY <1>3, <1>4, <1>5
<1>7. ASSUME NEW p \in a + 1 .. n PROVE p \in 1 .. n /\ s[p] \in Int /\ e <= s[p] /\ e # s[p]
  <2>1. p \in 1 .. n /\ (p = a + 1 \/ a + 1 < p)
    OBVIOUS
  <2>2. s[a + 1] <= s[p] /\ s[p] \in Int /\ s[a + 1] \in Int
    BY <1>1, <1>2, <1>3, <1>4, <2>1 DEF Rising
  <2> QED BY <1>3, <1>5, <1>6, <2>1, <2>2
<1>8. ASSUME NEW p \in b + 1 .. l PROVE p \in 1 .. l /\ t[p] \in Int /\ e <= t[p]
  <2>1. p \in 1 .. l /\ (p = b + 1 \/ b + 1 < p)
    OBVIOUS
  <2>2. t[b + 1] <= t[p] /\ t[p] \in Int /\ t[b + 1] \in Int
    BY <1>1, <1>2, <1>3, <1>5, <2>1 DEF Rising
  <2> QED BY <1>3, <1>4, <1>6, <2>1, <2>2
<1>9. \A v : Amount(v, s, 1, a) \in Nat /\ Amount(v, t, 1, b) \in Nat
  BY AmountNext
<1>10. \A v : Amount(v, s, 1, a) = Amount(v, s, 1, a) + (IF e = v THEN 0 ELSE 0)
  BY <1>9
<1>11. \A v : Amount(v, t, 1, b + 1) = Amount(v, t, 1, b) + (IF e = v THEN 1 ELSE 0)
  BY <1>6, AmountNext
<1>12. \A p \in a + 1 .. n : Amount(s[p], t, 1, b) <= Amount(s[p], s, 1, a)
  BY <1>1, <1>2 DEF Leads
<1>13. \A p \in b + 1 .. l : Amount(t[p], s, 1, a) <= Amount(t[p], t, 1, b)
  BY <1>1, <1>2 DEF Leads
<1>14. Leads(s, a, t, b + 1)
  <2> SUFFICES ASSUME NEW p \in (a) + 1 .. n PROVE Amount(s[p], t, 1, b + 1) <= Amount(s[p], s, 1, a)
    BY <1>2 DEF Leads
  <2>1. p \in a + 1 .. n
    OBVIOUS
  <2>2. Amount(s[p], t, 1, b) <= Amount(s[p], s, 1, a) /\ Amount(s[p], s, 1, a) \in Nat /\ Amount(s[p], t, 1, b) \in Nat
    BY <1>9, <1>12, <2>1
  <2>3. Amount(s[p], s, 1, a) = Amount(s[p], s, 1, a) + (IF e = s[p] THEN 0 ELSE 0)
    BY <1>10
  <2>4. Amount(s[p], t, 1, b + 1) = Amount(s[p], t, 1, b) + (IF e = s[p] THEN 1 ELSE 0)
    BY <1>11
  <2>5. p \in 1 .. n /\ e # s[p]
    BY <1>7, <2>1
  <2> QED BY <2>2, <2>3, <2>4, <2>5
<1>15. Leads(t, b + 1, s, a)
  <2> SUFFICES ASSUME NEW p \in (b + 1) + 1 .. l PROVE Amount(t[p], s, 1, a) <= Amount(t[p], t, 1, b + 1)
    BY <1>2 DEF Leads
  <2>1. p \in b + 1 .. l
    OBVIOUS
  <2>2. Amount(t[p], s, 1, a) <= Amount(t[p], t, 1, b) /\ Amount(t[p], s, 1, a) \in Nat /\ Amount(t[p], t, 1, b) \in Nat
    BY <1>9, <1>13, <2>1
  <2>3. Amount(t[p], s, 1, a) = Amount(t[p], s, 1, a) + (IF e = t[p] THEN 0 ELSE 0)
    BY <1>10
  <2>4. Amount(t[p], t, 1, b + 1) = Amount(t[p], t, 1, b) + (IF e = t[p] THEN 1 ELSE 0)
    BY <1>11
  <2>5. p \in 1 .. l
    BY <1>8, <2>1
  <2> QED BY <2>2, <2>3, <2>4, <2>5
<1> DEFINE x == IF g \in {"union", "symmetric"} THEN Append(u, e) ELSE u
<1>16. x \in Seq(Int) /\ Rising(x) /\ Under(x, s, a) /\ Under(x, t, b + 1)
  <2>1. PICK c \in Nat : c = Len(u)
    BY <1>1
  <2>2. \A p \in 1 .. c : u[p] \in Int /\ u[p] <= e
    BY <1>1, <1>2, <1>3, <1>6, <2>1 DEF Under
  <2>3. (\A p \in (a) + 1 .. n : p \in a + 1 .. n) /\ (\A p \in (b + 1) + 1 .. l : p \in b + 1 .. l)
    OBVIOUS
  <2>4. Under(u, s, a) /\ Under(u, t, b + 1)
    BY <1>1, <1>2, <2>3, Zenon DEF Under
  <2>5. Append(u, e) \in Seq(Int) /\ Rising(Append(u, e))
    <3>1. u \in Seq(Int) /\ Rising(u) /\ e \in Int /\ \A p \in 1 .. Len(u) : u[p] <= e
      BY <1>1, <1>6, <2>1, <2>2
    <3> QED BY <3>1, AppendedRising
  <2>6. Under(Append(u, e), s, a)
    BY <1>1, <1>2, <1>6, <1>7, <2>3, <2>4, AppendedUnder
  <2>7. Under(Append(u, e), t, b + 1)
    BY <1>1, <1>2, <1>6, <1>8, <2>3, <2>4, AppendedUnder
  <2> QED BY <1>1, <2>4, <2>5, <2>6, <2>7
<1>17. Keeps(x, g, s, a, t, b + 1)
  <2> SUFFICES ASSUME NEW v PROVE CopiesIn(v, x) = Wanted(g, Amount(v, s, 1, a), Amount(v, t, 1, b + 1))
    BY DEF Keeps
  <2>1. PICK m \in Nat, c \in Nat : m = Amount(v, s, 1, a) /\ c = Amount(v, t, 1, b)
    BY <1>9
  <2>2. CopiesIn(v, u) = Wanted(g, m, c) /\ Wanted(g, m, c) \in Nat
    BY <1>1, <2>1, WantedType DEF Keeps
  <2>3. CopiesIn(v, x) = Wanted(g, m, c) + (IF e = v /\ g \in {"union", "symmetric"} THEN 1 ELSE 0)
    <3>1. CopiesIn(v, Append(u, e)) = CopiesIn(v, u) + (IF e = v THEN 1 ELSE 0)
      BY <1>1, <1>6, CopiesAppended
    <3> QED BY <2>2, <3>1
  <2>4. CASE e # v
    <3>1. Amount(v, s, 1, a) = m /\ Amount(v, t, 1, b + 1) = c /\ CopiesIn(v, x) = Wanted(g, m, c)
      BY <1>10, <1>11, <2>1, <2>2, <2>3, <2>4
    <3> QED BY <3>1
  <2>5. CASE e = v
    <3>1. Amount(v, s, 1, a) = m /\ Amount(v, t, 1, b + 1) = c + 1
      BY <1>10, <1>11, <2>1, <2>5
    <3>2. m <= c
      BY <1>3, <1>6, <1>13, <2>1, <2>5
    <3>3. Wanted(g, m, c + 1) = Wanted(g, m, c) + (IF g \in {"union", "symmetric"} THEN 1 ELSE 0)
      BY <1>1, <3>2, WantedOneSecond
    <3> QED BY <2>3, <2>5, <3>1, <3>3
  <2> QED BY <2>4, <2>5
<1> HIDE DEF x
<1>18. Half(x, s, a) /\ Half(x, t, b + 1)
  BY <1>1, <1>2, <1>3, <1>16 DEF Half
<1>19. SetMoment(x, g, s, a, t, b + 1)
  BY <1>1, <1>14, <1>15, <1>16, <1>17, <1>18, Zenon DEF SetMoment
<1> QED BY <1>6, <1>19 DEF x

(* The numbers are equal and both iterators move.                          *)
LEMMA BothMove ==
  ASSUME NEW u, NEW g, NEW s, NEW t, NEW a \in Nat, NEW b \in Nat, SetMoment(u, g, s, a, t, b),
         a < Len(s), b < Len(t), s[a + 1] = t[b + 1]
  PROVE  SetMoment(IF g \in {"union", "intersection"} THEN Append(u, s[a + 1]) ELSE u, g, s, a + 1, t, b + 1)
<1>1. /\ g \in SetCalls /\ u \in Seq(Int) /\ Rising(u) /\ s \in Seq(Int) /\ t \in Seq(Int) /\ Rising(s) /\ Rising(t)
      /\ Under(u, s, a) /\ Under(u, t, b) /\ Leads(s, a, t, b) /\ Leads(t, b, s, a) /\ Keeps(u, g, s, a, t, b)
  BY DEF SetMoment, Half
<1>2. PICK n \in Nat, l \in Nat : n = Len(s) /\ l = Len(t)
  BY <1>1
<1>3. a + 1 \in 1 .. n /\ b + 1 \in 1 .. l /\ a + 1 \in a + 1 .. n /\ b + 1 \in b + 1 .. l
  BY <1>2
<1>4. \A p \in 1 .. n : s[p] \in Int
  BY <1>1, <1>2
<1>5. \A p \in 1 .. l : t[p] \in Int
  BY <1>1, <1>2
<1>6. PICK e \in Int : e = s[a + 1]
  BY <1>3, <1>4, <1>5
<1>7. ASSUME NEW p \in a + 1 .. n PROVE p \in 1 .. n /\ s[p] \in Int /\ e <= s[p]
  <2>1. p \in 1 .. n /\ (p = a + 1 \/ a + 1 < p)
    OBVIOUS
  <2>2. s[a + 1] <= s[p] /\ s[p] \in Int /\ s[a + 1] \in Int
    BY <1>1, <1>2, <1>3, <1>4, <2>1 DEF Rising
  <2> QED BY <1>3, <1>5, <1>6, <2>1, <2>2
<1>8. ASSUME NEW p \in b + 1 .. l PROVE p \in 1 .. l /\ t[p] \in Int /\ e <= t[p]
  <2>1. p \in 1 .. l /\ (p = b + 1 \/ b + 1 < p)
    OBVIOUS
  <2>2. t[b + 1] <= t[p] /\ t[p] \in Int /\ t[b + 1] \in Int
    BY <1>1, <1>2, <1>3, <1>5, <2>1 DEF Rising
  <2> QED BY <1>3, <1>4, <1>6, <2>1, <2>2
<1>9. \A v : Amount(v, s, 1, a) \in Nat /\ Amount(v, t, 1, b) \in Nat
  BY AmountNext
<1>10. \A v : Amount(v, s, 1, a + 1) = Amount(v, s, 1, a) + (IF e = v THEN 1 ELSE 0)
  BY <1>6, AmountNext
<1>11. \A v : Amount(v, t, 1, b + 1) = Amount(v, t, 1, b) + (IF e = v THEN 1 ELSE 0)
  BY <1>6, AmountNext
<1>12. \A p \in a + 1 .. n : Amount(s[p], t, 1, b) <= Amount(s[p], s, 1, a)
  BY <1>1, <1>2 DEF Leads
<1>13. \A p \in b + 1 .. l : Amount(t[p], s, 1, a) <= Amount(t[p], t, 1, b)
  BY <1>1, <1>2 DEF Leads
<1>14. Leads(s, a + 1, t, b + 1)
  <2> SUFFICES ASSUME NEW p \in (a + 1) + 1 .. n PROVE Amount(s[p], t, 1, b + 1) <= Amount(s[p], s, 1, a + 1)
    BY <1>2 DEF Leads
  <2>1. p \in a + 1 .. n
    OBVIOUS
  <2>2. Amount(s[p], t, 1, b) <= Amount(s[p], s, 1, a) /\ Amount(s[p], s, 1, a) \in Nat /\ Amount(s[p], t, 1, b) \in Nat
    BY <1>9, <1>12, <2>1
  <2>3. Amount(s[p], s, 1, a + 1) = Amount(s[p], s, 1, a) + (IF e = s[p] THEN 1 ELSE 0)
    BY <1>10
  <2>4. Amount(s[p], t, 1, b + 1) = Amount(s[p], t, 1, b) + (IF e = s[p] THEN 1 ELSE 0)
    BY <1>11
  <2>5. p \in 1 .. n
    BY <1>7, <2>1
  <2> QED BY <2>2, <2>3, <2>4, <2>5
<1>15. Leads(t, b + 1, s, a + 1)
  <2> SUFFICES ASSUME NEW p \in (b + 1) + 1 .. l PROVE Amount(t[p], s, 1, a + 1) <= Amount(t[p], t, 1, b + 1)
    BY <1>2 DEF Leads
  <2>1. p \in b + 1 .. l
    OBVIOUS
  <2>2. Amount(t[p], s, 1, a) <= Amount(t[p], t, 1, b) /\ Amount(t[p], s, 1, a) \in Nat /\ Amount(t[p], t, 1, b) \in Nat
    BY <1>9, <1>13, <2>1
  <2>3. Amount(t[p], s, 1, a + 1) = Amount(t[p], s, 1, a) + (IF e = t[p] THEN 1 ELSE 0)
    BY <1>10
  <2>4. Amount(t[p], t, 1, b + 1) = Amount(t[p], t, 1, b) + (IF e = t[p] THEN 1 ELSE 0)
    BY <1>11
  <2>5. p \in 1 .. l
    BY <1>8, <2>1
  <2> QED BY <2>2, <2>3, <2>4, <2>5
<1> DEFINE x == IF g \in {"union", "intersection"} THEN Append(u, e) ELSE u
<1>16. x \in Seq(Int) /\ Rising(x) /\ Under(x, s, a + 1) /\ Under(x, t, b + 1)
  <2>1. PICK c \in Nat : c = Len(u)
    BY <1>1
  <2>2. \A p \in 1 .. c : u[p] \in Int /\ u[p] <= e
    BY <1>1, <1>2, <1>3, <1>6, <2>1 DEF Under
  <2>3. (\A p \in (a + 1) + 1 .. n : p \in a + 1 .. n) /\ (\A p \in (b + 1) + 1 .. l : p \in b + 1 .. l)
    OBVIOUS
  <2>4. Under(u, s, a + 1) /\ Under(u, t, b + 1)
    BY <1>1, <1>2, <2>3, Zenon DEF Under
  <2>5. Append(u, e) \in Seq(Int) /\ Rising(Append(u, e))
    <3>1. u \in Seq(Int) /\ Rising(u) /\ e \in Int /\ \A p \in 1 .. Len(u) : u[p] <= e
      BY <1>1, <1>6, <2>1, <2>2
    <3> QED BY <3>1, AppendedRising
  <2>6. Under(Append(u, e), s, a + 1)
    BY <1>1, <1>2, <1>6, <1>7, <2>3, <2>4, AppendedUnder
  <2>7. Under(Append(u, e), t, b + 1)
    BY <1>1, <1>2, <1>6, <1>8, <2>3, <2>4, AppendedUnder
  <2> QED BY <1>1, <2>4, <2>5, <2>6, <2>7
<1>17. Keeps(x, g, s, a + 1, t, b + 1)
  <2> SUFFICES ASSUME NEW v PROVE CopiesIn(v, x) = Wanted(g, Amount(v, s, 1, a + 1), Amount(v, t, 1, b + 1))
    BY DEF Keeps
  <2>1. PICK m \in Nat, c \in Nat : m = Amount(v, s, 1, a) /\ c = Amount(v, t, 1, b)
    BY <1>9
  <2>2. CopiesIn(v, u) = Wanted(g, m, c) /\ Wanted(g, m, c) \in Nat
    BY <1>1, <2>1, WantedType DEF Keeps
  <2>3. CopiesIn(v, x) = Wanted(g, m, c) + (IF e = v /\ g \in {"union", "intersection"} THEN 1 ELSE 0)
    <3>1. CopiesIn(v, Append(u, e)) = CopiesIn(v, u) + (IF e = v THEN 1 ELSE 0)
      BY <1>1, <1>6, CopiesAppended
    <3> QED BY <2>2, <3>1
  <2>4. CASE e # v
    <3>1. Amount(v, s, 1, a + 1) = m /\ Amount(v, t, 1, b + 1) = c /\ CopiesIn(v, x) = Wanted(g, m, c)
      BY <1>10, <1>11, <2>1, <2>2, <2>3, <2>4
    <3> QED BY <3>1
  <2>5. CASE e = v
    <3>1. Amount(v, s, 1, a + 1) = m + 1 /\ Amount(v, t, 1, b + 1) = c + 1
      BY <1>10, <1>11, <2>1, <2>5
    <3>2. m = c
      <4>1. c <= m
        BY <1>3, <1>6, <1>12, <2>1, <2>5
      <4>2. m <= c
        BY <1>3, <1>6, <1>13, <2>1, <2>5
      <4> QED BY <4>1, <4>2
    <3>3. Wanted(g, m + 1, c + 1) = Wanted(g, m, c) + (IF g \in {"union", "intersection"} THEN 1 ELSE 0)
      BY <1>1, <3>2, WantedBoth
    <3> QED BY <2>3, <2>5, <3>1, <3>3
  <2> QED BY <2>4, <2>5
<1> HIDE DEF x
<1>18. Half(x, s, a + 1) /\ Half(x, t, b + 1)
  BY <1>1, <1>2, <1>3, <1>16 DEF Half
<1>19. SetMoment(x, g, s, a + 1, t, b + 1)
  BY <1>1, <1>14, <1>15, <1>16, <1>17, <1>18, Zenon DEF SetMoment
<1> QED BY <1>6, <1>19 DEF x

(* The calls of copy, of which one at most has numbers left. *)
SetEnd(u, g, s, t) == /\ g \in SetCalls /\ s \in Seq(Int) /\ t \in Seq(Int) /\ u \in Seq(Int) /\ Rising(u)
                      /\ Keeps(u, g, s, Len(s), t, Len(t))

(* Two ordered sequences, one above the other, are one.                    *)
LEMMA JoinedRising ==
  ASSUME NEW u \in Seq(Int), NEW y \in Seq(Int), Rising(u), Rising(y),
         \A p \in 1 .. Len(u) : \A q \in 1 .. Len(y) : u[p] <= y[q]
  PROVE  u \o y \in Seq(Int) /\ Rising(u \o y)
<1>1. PICK n \in Nat, l \in Nat : n = Len(u) /\ l = Len(y)
  OBVIOUS
<1>2. /\ u \o y \in Seq(Int) /\ Len(u \o y) = n + l
      /\ \A p \in 1 .. n + l : (u \o y)[p] = IF p <= n THEN u[p] ELSE y[p - n]
  BY <1>1
<1>3. \A p, q \in 1 .. n : p < q => u[p] <= u[q]
  BY <1>1 DEF Rising
<1>4. \A p, q \in 1 .. l : p < q => y[p] <= y[q]
  BY <1>1 DEF Rising
<1>5. \A p \in 1 .. n : \A q \in 1 .. l : u[p] <= y[q]
  BY <1>1
<1> SUFFICES ASSUME NEW p \in 1 .. n + l, NEW q \in 1 .. n + l, p < q PROVE (u \o y)[p] <= (u \o y)[q]
  BY <1>2 DEF Rising
<1>6. CASE q <= n
  BY <1>2, <1>3, <1>6
<1>7. CASE p <= n /\ n < q
  <2>1. p \in 1 .. n /\ q - n \in 1 .. l
    BY <1>7
  <2> QED BY <1>2, <1>5, <1>7, <2>1
<1>8. CASE n < p
  <2>1. p - n \in 1 .. l /\ q - n \in 1 .. l /\ p - n < q - n /\ ~(p <= n) /\ ~(q <= n)
    BY <1>8
  <2>2. (u \o y)[p] = y[p - n] /\ (u \o y)[q] = y[q - n]
    BY <1>2, <2>1
  <2> QED BY <1>4, <2>1, <2>2
<1>9. q <= n \/ (p <= n /\ n < q) \/ n < p
  OBVIOUS
<1> QED BY <1>6, <1>7, <1>8, <1>9, Zenon

(* The rest of the first multiset, when the second has been read.          *)
LEMMA FirstRest ==
  ASSUME NEW u, NEW g, NEW s, NEW t, NEW a \in Nat, NEW b \in Nat, SetMoment(u, g, s, a, t, b), b = Len(t)
  PROVE  SetEnd(IF g # "intersection" THEN u \o SubSeq(s, a + 1, Len(s)) ELSE u, g, s, t)
<1>1. /\ g \in SetCalls /\ u \in Seq(Int) /\ Rising(u) /\ s \in Seq(Int) /\ t \in Seq(Int) /\ Rising(s) /\ a <= Len(s) /\ b <= Len(t)
      /\ Under(u, s, a) /\ Leads(s, a, t, b) /\ Leads(t, b, s, a) /\ Keeps(u, g, s, a, t, b)
  BY DEF SetMoment, Half
<1>2. PICK n \in Nat : n = Len(s)
  BY <1>1
<1>3. PICK y : y = SubSeq(s, a + 1, Len(s))
  OBVIOUS
<1>4. y \in Seq(Int) /\ Len(y) = n - a /\ \A p \in 1 .. n - a : y[p] = s[p + a]
  BY <1>1, <1>2, <1>3
<1>5. a <= n /\ n - a \in Nat
  BY <1>1, <1>2
<1>6. Rising(y)
  <2> SUFFICES ASSUME NEW p \in 1 .. n - a, NEW q \in 1 .. n - a, p < q PROVE y[p] <= y[q]
    BY <1>4 DEF Rising
  <2>1. p + a \in 1 .. n /\ q + a \in 1 .. n /\ p + a < q + a
    BY <1>5
  <2> QED BY <1>1, <1>2, <1>4, <2>1 DEF Rising
<1>7. \A p \in 1 .. Len(u) : \A q \in 1 .. Len(y) : u[p] <= y[q]
  <2> SUFFICES ASSUME NEW p \in 1 .. Len(u), NEW q \in 1 .. n - a PROVE u[p] <= y[q]
    BY <1>4
  <2>1. q + a \in a + 1 .. n
    BY <1>5
  <2> QED BY <1>1, <1>2, <1>4, <2>1 DEF Under
<1>8. u \o y \in Seq(Int) /\ Rising(u \o y)
  BY <1>1, <1>4, <1>6, <1>7, JoinedRising
<1>9. ASSUME NEW v PROVE CopiesIn(v, IF g # "intersection" THEN u \o y ELSE u) = Wanted(g, Amount(v, s, 1, Len(s)), Amount(v, t, 1, Len(t)))
  <2>1. PICK m \in Nat, c \in Nat : m = Amount(v, s, 1, a) /\ c = Amount(v, t, 1, b)
    BY AmountNext
  <2>2. PICK d \in Nat : d = Amount(v, s, a + 1, n)
    <3>1. a + 1 \in Int /\ n \in Int
      OBVIOUS
    <3> QED BY <3>1, AmountType, Zenon
  <2>3. CopiesIn(v, u \o y) = CopiesIn(v, u) + d
    <3>1. CopiesIn(v, y) = d
      BY <1>1, <1>2, <1>3, <2>2, CopiesAfter
    <3> QED BY <1>1, <1>4, <3>1, CopiesOver
  <2>4. CopiesIn(v, u) = Wanted(g, m, c)
    BY <1>1, <2>1 DEF Keeps
  <2>5. Amount(v, s, 1, n) = m + d
    BY <1>5, <2>1, <2>2, AmountSplit
  <2>6. d = 0 \/ c <= m
    <3>1. CASE \A p \in a + 1 .. n : s[p] # v
      <4>1. {p \in a + 1 .. n : s[p] = v} = {}
        BY <3>1
      <4> QED BY <2>2, <4>1, FS_EmptySet, Zenon DEF Amount
    <3>2. CASE \E p \in a + 1 .. n : s[p] = v
      BY <1>1, <1>2, <2>1, <3>2 DEF Leads
    <3> QED BY <3>1, <3>2
  <2>7. Wanted(g, m + d, c) = Wanted(g, m, c) + (IF g # "intersection" THEN d ELSE 0)
    <3>1. g \in SetCalls
      BY <1>1
    <3> QED BY <2>6, <3>1 DEF Wanted, SetCalls
  <2>8. Amount(v, s, 1, Len(s)) = m + d /\ Amount(v, t, 1, Len(t)) = c
    BY <1>1, <1>2, <2>1, <2>5
  <2>9. Wanted(g, m, c) + 0 = Wanted(g, m, c)
    BY WantedType
  <2> QED BY <2>3, <2>4, <2>7, <2>8, <2>9
<1>10. PICK z : z = IF g # "intersection" THEN u \o y ELSE u
  OBVIOUS
<1>11. z \in Seq(Int) /\ Rising(z)
  BY <1>1, <1>8, <1>10
<1>12. SetEnd(z, g, s, t)
  BY <1>1, <1>9, <1>10, <1>11, Zenon DEF SetEnd, Keeps
<1> QED BY <1>3, <1>10, <1>12

(* The rest of the second multiset, when the first has been read.          *)
LEMMA SecondRest ==
  ASSUME NEW u, NEW g, NEW s, NEW t, NEW a \in Nat, NEW b \in Nat, SetMoment(u, g, s, a, t, b), a = Len(s)
  PROVE  SetEnd(IF g \in {"union", "symmetric"} THEN u \o SubSeq(t, b + 1, Len(t)) ELSE u, g, s, t)
<1>1. /\ g \in SetCalls /\ u \in Seq(Int) /\ Rising(u) /\ s \in Seq(Int) /\ t \in Seq(Int) /\ Rising(t) /\ a <= Len(s) /\ b <= Len(t)
      /\ Under(u, t, b) /\ Leads(s, a, t, b) /\ Leads(t, b, s, a) /\ Keeps(u, g, s, a, t, b)
  BY DEF SetMoment, Half
<1>2. PICK n \in Nat : n = Len(t)
  BY <1>1
<1>3. PICK y : y = SubSeq(t, b + 1, Len(t))
  OBVIOUS
<1>4. y \in Seq(Int) /\ Len(y) = n - b /\ \A p \in 1 .. n - b : y[p] = t[p + b]
  BY <1>1, <1>2, <1>3
<1>5. b <= n /\ n - b \in Nat
  BY <1>1, <1>2
<1>6. Rising(y)
  <2> SUFFICES ASSUME NEW p \in 1 .. n - b, NEW q \in 1 .. n - b, p < q PROVE y[p] <= y[q]
    BY <1>4 DEF Rising
  <2>1. p + b \in 1 .. n /\ q + b \in 1 .. n /\ p + b < q + b
    BY <1>5
  <2> QED BY <1>1, <1>2, <1>4, <2>1 DEF Rising
<1>7. \A p \in 1 .. Len(u) : \A q \in 1 .. Len(y) : u[p] <= y[q]
  <2> SUFFICES ASSUME NEW p \in 1 .. Len(u), NEW q \in 1 .. n - b PROVE u[p] <= y[q]
    BY <1>4
  <2>1. q + b \in b + 1 .. n
    BY <1>5
  <2> QED BY <1>1, <1>2, <1>4, <2>1 DEF Under
<1>8. u \o y \in Seq(Int) /\ Rising(u \o y)
  BY <1>1, <1>4, <1>6, <1>7, JoinedRising
<1>9. ASSUME NEW v PROVE CopiesIn(v, IF g \in {"union", "symmetric"} THEN u \o y ELSE u) = Wanted(g, Amount(v, s, 1, Len(s)), Amount(v, t, 1, Len(t)))
  <2>1. PICK m \in Nat, c \in Nat : m = Amount(v, s, 1, a) /\ c = Amount(v, t, 1, b)
    BY AmountNext
  <2>2. PICK d \in Nat : d = Amount(v, t, b + 1, n)
    <3>1. b + 1 \in Int /\ n \in Int
      OBVIOUS
    <3> QED BY <3>1, AmountType, Zenon
  <2>3. CopiesIn(v, u \o y) = CopiesIn(v, u) + d
    <3>1. CopiesIn(v, y) = d
      BY <1>1, <1>2, <1>3, <2>2, CopiesAfter
    <3> QED BY <1>1, <1>4, <3>1, CopiesOver
  <2>4. CopiesIn(v, u) = Wanted(g, m, c)
    BY <1>1, <2>1 DEF Keeps
  <2>5. Amount(v, t, 1, n) = c + d
    BY <1>5, <2>1, <2>2, AmountSplit
  <2>6. d = 0 \/ m <= c
    <3>1. CASE \A p \in b + 1 .. n : t[p] # v
      <4>1. {p \in b + 1 .. n : t[p] = v} = {}
        BY <3>1
      <4> QED BY <2>2, <4>1, FS_EmptySet, Zenon DEF Amount
    <3>2. CASE \E p \in b + 1 .. n : t[p] = v
      BY <1>1, <1>2, <2>1, <3>2 DEF Leads
    <3> QED BY <3>1, <3>2
  <2>7. Wanted(g, m, c + d) = Wanted(g, m, c) + (IF g \in {"union", "symmetric"} THEN d ELSE 0)
    <3>1. g \in SetCalls
      BY <1>1
    <3> QED BY <2>6, <3>1 DEF Wanted, SetCalls
  <2>8. Amount(v, s, 1, Len(s)) = m /\ Amount(v, t, 1, Len(t)) = c + d
    BY <1>1, <1>2, <2>1, <2>5
  <2>9. Wanted(g, m, c) + 0 = Wanted(g, m, c)
    BY WantedType
  <2> QED BY <2>3, <2>4, <2>7, <2>8, <2>9
<1>10. PICK z : z = IF g \in {"union", "symmetric"} THEN u \o y ELSE u
  OBVIOUS
<1>11. z \in Seq(Int) /\ Rising(z)
  BY <1>1, <1>8, <1>10
<1>12. SetEnd(z, g, s, t)
  BY <1>1, <1>9, <1>10, <1>11, Zenon DEF SetEnd, Keeps
<1> QED BY <1>3, <1>10, <1>12

(* Behind the last number there is nothing.                                *)
LEMMA NothingAfter == ASSUME NEW s \in Seq(Int) PROVE SubSeq(s, Len(s) + 1, Len(s)) = <<>>
<1>1. PICK n \in Nat : n = Len(s)
  OBVIOUS
<1>2. SubSeq(s, n + 1, n) \in Seq(Int) /\ Len(SubSeq(s, n + 1, n)) = 0
  BY <1>1
<1> QED BY <1>1, <1>2, EmptySeq

(* The rest of a sequence is a sequence.                                   *)
LEMMA IsAfter == ASSUME NEW s \in Seq(Int), NEW a \in Nat, a <= Len(s) PROVE SubSeq(s, a + 1, Len(s)) \in Seq(Int)
<1>1. a + 1 \in 1 .. Len(s) + 1
  OBVIOUS
<1> QED BY <1>1, Onwards

(* Nothing joined to a sequence leaves it alone.                           *)
LEMMA NothingJoined == ASSUME NEW s \in Seq(Int) PROVE s \o <<>> = s
  BY ConcatEmptySeq

(* The numbers in the rest of a sequence.                                  *)
LEMMA RangeAfter ==
  ASSUME NEW s \in Seq(Int), NEW a \in Nat, a <= Len(s)
  PROVE  MG!Range(SubSeq(s, a + 1, Len(s))) = {s[q] : q \in a + 1 .. Len(s)}
<1>1. PICK n \in Nat : n = Len(s)
  OBVIOUS
<1>2. a <= n
  BY <1>1
<1>3. PICK y : y = SubSeq(s, a + 1, n)
  OBVIOUS
<1>4. DOMAIN y = 1 .. n - a /\ \A p \in 1 .. n - a : y[p] = s[p + a]
  BY <1>1, <1>2, <1>3
<1>5. ASSUME NEW q \in a + 1 .. n PROVE \E p \in 1 .. n - a : y[p] = s[q]
  <2>1. q - a \in 1 .. n - a /\ (q - a) + a = q
    BY <1>2
  <2> QED BY <1>4, <2>1
<1>6. \A p \in 1 .. n - a : p + a \in a + 1 .. n
  BY <1>2
<1>7. {y[p] : p \in 1 .. n - a} = {s[q] : q \in a + 1 .. n}
  <2>1. ASSUME NEW z \in {y[p] : p \in 1 .. n - a} PROVE z \in {s[q] : q \in a + 1 .. n}
    <3>1. PICK p \in 1 .. n - a : z = y[p]
      OBVIOUS
    <3>2. z = s[p + a] /\ p + a \in a + 1 .. n
      BY <1>4, <1>6, <3>1
    <3> QED BY <3>2
  <2>2. ASSUME NEW z \in {s[q] : q \in a + 1 .. n} PROVE z \in {y[p] : p \in 1 .. n - a}
    BY <1>5
  <2> QED BY <2>1, <2>2
<1> QED BY <1>1, <1>3, <1>4, <1>7, Zenon DEF MG!Range

(* What is not among the rest has been counted.                            *)
LEMMA AmountEnough ==
  ASSUME NEW v, NEW s, NEW a \in Nat, NEW n \in Nat, a <= n, \A q \in a + 1 .. n : s[q] # v
  PROVE  Amount(v, s, 1, a) = Amount(v, s, 1, n)
<1>1. {q \in a + 1 .. n : s[q] = v} = {}
  OBVIOUS
<1>2. Amount(v, s, a + 1, n) = 0
  BY <1>1, FS_EmptySet, Zenon DEF Amount
<1>3. Amount(v, s, 1, a) \in Nat /\ Amount(v, s, 1, n) = Amount(v, s, 1, a) + Amount(v, s, a + 1, n)
  BY AmountSplit, AmountNext
<1> QED BY <1>2, <1>3

(* Every step of the four calls, and steps of the other algorithms.        *)
LEMMA SetStep == SetInv /\ [MG!SetNext]_setVars => SetInv'
<1> SUFFICES ASSUME SetInv, [MG!SetNext]_setVars PROVE SetInv'
  OBVIOUS
<1>0. "loop" # "done" /\ "loop" # "copy" /\ "copy" # "done"
  OBVIOUS
<1>1. CASE MG!Less
  <2>1. /\ setPc = "loop" /\ first1 < Len(set1) /\ first2 < Len(set2) /\ set1[first1 + 1] < set2[first2 + 1]
        /\ first1' = first1 + 1 /\ first2' = first2 + 0
        /\ setAlg' = setAlg /\ set1' = set1 /\ set2' = set2 /\ setPc' = setPc
    BY <1>1, Zenon DEF MG!Less, MG!Round, MG!More, MG!At1, MG!At2
  <2>2. SetMoment(setResult, setAlg, set1, first1, set2, first2)
    BY <2>1 DEF SetInv
  <2>3. first1 \in Nat /\ first2 \in Nat /\ setAlg \in SetCalls
    BY <2>2, Zenon DEF SetMoment, Half
  <2>4. setResult' = IF MG!w.less THEN Append(setResult, set1[first1 + 1]) ELSE setResult
    BY <1>1, Zenon DEF MG!Less, MG!Round, MG!At1, MG!At2
  <2>5. MG!w.less <=> setAlg # "intersection"
    BY <2>3, WhatIsWritten, Zenon
  <2>6. setResult' = IF setAlg # "intersection" THEN Append(setResult, set1[first1 + 1]) ELSE setResult
    BY <2>4, <2>5, Zenon
  <2>7. SetMoment(setResult', setAlg, set1, first1 + 1, set2, first2)
    BY <2>1, <2>2, <2>3, <2>6, FirstMoves, Zenon
  <2>8. first1' = first1 + 1 /\ first2' = first2
    BY <2>1, <2>3
  <2> QED BY <2>1, <2>7, <2>8, Zenon DEF SetInv
<1>2. CASE MG!Greater
  <2>1. /\ setPc = "loop" /\ first1 < Len(set1) /\ first2 < Len(set2) /\ set2[first2 + 1] < set1[first1 + 1]
        /\ first1' = first1 + 0 /\ first2' = first2 + 1
        /\ setAlg' = setAlg /\ set1' = set1 /\ set2' = set2 /\ setPc' = setPc
    BY <1>2, Zenon DEF MG!Greater, MG!Round, MG!More, MG!At1, MG!At2
  <2>2. SetMoment(setResult, setAlg, set1, first1, set2, first2)
    BY <2>1 DEF SetInv
  <2>3. first1 \in Nat /\ first2 \in Nat /\ setAlg \in SetCalls
    BY <2>2, Zenon DEF SetMoment, Half
  <2>4. setResult' = IF MG!w.greater THEN Append(setResult, set2[first2 + 1]) ELSE setResult
    BY <1>2, Zenon DEF MG!Greater, MG!Round, MG!At1, MG!At2
  <2>5. MG!w.greater <=> setAlg \in {"union", "symmetric"}
    BY <2>3, WhatIsWritten, Zenon
  <2>6. setResult' = IF setAlg \in {"union", "symmetric"} THEN Append(setResult, set2[first2 + 1]) ELSE setResult
    BY <2>4, <2>5, Zenon
  <2>7. SetMoment(setResult', setAlg, set1, first1, set2, first2 + 1)
    BY <2>1, <2>2, <2>3, <2>6, SecondMoves, Zenon
  <2>8. first1' = first1 /\ first2' = first2 + 1
    BY <2>1, <2>3
  <2> QED BY <2>1, <2>7, <2>8, Zenon DEF SetInv
<1>3. CASE MG!Equal
  <2>1. /\ setPc = "loop" /\ first1 < Len(set1) /\ first2 < Len(set2) /\ set1[first1 + 1] = set2[first2 + 1]
        /\ first1' = first1 + 1 /\ first2' = first2 + 1
        /\ setAlg' = setAlg /\ set1' = set1 /\ set2' = set2 /\ setPc' = setPc
    BY <1>3, Zenon DEF MG!Equal, MG!Round, MG!More, MG!At1, MG!At2
  <2>2. SetMoment(setResult, setAlg, set1, first1, set2, first2)
    BY <2>1 DEF SetInv
  <2>3. first1 \in Nat /\ first2 \in Nat /\ setAlg \in SetCalls
    BY <2>2, Zenon DEF SetMoment, Half
  <2>4. setResult' = IF MG!w.equal THEN Append(setResult, set1[first1 + 1]) ELSE setResult
    BY <1>3, Zenon DEF MG!Equal, MG!Round, MG!At1, MG!At2
  <2>5. MG!w.equal <=> setAlg \in {"union", "intersection"}
    BY <2>3, WhatIsWritten, Zenon
  <2>6. setResult' = IF setAlg \in {"union", "intersection"} THEN Append(setResult, set1[first1 + 1]) ELSE setResult
    BY <2>4, <2>5, Zenon
  <2>7. SetMoment(setResult', setAlg, set1, first1 + 1, set2, first2 + 1)
    BY <2>1, <2>2, <2>3, <2>6, BothMove, Zenon
  <2>8. first1' = first1 + 1 /\ first2' = first2 + 1
    BY <2>1, <2>3
  <2> QED BY <2>1, <2>7, <2>8, Zenon DEF SetInv
<1>4. CASE MG!SetLeave
  <2>1. /\ setPc = "loop" /\ ~MG!More /\ setPc' = "copy" /\ setAlg' = setAlg /\ set1' = set1 /\ set2' = set2
        /\ first1' = first1 /\ first2' = first2 /\ setResult' = setResult
    BY <1>4 DEF MG!SetLeave
  <2>2. SetMoment(setResult, setAlg, set1, first1, set2, first2)
    BY <2>1 DEF SetInv
  <2>3. first1 \in Nat /\ first2 \in Nat /\ first1 <= Len(set1) /\ first2 <= Len(set2) /\ set1 \in Seq(Int) /\ set2 \in Seq(Int)
    BY <2>2, Zenon DEF SetMoment, Half
  <2>4. first1 = Len(set1) \/ first2 = Len(set2)
    <3>1. PICK n \in Nat, l \in Nat : n = Len(set1) /\ l = Len(set2)
      BY <2>3
    <3> QED BY <2>1, <2>3, <3>1 DEF MG!More
  <2> QED BY <2>1, <2>2, <2>4, <1>0, Zenon DEF SetInv
<1>5. CASE MG!Copy
  <2>1. /\ setPc = "copy" /\ setPc' = "done" /\ setAlg' = setAlg /\ set1' = set1 /\ set2' = set2
        /\ setResult' = setResult \o (IF MG!w.rest1 THEN MG!Rest1 ELSE <<>>) \o (IF MG!w.rest2 THEN MG!Rest2 ELSE <<>>)
    BY <1>5 DEF MG!Copy
  <2>2. SetMoment(setResult, setAlg, set1, first1, set2, first2) /\ (first1 = Len(set1) \/ first2 = Len(set2))
    BY <2>1 DEF SetInv
  <2>3. /\ first1 \in Nat /\ first2 \in Nat /\ set1 \in Seq(Int) /\ set2 \in Seq(Int) /\ setResult \in Seq(Int) /\ setAlg \in SetCalls
        /\ first1 <= Len(set1) /\ first2 <= Len(set2)
    BY <2>2, Zenon DEF SetMoment, Half
  <2>4. (MG!w.rest1 <=> setAlg # "intersection") /\ (MG!w.rest2 <=> setAlg \in {"union", "symmetric"})
    BY <2>3, WhatIsWritten, Zenon
  <2>5. setResult' = setResult \o (IF setAlg # "intersection" THEN SubSeq(set1, first1 + 1, Len(set1)) ELSE <<>>)
                               \o (IF setAlg \in {"union", "symmetric"} THEN SubSeq(set2, first2 + 1, Len(set2)) ELSE <<>>)
    BY <2>1, <2>4, Zenon DEF MG!Rest1, MG!Rest2
  <2>6. SetEnd(setResult', setAlg, set1, set2)
    <3>1. CASE first2 = Len(set2)
      <4>1. SubSeq(set2, first2 + 1, Len(set2)) = <<>>
        BY <2>3, <3>1, NothingAfter
      <4>2. setResult' = IF setAlg # "intersection" THEN setResult \o SubSeq(set1, first1 + 1, Len(set1)) ELSE setResult
        <5>1. PICK y \in Seq(Int) : y = SubSeq(set1, first1 + 1, Len(set1))
          BY <2>3, IsAfter
        <5>2. setResult' = (setResult \o (IF setAlg # "intersection" THEN y ELSE <<>>)) \o <<>>
          BY <2>5, <4>1, <5>1, Zenon
        <5>3. setResult \o y \in Seq(Int)
          BY <2>3, <5>1
        <5>4. setResult \o <<>> = setResult /\ (setResult \o y) \o <<>> = setResult \o y
          BY <2>3, <5>3, NothingJoined, Zenon
        <5> QED BY <5>1, <5>2, <5>4, Zenon
      <4> QED BY <2>2, <2>3, <3>1, <4>2, FirstRest, Zenon
    <3>2. CASE first1 = Len(set1)
      <4>1. SubSeq(set1, first1 + 1, Len(set1)) = <<>>
        BY <2>3, <3>2, NothingAfter
      <4>2. setResult' = IF setAlg \in {"union", "symmetric"} THEN setResult \o SubSeq(set2, first2 + 1, Len(set2)) ELSE setResult
        <5>1. PICK y \in Seq(Int) : y = SubSeq(set2, first2 + 1, Len(set2))
          BY <2>3, IsAfter
        <5>2. setResult' = (setResult \o <<>>) \o (IF setAlg \in {"union", "symmetric"} THEN y ELSE <<>>)
          BY <2>5, <4>1, <5>1, Zenon
        <5>3. setResult \o y \in Seq(Int)
          BY <2>3, <5>1
        <5>4. setResult \o <<>> = setResult /\ (setResult \o y) \o <<>> = setResult \o y
          BY <2>3, <5>3, NothingJoined, Zenon
        <5> QED BY <5>1, <5>2, <5>4, Zenon
      <4> QED BY <2>2, <2>3, <3>2, <4>2, SecondRest, Zenon
    <3> QED BY <2>2, <3>1, <3>2
  <2> QED BY <2>1, <2>6 DEF SetInv, SetEnd
<1>6. CASE UNCHANGED setVars
  <2>1. /\ setAlg' = setAlg /\ set1' = set1 /\ set2' = set2 /\ first1' = first1 /\ first2' = first2 /\ setResult' = setResult /\ setPc' = setPc
    BY <1>6 DEF setVars
  <2> QED BY <2>1, Zenon DEF SetInv
<1> QED BY <1>1, <1>2, <1>3, <1>4, <1>5, <1>6 DEF MG!SetNext

(* So the result has as many copies as the library promises, in order.     *)
LEMMA SetMeaning == SetInv => MG!AsTheLibrary /\ MG!OutputInOrder
<1> SUFFICES ASSUME SetInv PROVE MG!AsTheLibrary /\ MG!OutputInOrder
  OBVIOUS
<1>1. set1 \in Seq(Int) /\ set2 \in Seq(Int) /\ setResult \in Seq(Int) /\ setAlg \in SetCalls /\ Rising(setResult)
  BY DEF SetInv, SetMoment, Half
<1>2. PICK n \in Nat, l \in Nat, k \in Nat : n = Len(set1) /\ l = Len(set2) /\ k = Len(setResult)
  BY <1>1
<1>3. DOMAIN set1 = 1 .. n /\ DOMAIN set2 = 1 .. l /\ DOMAIN setResult = 1 .. k
  BY <1>1, <1>2
<1>4. ASSUME setPc # "done"
      PROVE  /\ SetMoment(setResult, setAlg, set1, first1, set2, first2)
             /\ first1 \in Nat /\ first1 <= n /\ first2 \in Nat /\ first2 <= l
             /\ MG!Range(MG!Rest1) = {set1[q] : q \in first1 + 1 .. n}
             /\ MG!Range(MG!Rest2) = {set2[q] : q \in first2 + 1 .. l}
  <2>1. SetMoment(setResult, setAlg, set1, first1, set2, first2)
    BY <1>4 DEF SetInv
  <2>2. first1 \in Nat /\ first1 <= n /\ first2 \in Nat /\ first2 <= l
    BY <1>2, <2>1 DEF SetMoment, Half
  <2>3. MG!Range(SubSeq(set1, first1 + 1, Len(set1))) = {set1[q] : q \in first1 + 1 .. Len(set1)}
    BY <1>1, <1>2, <2>2, RangeAfter
  <2>4. MG!Range(SubSeq(set2, first2 + 1, Len(set2))) = {set2[q] : q \in first2 + 1 .. Len(set2)}
    BY <1>1, <1>2, <2>2, RangeAfter
  <2> QED BY <1>2, <2>1, <2>2, <2>3, <2>4, Zenon DEF MG!Rest1, MG!Rest2
<1>5. MG!OutputInOrder
  <2>1. MG!SetOrdered(setResult)
    BY <1>1, <1>2, <1>3 DEF MG!SetOrdered, Rising
  <2>2. ASSUME setPc # "done", NEW e \in MG!Range(setResult), NEW z \in MG!Range(MG!Rest1) \cup MG!Range(MG!Rest2) PROVE e <= z
    <3>1. PICK p \in 1 .. k : e = setResult[p]
      BY <1>3 DEF MG!Range
    <3>2. Under(setResult, set1, first1) /\ Under(setResult, set2, first2)
      BY <1>4, <2>2, Zenon DEF SetMoment, Half
    <3>3. CASE z \in MG!Range(MG!Rest1)
      <4>1. PICK q \in first1 + 1 .. n : z = set1[q]
        BY <1>4, <2>2, <3>3
      <4> QED BY <1>2, <3>1, <3>2, <4>1 DEF Under
    <3>4. CASE z \in MG!Range(MG!Rest2)
      <4>1. PICK q \in first2 + 1 .. l : z = set2[q]
        BY <1>4, <2>2, <3>4
      <4> QED BY <1>2, <3>1, <3>2, <4>1 DEF Under
    <3> QED BY <3>3, <3>4
  <2> QED BY <2>1, <2>2 DEF MG!OutputInOrder
<1>6. ASSUME NEW v \in SetValues, setPc = "done" \/ (v \notin MG!Range(MG!Rest1) /\ v \notin MG!Range(MG!Rest2))
      PROVE  MG!SetCopies(v, setResult) = MG!Belongs(MG!SetCopies(v, set1), MG!SetCopies(v, set2))
  <2>1. /\ MG!SetCopies(v, setResult) = CopiesIn(v, setResult)
        /\ MG!SetCopies(v, set1) = CopiesIn(v, set1)
        /\ MG!SetCopies(v, set2) = CopiesIn(v, set2)
    BY <1>1, AmountWhole, SameCount, Zenon DEF MG!SetCopies, CopiesIn
  <2>2. CopiesIn(v, setResult) = Wanted(setAlg, CopiesIn(v, set1), CopiesIn(v, set2))
    <3>1. CASE setPc = "done"
      <4>1. Keeps(setResult, setAlg, set1, Len(set1), set2, Len(set2))
        BY <3>1 DEF SetInv
      <4> QED BY <4>1, Zenon DEF Keeps, CopiesIn
    <3>2. CASE setPc # "done"
      <4>1. Keeps(setResult, setAlg, set1, first1, set2, first2)
        BY <1>4, <3>2, Zenon DEF SetMoment
      <4>2. (\A q \in first1 + 1 .. n : set1[q] # v) /\ (\A q \in first2 + 1 .. l : set2[q] # v)
        BY <1>4, <1>6, <3>2
      <4>3. Amount(v, set1, 1, first1) = Amount(v, set1, 1, n)
        BY <1>4, <3>2, <4>2, AmountEnough
      <4>4. Amount(v, set2, 1, first2) = Amount(v, set2, 1, l)
        BY <1>4, <3>2, <4>2, AmountEnough
      <4> QED BY <1>2, <4>1, <4>3, <4>4 DEF Keeps, CopiesIn
    <3> QED BY <3>1, <3>2
  <2>3. CopiesIn(v, set1) \in Nat /\ CopiesIn(v, set2) \in Nat
    BY <1>2, AmountNext DEF CopiesIn
  <2>4. MG!Belongs(CopiesIn(v, set1), CopiesIn(v, set2)) = Wanted(setAlg, CopiesIn(v, set1), CopiesIn(v, set2))
    BY <1>1, <2>3, WhatBelongs, Zenon
  <2> QED BY <2>1, <2>2, <2>4, Zenon
<1> QED BY <1>5, <1>6, Zenon DEF MG!AsTheLibrary

(* array/code/merge_array.cpp.  To a new array: the output has the a first *)
(* numbers of s and the b first of t, in order and below all the others.   *)
Together(u, s, a, t, b) == \A v : CopiesIn(v, u) = Amount(v, s, 1, a) + Amount(v, t, 1, b)
NewMoment(u, s, a, t, b) == u \in Seq(Int) /\ Rising(u) /\ Half(u, s, a) /\ Half(u, t, b) /\ Together(u, s, a, t, b)

(* To the old array: above its a first cells, which are the first array's, *)
(* and b others stand the greatest numbers of both, in order.              *)
Above(x, c, d, s, a) == \A p \in c .. d : \A q \in 1 .. a : s[q] <= x[p]
Ascends(x, c, d)     == \A p, q \in c .. d : p < q => x[p] <= x[q]
Shared(x, s, a, t, b) == \A v : Amount(v, x, a + b + 1, Len(s) + Len(t)) + Amount(v, s, 1, a) + Amount(v, t, 1, b)
                                = CopiesIn(v, s) + CopiesIn(v, t)
OldMoment(x, s, a, t, b) ==
  /\ x \in Seq(Int) /\ s \in Seq(Int) /\ t \in Seq(Int) /\ Rising(s) /\ Rising(t)
  /\ a <= Len(s) /\ b <= Len(t) /\ Len(s) + Len(t) <= Len(x)
  /\ \A p \in 1 .. a : x[p] = s[p]
  /\ Above(x, a + b + 1, Len(s) + Len(t), s, a) /\ Above(x, a + b + 1, Len(s) + Len(t), t, b)
  /\ Ascends(x, a + b + 1, Len(s) + Len(t)) /\ Shared(x, s, a, t, b)
MergeInv ==
  /\ in1 \in Seq(Int) /\ in2 \in Seq(Int) /\ Rising(in1) /\ Rising(in2) /\ to \in {"New", "Old"}
  /\ mergePc \in {"count", "both", "one", "done", "refused", "past"}
  /\ mergePc = "count" => /\ arr1 \in Seq(Int) /\ Len(arr1) = ARR_MAX_LEN /\ arrTemp = <<>>
                          /\ Len(in1) <= Len(arr1) /\ \A p \in 1 .. Len(in1) : arr1[p] = in1[p]
  /\ mergePc \in {"both", "one", "done"} =>
       \E a, b \in Nat :
         /\ to = "New" => index1 = a + 1 /\ index2 = b + 1 /\ NewMoment(arrTemp, in1, a, in2, b)
         /\ to = "Old" => index1 = a /\ index2 = b /\ index = a + b /\ OldMoment(arr1, in1, a, in2, b)
         /\ mergePc = "one" /\ to = "New" => a = Len(in1) \/ b = Len(in2)
         /\ mergePc = "one" /\ to = "Old" => a = 0 \/ b = 0
         /\ mergePc = "done" /\ to = "New" => a = Len(in1) /\ b = Len(in2)
         /\ mergePc = "done" /\ to = "Old" => a = 0 /\ b = 0

(* The smaller of the next two goes to the end of the new array.           *)
LEMMA NewNumber ==
  ASSUME NEW u, NEW s, NEW t, NEW a \in Nat, NEW b \in Nat, NewMoment(u, s, a, t, b), a < Len(s),
         \A q \in b + 1 .. Len(t) : s[a + 1] <= t[q]
  PROVE  NewMoment(Append(u, s[a + 1]), s, a + 1, t, b)
<1>1. /\ u \in Seq(Int) /\ Rising(u) /\ s \in Seq(Int) /\ t \in Seq(Int) /\ Rising(s) /\ Rising(t) /\ a <= Len(s) /\ b <= Len(t)
      /\ Under(u, s, a) /\ Under(u, t, b) /\ Together(u, s, a, t, b)
  BY DEF NewMoment, Half
<1>2. PICK n \in Nat : n = Len(s)
  BY <1>1
<1>3. a + 1 \in 1 .. n /\ a + 1 \in a + 1 .. n /\ a + 1 <= n
  BY <1>2
<1>4. \A p \in 1 .. n : s[p] \in Int
  BY <1>1, <1>2
<1>5. PICK e \in Int : e = s[a + 1]
  BY <1>3, <1>4
<1>6. ASSUME NEW q \in (a + 1) + 1 .. n PROVE e <= s[q]
  <2>1. q \in 1 .. n /\ a + 1 < q
    OBVIOUS
  <2> QED BY <1>1, <1>2, <1>3, <1>5, <2>1 DEF Rising
<1>7. \A p \in 1 .. Len(u) : u[p] <= e
  BY <1>1, <1>2, <1>3, <1>5 DEF Under
<1>8. PICK x : x = Append(u, e)
  OBVIOUS
<1>9. x \in Seq(Int) /\ Rising(x)
  BY <1>1, <1>7, <1>8, AppendedRising
<1>10. Under(x, s, a + 1)
  <2>1. \A q \in (a + 1) + 1 .. n : q \in a + 1 .. n
    OBVIOUS
  <2>2. Under(u, s, a + 1)
    BY <1>1, <1>2, <2>1, Zenon DEF Under
  <2> QED BY <1>1, <1>2, <1>6, <1>8, <2>2, AppendedUnder
<1>11. Under(x, t, b)
  BY <1>1, <1>5, <1>8, AppendedUnder
<1>12. ASSUME NEW v PROVE CopiesIn(v, x) = Amount(v, s, 1, a + 1) + Amount(v, t, 1, b)
  <2>1. CopiesIn(v, x) = CopiesIn(v, u) + (IF e = v THEN 1 ELSE 0)
    BY <1>1, <1>8, CopiesAppended
  <2>2. CopiesIn(v, u) = Amount(v, s, 1, a) + Amount(v, t, 1, b)
    BY <1>1 DEF Together
  <2>3. /\ Amount(v, s, 1, a) \in Nat /\ Amount(v, t, 1, b) \in Nat
        /\ Amount(v, s, 1, a + 1) = Amount(v, s, 1, a) + (IF e = v THEN 1 ELSE 0)
    BY <1>5, AmountNext
  <2> QED BY <2>1, <2>2, <2>3
<1>13. Half(x, s, a + 1) /\ Half(x, t, b)
  BY <1>1, <1>2, <1>3, <1>10, <1>11 DEF Half
<1>14. NewMoment(x, s, a + 1, t, b)
  BY <1>9, <1>12, <1>13, Zenon DEF NewMoment, Together
<1> QED BY <1>5, <1>8, <1>14

(* The two inputs have the same part in it.                                *)
LEMMA NewSides ==
  ASSUME NEW u, NEW s, NEW t, NEW a, NEW b, NewMoment(u, s, a, t, b) PROVE NewMoment(u, t, b, s, a)
<1>1. ASSUME NEW v PROVE CopiesIn(v, u) = Amount(v, t, 1, b) + Amount(v, s, 1, a)
  <2>1. a \in Nat /\ b \in Nat
    BY DEF NewMoment, Half
  <2>2. Amount(v, t, 1, b) \in Nat /\ Amount(v, s, 1, a) \in Nat
    BY <2>1, AmountNext
  <2>3. CopiesIn(v, u) = Amount(v, s, 1, a) + Amount(v, t, 1, b)
    BY DEF NewMoment, Together
  <2> QED BY <2>2, <2>3
<1> QED BY <1>1, Zenon DEF NewMoment, Together

(* The first array's last number is the greater and moves up.              *)
LEMMA OldFirst ==
  ASSUME NEW x, NEW s, NEW t, NEW a \in Nat, NEW b \in Nat, OldMoment(x, s, (a + 1), t, b),
         \A q \in 1 .. b : t[q] <= s[a + 1]
  PROVE  OldMoment([x EXCEPT ![a + b + 1] = s[a + 1]], s, a, t, b)
<1>1. /\ x \in Seq(Int) /\ s \in Seq(Int) /\ t \in Seq(Int) /\ Rising(s) /\ Rising(t)
      /\ (a + 1) <= Len(s) /\ b <= Len(t) /\ Len(s) + Len(t) <= Len(x)
      /\ (\A p \in 1 .. (a + 1) : x[p] = s[p])
      /\ Above(x, (a + 1) + b + 1, Len(s) + Len(t), s, (a + 1)) /\ Above(x, (a + 1) + b + 1, Len(s) + Len(t), t, b)
      /\ Ascends(x, (a + 1) + b + 1, Len(s) + Len(t)) /\ Shared(x, s, (a + 1), t, b)
  BY DEF OldMoment
<1>2. PICK n \in Nat, l \in Nat, k \in Nat : n = Len(s) /\ l = Len(t) /\ k = Len(x)
  BY <1>1
<1>3. (a + 1) <= n /\ b <= l /\ n + l <= k
  BY <1>1, <1>2
<1>4. PICK c \in Nat : c = a + b + 1 /\ c >= 1 /\ (a + 1) + b + 1 = c + 1 /\ c <= n + l
  BY <1>3
<1>5. (\A p \in 1 .. n : s[p] \in Int) /\ (\A p \in 1 .. l : t[p] \in Int) /\ \A p \in 1 .. k : x[p] \in Int
  <2>1. \A z \in Seq(Int) : \A p \in 1 .. Len(z) : z[p] \in Int
    BY ElementOfSeq
  <2> QED BY <1>1, <1>2, <2>1, Zenon
<1>6. PICK e \in Int : e = s[a + 1]
  BY <1>3, <1>5
<1>7. PICK y : y = [x EXCEPT ![c] = e]
  OBVIOUS
<1>8. y \in Seq(Int) /\ Len(y) = k /\ y[c] = e /\ \A p \in 1 .. k : p # c => y[p] = x[p]
  BY <1>1, <1>2, <1>3, <1>4, <1>7
<1>9. /\ \A p \in c + 1 .. n + l : p \in 1 .. k /\ p # c
      /\ \A p \in c .. n + l : p = c \/ p \in c + 1 .. n + l
  BY <1>3, <1>4
<1>10. \A p \in 1 .. a : y[p] = s[p]
  <2>1. \A p \in 1 .. a : p \in 1 .. (a + 1) /\ p \in 1 .. k /\ p # c
    BY <1>3, <1>4
  <2> QED BY <1>1, <1>8, <2>1
<1>11. \A p \in c + 1 .. n + l : e <= x[p] /\ (\A q \in 1 .. (a + 1) : s[q] <= x[p]) /\ (\A q \in 1 .. b : t[q] <= x[p])
  <2>1. a + 1 \in 1 .. a + 1
    OBVIOUS
  <2> QED BY <1>1, <1>2, <1>4, <1>6, <2>1 DEF Above
<1>12. \A q \in 1 .. a : s[q] <= e
  <2>1. \A q \in 1 .. a : q \in 1 .. n /\ a + 1 \in 1 .. n /\ q < a + 1
    BY <1>3
  <2> QED BY <1>1, <1>2, <1>6, <2>1 DEF Rising
<1>13. \A q \in 1 .. b : t[q] <= e
  BY <1>6
<1>14. Above(y, c, n + l, s, a)
  <2>1. \A q \in 1 .. a : q \in 1 .. (a + 1)
    OBVIOUS
  <2> QED BY <1>8, <1>9, <1>11, <1>12, <1>13, <2>1 DEF Above
<1>15. Above(y, c, n + l, t, b)
  <2>1. \A q \in 1 .. b : q \in 1 .. b
    OBVIOUS
  <2> QED BY <1>8, <1>9, <1>11, <1>12, <1>13, <2>1 DEF Above
<1>16. Ascends(y, c, n + l)
  <2> SUFFICES ASSUME NEW p \in c .. n + l, NEW q \in c .. n + l, p < q PROVE y[p] <= y[q]
    BY DEF Ascends
  <2>1. q \in c + 1 .. n + l /\ y[q] = x[q]
    <3>1. q \in c + 1 .. n + l
      OBVIOUS
    <3> QED BY <1>8, <1>9, <3>1
  <2>2. CASE p = c
    BY <1>8, <1>11, <2>1, <2>2
  <2>3. CASE p \in c + 1 .. n + l
    <3>1. y[p] = x[p]
      BY <1>8, <1>9, <2>3
    <3>2. x[p] <= x[q]
      BY <1>1, <1>2, <1>4, <2>1, <2>3 DEF Ascends
    <3> QED BY <2>1, <3>1, <3>2
  <2> QED BY <1>9, <2>2, <2>3
<1>17. ASSUME NEW v PROVE Amount(v, y, c, n + l) + Amount(v, s, 1, a) + Amount(v, t, 1, b) = CopiesIn(v, s) + CopiesIn(v, t)
  <2>1. Amount(v, y, c, n + l) = Amount(v, y, c + 1, n + l) + (IF e = v THEN 1 ELSE 0)
    <3>1. c \in Int /\ n + l \in Int /\ c <= n + l
      BY <1>4
    <3>2. y[c] = e
      BY <1>8
    <3> QED BY <3>1, <3>2, AmountDown
  <2>2. Amount(v, y, c + 1, n + l) = Amount(v, x, c + 1, n + l)
    <3>1. \A p \in c + 1 .. n + l : y[p] = x[p]
      BY <1>8, <1>9
    <3>2. c + 1 \in Int /\ n + l \in Int
      OBVIOUS
    <3> QED BY <3>1, <3>2, AmountSame
  <2>3. Amount(v, x, c + 1, n + l) + Amount(v, s, 1, (a + 1)) + Amount(v, t, 1, b) = CopiesIn(v, s) + CopiesIn(v, t)
    BY <1>1, <1>2, <1>4, Zenon DEF Shared
  <2>4. Amount(v, s, 1, a + 1) = Amount(v, s, 1, a) + (IF e = v THEN 1 ELSE 0)
    BY <1>6, AmountNext
  <2>5. /\ Amount(v, s, 1, a) \in Nat /\ Amount(v, t, 1, b) \in Nat
    BY AmountNext
  <2>6. Amount(v, x, c + 1, n + l) \in Nat
    <3>2. c + 1 \in Int /\ n + l \in Int
      OBVIOUS
    <3> QED BY <3>2, AmountType, Zenon
  <2> QED BY <2>1, <2>2, <2>3, <2>4, <2>5, <2>6
<1>18. Shared(y, s, a, t, b)
  BY <1>2, <1>4, <1>17 DEF Shared
<1>19. a <= Len(s) /\ b <= Len(t) /\ Len(s) + Len(t) <= Len(y)
  BY <1>2, <1>3, <1>8
<1>20. OldMoment(y, s, a, t, b)
  BY <1>1, <1>2, <1>4, <1>8, <1>10, <1>14, <1>15, <1>16, <1>18, <1>19, Zenon DEF OldMoment
<1> QED BY <1>4, <1>6, <1>7, <1>20, Zenon

(* The second array's last number is the greater and moves in.             *)
LEMMA OldSecond ==
  ASSUME NEW x, NEW s, NEW t, NEW a \in Nat, NEW b \in Nat, OldMoment(x, s, a, t, (b + 1)),
         \A q \in 1 .. a : s[q] <= t[b + 1]
  PROVE  OldMoment([x EXCEPT ![a + b + 1] = t[b + 1]], s, a, t, b)
<1>1. /\ x \in Seq(Int) /\ s \in Seq(Int) /\ t \in Seq(Int) /\ Rising(s) /\ Rising(t)
      /\ a <= Len(s) /\ (b + 1) <= Len(t) /\ Len(s) + Len(t) <= Len(x)
      /\ (\A p \in 1 .. a : x[p] = s[p])
      /\ Above(x, a + (b + 1) + 1, Len(s) + Len(t), s, a) /\ Above(x, a + (b + 1) + 1, Len(s) + Len(t), t, (b + 1))
      /\ Ascends(x, a + (b + 1) + 1, Len(s) + Len(t)) /\ Shared(x, s, a, t, (b + 1))
  BY DEF OldMoment
<1>2. PICK n \in Nat, l \in Nat, k \in Nat : n = Len(s) /\ l = Len(t) /\ k = Len(x)
  BY <1>1
<1>3. a <= n /\ (b + 1) <= l /\ n + l <= k
  BY <1>1, <1>2
<1>4. PICK c \in Nat : c = a + b + 1 /\ c >= 1 /\ a + (b + 1) + 1 = c + 1 /\ c <= n + l
  BY <1>3
<1>5. (\A p \in 1 .. n : s[p] \in Int) /\ (\A p \in 1 .. l : t[p] \in Int) /\ \A p \in 1 .. k : x[p] \in Int
  <2>1. \A z \in Seq(Int) : \A p \in 1 .. Len(z) : z[p] \in Int
    BY ElementOfSeq
  <2> QED BY <1>1, <1>2, <2>1, Zenon
<1>6. PICK e \in Int : e = t[b + 1]
  BY <1>3, <1>5
<1>7. PICK y : y = [x EXCEPT ![c] = e]
  OBVIOUS
<1>8. y \in Seq(Int) /\ Len(y) = k /\ y[c] = e /\ \A p \in 1 .. k : p # c => y[p] = x[p]
  BY <1>1, <1>2, <1>3, <1>4, <1>7
<1>9. /\ \A p \in c + 1 .. n + l : p \in 1 .. k /\ p # c
      /\ \A p \in c .. n + l : p = c \/ p \in c + 1 .. n + l
  BY <1>3, <1>4
<1>10. \A p \in 1 .. a : y[p] = s[p]
  <2>1. \A p \in 1 .. a : p \in 1 .. a /\ p \in 1 .. k /\ p # c
    BY <1>3, <1>4
  <2> QED BY <1>1, <1>8, <2>1
<1>11. \A p \in c + 1 .. n + l : e <= x[p] /\ (\A q \in 1 .. a : s[q] <= x[p]) /\ (\A q \in 1 .. (b + 1) : t[q] <= x[p])
  <2>1. b + 1 \in 1 .. b + 1
    OBVIOUS
  <2> QED BY <1>1, <1>2, <1>4, <1>6, <2>1 DEF Above
<1>12. \A q \in 1 .. b : t[q] <= e
  <2>1. \A q \in 1 .. b : q \in 1 .. l /\ b + 1 \in 1 .. l /\ q < b + 1
    BY <1>3
  <2> QED BY <1>1, <1>2, <1>6, <2>1 DEF Rising
<1>13. \A q \in 1 .. a : s[q] <= e
  BY <1>6
<1>14. Above(y, c, n + l, s, a)
  <2>1. \A q \in 1 .. a : q \in 1 .. a
    OBVIOUS
  <2> QED BY <1>8, <1>9, <1>11, <1>12, <1>13, <2>1 DEF Above
<1>15. Above(y, c, n + l, t, b)
  <2>1. \A q \in 1 .. b : q \in 1 .. (b + 1)
    OBVIOUS
  <2> QED BY <1>8, <1>9, <1>11, <1>12, <1>13, <2>1 DEF Above
<1>16. Ascends(y, c, n + l)
  <2> SUFFICES ASSUME NEW p \in c .. n + l, NEW q \in c .. n + l, p < q PROVE y[p] <= y[q]
    BY DEF Ascends
  <2>1. q \in c + 1 .. n + l /\ y[q] = x[q]
    <3>1. q \in c + 1 .. n + l
      OBVIOUS
    <3> QED BY <1>8, <1>9, <3>1
  <2>2. CASE p = c
    BY <1>8, <1>11, <2>1, <2>2
  <2>3. CASE p \in c + 1 .. n + l
    <3>1. y[p] = x[p]
      BY <1>8, <1>9, <2>3
    <3>2. x[p] <= x[q]
      BY <1>1, <1>2, <1>4, <2>1, <2>3 DEF Ascends
    <3> QED BY <2>1, <3>1, <3>2
  <2> QED BY <1>9, <2>2, <2>3
<1>17. ASSUME NEW v PROVE Amount(v, y, c, n + l) + Amount(v, s, 1, a) + Amount(v, t, 1, b) = CopiesIn(v, s) + CopiesIn(v, t)
  <2>1. Amount(v, y, c, n + l) = Amount(v, y, c + 1, n + l) + (IF e = v THEN 1 ELSE 0)
    <3>1. c \in Int /\ n + l \in Int /\ c <= n + l
      BY <1>4
    <3>2. y[c] = e
      BY <1>8
    <3> QED BY <3>1, <3>2, AmountDown
  <2>2. Amount(v, y, c + 1, n + l) = Amount(v, x, c + 1, n + l)
    <3>1. \A p \in c + 1 .. n + l : y[p] = x[p]
      BY <1>8, <1>9
    <3>2. c + 1 \in Int /\ n + l \in Int
      OBVIOUS
    <3> QED BY <3>1, <3>2, AmountSame
  <2>3. Amount(v, x, c + 1, n + l) + Amount(v, s, 1, a) + Amount(v, t, 1, (b + 1)) = CopiesIn(v, s) + CopiesIn(v, t)
    BY <1>1, <1>2, <1>4, Zenon DEF Shared
  <2>4. Amount(v, t, 1, b + 1) = Amount(v, t, 1, b) + (IF e = v THEN 1 ELSE 0)
    BY <1>6, AmountNext
  <2>5. /\ Amount(v, s, 1, a) \in Nat /\ Amount(v, t, 1, b) \in Nat
    BY AmountNext
  <2>6. Amount(v, x, c + 1, n + l) \in Nat
    <3>2. c + 1 \in Int /\ n + l \in Int
      OBVIOUS
    <3> QED BY <3>2, AmountType, Zenon
  <2> QED BY <2>1, <2>2, <2>3, <2>4, <2>5, <2>6
<1>18. Shared(y, s, a, t, b)
  BY <1>2, <1>4, <1>17 DEF Shared
<1>19. a <= Len(s) /\ b <= Len(t) /\ Len(s) + Len(t) <= Len(y)
  BY <1>2, <1>3, <1>8
<1>20. OldMoment(y, s, a, t, b)
  BY <1>1, <1>2, <1>4, <1>8, <1>10, <1>14, <1>15, <1>16, <1>18, <1>19, Zenon DEF OldMoment
<1> QED BY <1>4, <1>6, <1>7, <1>20, Zenon

(* Nothing has been merged.                                                *)
LEMMA MergeInitial == MG!MergeInit => MergeInv
<1> SUFFICES ASSUME MG!MergeInit PROVE MergeInv
  OBVIOUS
<1>1. ARR_MAX_LEN \in Nat /\ MergeValues \subseteq Int
  BY LoopsAssumption DEF MG!MergeAssumption
<1>2. ASSUME NEW s \in MG!Inputs PROVE s \in Seq(Int) /\ Rising(s) /\ Len(s) <= ARR_MAX_LEN
  <2>1. s \in Seq(MergeValues) /\ Len(s) <= ARR_MAX_LEN
    BY <1>1, BoundedSequences DEF MG!Inputs
  <2>2. Len(s) \in Nat /\ \A q \in 1 .. Len(s) : s[q] \in Int
    BY <1>1, <2>1, ElementOfSeq, LenProperties
  <2>3. s = [q \in 1 .. Len(s) |-> s[q]]
    BY <2>1
  <2>4. s \in Seq(Int)
    BY <2>2, <2>3
  <2> QED BY <2>1, <2>4 DEF MG!Inputs, MG!MergeOrdered, Rising
<1>3. in1 \in Seq(Int) /\ Rising(in1) /\ in2 \in Seq(Int) /\ Rising(in2) /\ Len(in1) <= ARR_MAX_LEN
  BY <1>2 DEF MG!MergeInit
<1>4. PICK n \in Nat, k \in Nat : n = Len(in1) /\ k = ARR_MAX_LEN /\ n <= k
  BY <1>1, <1>3
<1>5. arr1 = [p \in 1 .. k |-> IF p \in 1 .. n THEN in1[p] ELSE 0]
  <2>1. DOMAIN in1 = 1 .. n
    BY <1>3, <1>4
  <2> QED BY <1>4, <2>1, Zenon DEF MG!MergeInit
<1>6. \A p \in 1 .. n : in1[p] \in Int /\ p \in 1 .. k
  BY <1>3, <1>4
<1>7. arr1 \in Seq(Int) /\ Len(arr1) = k /\ \A p \in 1 .. n : arr1[p] = in1[p]
  BY <1>5, <1>6
<1>8. to \in {"New", "Old"} /\ mergePc = "count" /\ arrTemp = <<>>
  BY DEF MG!MergeInit
<1>9. Len(arr1) = ARR_MAX_LEN /\ Len(in1) <= Len(arr1) /\ \A p \in 1 .. Len(in1) : arr1[p] = in1[p]
  BY <1>4, <1>7
<1>10. ~(mergePc \in {"both", "one", "done"})
  BY <1>8
<1> QED BY <1>3, <1>7, <1>8, <1>9, <1>10, Zenon DEF MergeInv

(* A call that is let in begins at the ends its way of merging reads       *)
(* first.                                                                  *)
LEMMA CallStep == ASSUME MergeInv, MG!Call PROVE MergeInv'
<1>1. /\ mergePc = "count" /\ mergePc' = "both" /\ Len(in1) < ARR_MAX_LEN /\ Len(in2) < ARR_MAX_LEN
      /\ to' = to /\ in1' = in1 /\ in2' = in2 /\ arr1' = arr1 /\ arrTemp' = arrTemp
  BY DEF MG!Call, MG!Same, MG!Len1, MG!Len2
<1>2. /\ in1 \in Seq(Int) /\ in2 \in Seq(Int) /\ Rising(in1) /\ Rising(in2) /\ to \in {"New", "Old"}
      /\ arr1 \in Seq(Int) /\ Len(arr1) = ARR_MAX_LEN /\ arrTemp = <<>>
      /\ \A p \in 1 .. Len(in1) : arr1[p] = in1[p]
  BY <1>1 DEF MergeInv
<1>3. PICK n \in Nat, l \in Nat : n = Len(in1) /\ l = Len(in2)
  <2>1. Len(in1) \in Nat /\ Len(in2) \in Nat
    BY <1>2, LenProperties, Zenon
  <2> QED BY <2>1, Zenon
<1>4. CASE to = "New"
  <2>1. index1' = 0 + 1 /\ index2' = 0 + 1
    BY <1>4 DEF MG!Call
  <2>2. \A v, s : Amount(v, s, 1, 0) = 0
    BY AmountNone
  <2>3. arrTemp \in Seq(Int) /\ Len(arrTemp) = 0
    BY <1>2
  <2>4. Half(arrTemp, in1, 0) /\ Half(arrTemp, in2, 0) /\ Rising(arrTemp)
    BY <1>2, <1>3, <2>3 DEF Half, Under, Rising
  <2>5. Together(arrTemp, in1, 0, in2, 0)
    BY <2>2, <2>3 DEF Together, CopiesIn
  <2>6. NewMoment(arrTemp, in1, 0, in2, 0)
    BY <2>3, <2>4, <2>5 DEF NewMoment
  <2>7. \E a, b \in Nat : index1' = a + 1 /\ index2' = b + 1 /\ NewMoment(arrTemp, in1, a, in2, b)
    BY <2>1, <2>6, Zenon, 0 \in Nat
  <2> QED BY <1>1, <1>2, <1>4, <2>7 DEF MergeInv
<1>5. CASE to = "Old"
  <2>1. index1' = n /\ index2' = l /\ index' = n + l /\ n + l <= Len(arr1)
    BY <1>2, <1>3, <1>5 DEF MG!Call, MG!Fits, MG!Len1, MG!Len2
  <2>2. \A s, v : \A c \in Nat : Amount(v, s, c + 1, c) = 0
    BY AmountNone
  <2>3. Shared(arr1, in1, n, in2, l)
    <3> SUFFICES ASSUME NEW v PROVE Amount(v, arr1, n + l + 1, n + l) + Amount(v, in1, 1, n) + Amount(v, in2, 1, l)
                                    = CopiesIn(v, in1) + CopiesIn(v, in2)
      BY <1>3 DEF Shared
    <3>1. PICK c \in Nat : c = n + l
      OBVIOUS
    <3>2. Amount(v, arr1, c + 1, c) = 0
      BY <2>2
    <3>3. CopiesIn(v, in1) = Amount(v, in1, 1, n) /\ CopiesIn(v, in2) = Amount(v, in2, 1, l)
      BY <1>3 DEF CopiesIn
    <3>4. Amount(v, in1, 1, n) \in Nat /\ Amount(v, in2, 1, l) \in Nat
      BY AmountNext
    <3> QED BY <3>1, <3>2, <3>3, <3>4
  <2>4. /\ Above(arr1, n + l + 1, n + l, in1, n) /\ Above(arr1, n + l + 1, n + l, in2, l)
        /\ Ascends(arr1, n + l + 1, n + l)
    BY DEF Above, Ascends
  <2>5. OldMoment(arr1, in1, n, in2, l)
    BY <1>2, <1>3, <2>1, <2>3, <2>4 DEF OldMoment
  <2> QED BY <1>1, <1>2, <1>5, <2>1, <2>5 DEF MergeInv
<1> QED BY <1>2, <1>4, <1>5

(* A step of a loop places one number, or ends the loop.                   *)
LEMMA OneNumber ==
  ASSUME MergeInv, MG!NewBoth \/ MG!NewOne \/ MG!OldBoth \/ MG!OldOne PROVE MergeInv'
<1>1. /\ mergePc \in {"both", "one"} /\ mergePc' = mergePc /\ to' = to /\ in1' = in1 /\ in2' = in2
  BY DEF MG!NewBoth, MG!NewOne, MG!OldBoth, MG!OldOne, MG!New, MG!Old, MG!Same
<1>2. in1 \in Seq(Int) /\ in2 \in Seq(Int) /\ Rising(in1) /\ Rising(in2) /\ to \in {"New", "Old"}
  BY DEF MergeInv
<1>3. PICK a \in Nat, b \in Nat :
         /\ to = "New" => index1 = a + 1 /\ index2 = b + 1 /\ NewMoment(arrTemp, in1, a, in2, b)
         /\ to = "Old" => index1 = a /\ index2 = b /\ index = a + b /\ OldMoment(arr1, in1, a, in2, b)
         /\ mergePc = "one" /\ to = "New" => a = Len(in1) \/ b = Len(in2)
         /\ mergePc = "one" /\ to = "Old" => a = 0 \/ b = 0
  BY <1>1 DEF MergeInv
<1>4. PICK n \in Nat, l \in Nat : n = Len(in1) /\ l = Len(in2)
  BY <1>2
<1>5. (\A p \in 1 .. n : in1[p] \in Int) /\ (\A p \in 1 .. l : in2[p] \in Int)
  BY <1>2, <1>4
<1>6. (\A p, q \in 1 .. n : p <= q => in1[p] <= in1[q]) /\ (\A p, q \in 1 .. l : p <= q => in2[p] <= in2[q])
  <2>1. \A p, q \in 1 .. n : p <= q => in1[p] <= in1[q]
    <3> SUFFICES ASSUME NEW p \in 1 .. n, NEW q \in 1 .. n, p <= q PROVE in1[p] <= in1[q]
      OBVIOUS
    <3>1. p = q \/ p < q
      OBVIOUS
    <3> QED BY <1>2, <1>4, <1>5, <3>1 DEF Rising
  <2>2. \A p, q \in 1 .. l : p <= q => in2[p] <= in2[q]
    <3> SUFFICES ASSUME NEW p \in 1 .. l, NEW q \in 1 .. l, p <= q PROVE in2[p] <= in2[q]
      OBVIOUS
    <3>1. p = q \/ p < q
      OBVIOUS
    <3> QED BY <1>2, <1>4, <1>5, <3>1 DEF Rising
  <2> QED BY <2>1, <2>2
<1>7. CASE to = "New"
  <2>1. index1 = a + 1 /\ index2 = b + 1 /\ NewMoment(arrTemp, in1, a, in2, b)
    BY <1>3, <1>7
  <2>2. a <= n /\ b <= l
    BY <1>4, <2>1 DEF NewMoment, Half
  <2>3. \/ /\ a < n /\ index1' = (a + 1) + 1 /\ index2' = b + 1 /\ arrTemp' = Append(arrTemp, in1[a + 1])
           /\ \A q \in b + 1 .. l : in1[a + 1] <= in2[q]
        \/ /\ b < l /\ index1' = a + 1 /\ index2' = (b + 1) + 1 /\ arrTemp' = Append(arrTemp, in2[b + 1])
           /\ \A q \in a + 1 .. n : in2[b + 1] <= in1[q]
    <3>1. CASE MG!NewBoth
      <4>1. /\ a + 1 <= n /\ b + 1 <= l
            /\ IF in1[a + 1] < in2[b + 1] THEN MG!New(in1[a + 1], 1, 0) ELSE MG!New(in2[b + 1], 0, 1)
        BY <1>4, <2>1, <3>1 DEF MG!NewBoth, MG!Left1, MG!Left2, MG!Len1, MG!Len2
      <4>2. in1[a + 1] \in Int /\ in2[b + 1] \in Int
        BY <1>5, <4>1
      <4>3. CASE in1[a + 1] < in2[b + 1]
        <5>1. \A q \in b + 1 .. l : in2[b + 1] <= in2[q] /\ in2[q] \in Int
          BY <1>5, <1>6, <4>1
        <5>2. \A q \in b + 1 .. l : in1[a + 1] <= in2[q]
          BY <4>2, <4>3, <5>1
        <5>3. arrTemp' = Append(arrTemp, in1[a + 1]) /\ index1' = index1 + 1 /\ index2' = index2 + 0
          BY <4>1, <4>3 DEF MG!New
        <5> QED BY <2>1, <4>1, <5>2, <5>3
      <4>4. CASE ~(in1[a + 1] < in2[b + 1])
        <5>1. \A q \in a + 1 .. n : in1[a + 1] <= in1[q] /\ in1[q] \in Int
          BY <1>5, <1>6, <4>1
        <5>2. \A q \in a + 1 .. n : in2[b + 1] <= in1[q]
          BY <4>2, <4>4, <5>1
        <5>3. arrTemp' = Append(arrTemp, in2[b + 1]) /\ index1' = index1 + 0 /\ index2' = index2 + 1
          BY <4>1, <4>4 DEF MG!New
        <5> QED BY <2>1, <4>1, <5>2, <5>3
      <4> QED BY <4>3, <4>4
    <3>2. CASE MG!NewOne
      <4>1. mergePc = "one" /\ (a = n \/ b = l)
        BY <1>3, <1>4, <1>7, <3>2 DEF MG!NewOne
      <4>2. \/ a + 1 <= n /\ MG!New(in1[a + 1], 1, 0)
            \/ ~(a + 1 <= n) /\ b + 1 <= l /\ MG!New(in2[b + 1], 0, 1)
        BY <1>4, <2>1, <3>2 DEF MG!NewOne, MG!Left1, MG!Left2, MG!Len1, MG!Len2
      <4>3. CASE a + 1 <= n /\ MG!New(in1[a + 1], 1, 0)
        <5>1. arrTemp' = Append(arrTemp, in1[a + 1]) /\ index1' = index1 + 1 /\ index2' = index2 + 0
          BY <4>3 DEF MG!New
        <5> QED BY <2>1, <4>1, <4>3, <5>1
      <4>4. CASE ~(a + 1 <= n) /\ b + 1 <= l /\ MG!New(in2[b + 1], 0, 1)
        <5>1. arrTemp' = Append(arrTemp, in2[b + 1]) /\ index1' = index1 + 0 /\ index2' = index2 + 1
          BY <4>4 DEF MG!New
        <5> QED BY <2>1, <2>2, <4>4, <5>1
      <4> QED BY <4>2, <4>3, <4>4
    <3>3. ~MG!OldBoth /\ ~MG!OldOne
      BY <1>7 DEF MG!OldBoth, MG!OldOne
    <3> QED BY <3>1, <3>2, <3>3
  <2>4. CASE /\ a < n /\ index1' = (a + 1) + 1 /\ index2' = b + 1 /\ arrTemp' = Append(arrTemp, in1[a + 1])
             /\ \A q \in b + 1 .. l : in1[a + 1] <= in2[q]
    <3>1. NewMoment(arrTemp', in1, a + 1, in2, b)
      BY <1>4, <2>1, <2>4, NewNumber
    <3>2. a + 1 \in Nat /\ (mergePc = "one" => b = Len(in2))
      BY <1>3, <1>4, <1>7, <2>4
    <3> QED BY <1>1, <1>2, <1>7, <2>4, <3>1, <3>2 DEF MergeInv
  <2>5. CASE /\ b < l /\ index1' = a + 1 /\ index2' = (b + 1) + 1 /\ arrTemp' = Append(arrTemp, in2[b + 1])
             /\ \A q \in a + 1 .. n : in2[b + 1] <= in1[q]
    <3>0. NewMoment(arrTemp, in2, b, in1, a)
      BY <2>1, NewSides
    <3>3. NewMoment(arrTemp', in2, b + 1, in1, a)
      BY <1>4, <2>5, <3>0, NewNumber
    <3>1. NewMoment(arrTemp', in1, a, in2, b + 1)
      BY <3>3, NewSides
    <3>2. b + 1 \in Nat /\ (mergePc = "one" => a = Len(in1))
      BY <1>3, <1>4, <1>7, <2>5
    <3> QED BY <1>1, <1>2, <1>7, <2>5, <3>1, <3>2 DEF MergeInv
  <2> QED BY <2>3, <2>4, <2>5
<1>8. CASE to = "Old"
  <2>1. index1 = a /\ index2 = b /\ index = a + b /\ OldMoment(arr1, in1, a, in2, b)
    BY <1>3, <1>8
  <2>2. a <= n /\ b <= l /\ \A p \in 1 .. a : arr1[p] = in1[p]
    BY <1>4, <2>1 DEF OldMoment
  <2>3. \/ /\ a > 0 /\ index1' = a - 1 /\ index2' = b /\ index' = a + b - 1 /\ arr1' = [arr1 EXCEPT ![a + b] = in1[a]]
           /\ \A q \in 1 .. b : in2[q] <= in1[a]
        \/ /\ b > 0 /\ index1' = a /\ index2' = b - 1 /\ index' = a + b - 1 /\ arr1' = [arr1 EXCEPT ![a + b] = in2[b]]
           /\ \A q \in 1 .. a : in1[q] <= in2[b]
    <3>1. CASE MG!OldBoth
      <4>1. a > 0 /\ b > 0 /\ IF arr1[a] > in2[b] THEN MG!Old(arr1[a], 1, 0) ELSE MG!Old(in2[b], 0, 1)
        BY <2>1, <3>1 DEF MG!OldBoth
      <4>2. in1[a] \in Int /\ in2[b] \in Int /\ arr1[a] = in1[a]
        BY <1>5, <2>2, <4>1
      <4>3. CASE in1[a] > in2[b]
        <5>1. \A q \in 1 .. b : in2[q] <= in2[b] /\ in2[q] \in Int
          BY <1>5, <1>6, <2>2, <4>1
        <5>2. \A q \in 1 .. b : in2[q] <= in1[a]
          BY <4>2, <4>3, <5>1
        <5>3. arr1' = [arr1 EXCEPT ![index] = in1[a]] /\ index' = index - 1 /\ index1' = index1 - 1 /\ index2' = index2 - 0
          BY <4>1, <4>2, <4>3 DEF MG!Old
        <5> QED BY <2>1, <4>1, <5>2, <5>3
      <4>4. CASE ~(in1[a] > in2[b])
        <5>1. \A q \in 1 .. a : in1[q] <= in1[a] /\ in1[q] \in Int
          BY <1>5, <1>6, <2>2, <4>1
        <5>2. \A q \in 1 .. a : in1[q] <= in2[b]
          BY <4>2, <4>4, <5>1
        <5>3. arr1' = [arr1 EXCEPT ![index] = in2[b]] /\ index' = index - 1 /\ index1' = index1 - 0 /\ index2' = index2 - 1
          BY <4>1, <4>2, <4>4 DEF MG!Old
        <5> QED BY <2>1, <4>1, <5>2, <5>3
      <4> QED BY <4>3, <4>4
    <3>2. CASE MG!OldOne
      <4>1. mergePc = "one" /\ (a = 0 \/ b = 0)
        BY <1>3, <1>8, <3>2 DEF MG!OldOne
      <4>2. \/ a > 0 /\ MG!Old(arr1[a], 1, 0)
            \/ a = 0 /\ b > 0 /\ MG!Old(in2[b], 0, 1)
        BY <2>1, <3>2 DEF MG!OldOne
      <4>3. CASE a > 0 /\ MG!Old(arr1[a], 1, 0)
        <5>1. arr1' = [arr1 EXCEPT ![index] = arr1[a]] /\ index' = index - 1 /\ index1' = index1 - 1 /\ index2' = index2 - 0
          BY <4>3 DEF MG!Old
        <5>2. arr1[a] = in1[a] /\ b = 0
          BY <2>2, <4>1, <4>3
        <5> QED BY <2>1, <4>3, <5>1, <5>2
      <4>4. CASE a = 0 /\ b > 0 /\ MG!Old(in2[b], 0, 1)
        <5>1. arr1' = [arr1 EXCEPT ![index] = in2[b]] /\ index' = index - 1 /\ index1' = index1 - 0 /\ index2' = index2 - 1
          BY <4>4 DEF MG!Old
        <5> QED BY <2>1, <4>4, <5>1
      <4> QED BY <4>2, <4>3, <4>4
    <3>3. ~MG!NewBoth /\ ~MG!NewOne
      BY <1>8 DEF MG!NewBoth, MG!NewOne
    <3> QED BY <3>1, <3>2, <3>3
  <2>4. CASE /\ a > 0 /\ index1' = a - 1 /\ index2' = b /\ index' = a + b - 1 /\ arr1' = [arr1 EXCEPT ![a + b] = in1[a]]
             /\ \A q \in 1 .. b : in2[q] <= in1[a]
    <3>1. PICK c \in Nat : a = c + 1 /\ index1' = c /\ index' = c + b /\ c + b + 1 = a + b
      <4>1. a - 1 \in Nat /\ a = (a - 1) + 1 /\ a + b - 1 = (a - 1) + b /\ (a - 1) + b + 1 = a + b
        BY <2>4
      <4> QED BY <2>4, <4>1
    <3>2. OldMoment(arr1, in1, c + 1, in2, b) /\ \A q \in 1 .. b : in2[q] <= in1[c + 1]
      BY <2>1, <2>4, <3>1
    <3>3. OldMoment([arr1 EXCEPT ![c + b + 1] = in1[c + 1]], in1, c, in2, b)
      BY <3>2, OldFirst
    <3>4. arr1' = [arr1 EXCEPT ![c + b + 1] = in1[c + 1]]
      BY <2>4, <3>1
    <3>5. mergePc = "one" => c = 0 \/ b = 0
      BY <1>3, <1>8, <2>4
    <3>6. index1' = c /\ index2' = b /\ index' = c + b /\ OldMoment(arr1', in1, c, in2, b)
      BY <2>4, <3>1, <3>3, <3>4
    <3> QED BY <1>1, <1>2, <1>8, <3>5, <3>6 DEF MergeInv
  <2>5. CASE /\ b > 0 /\ index1' = a /\ index2' = b - 1 /\ index' = a + b - 1 /\ arr1' = [arr1 EXCEPT ![a + b] = in2[b]]
             /\ \A q \in 1 .. a : in1[q] <= in2[b]
    <3>1. PICK c \in Nat : b = c + 1 /\ index2' = c /\ index' = a + c /\ a + c + 1 = a + b
      <4>1. b - 1 \in Nat /\ b = (b - 1) + 1 /\ a + b - 1 = a + (b - 1) /\ a + (b - 1) + 1 = a + b
        BY <2>5
      <4> QED BY <2>5, <4>1
    <3>2. OldMoment(arr1, in1, a, in2, c + 1) /\ \A q \in 1 .. a : in1[q] <= in2[c + 1]
      BY <2>1, <2>5, <3>1
    <3>3. OldMoment([arr1 EXCEPT ![a + c + 1] = in2[c + 1]], in1, a, in2, c)
      BY <3>2, OldSecond
    <3>4. arr1' = [arr1 EXCEPT ![a + c + 1] = in2[c + 1]]
      BY <2>5, <3>1
    <3>5. mergePc = "one" => a = 0 \/ c = 0
      BY <1>3, <1>8, <2>5
    <3>6. index1' = a /\ index2' = c /\ index' = a + c /\ OldMoment(arr1', in1, a, in2, c)
      BY <2>5, <3>1, <3>3, <3>4
    <3> QED BY <1>1, <1>2, <1>8, <3>5, <3>6 DEF MergeInv
  <2> QED BY <2>3, <2>4, <2>5
<1> QED BY <1>2, <1>7, <1>8

(* Every step of a merge, and steps of the other algorithms.               *)
LEMMA MergeStep == MergeInv /\ [MG!MergeNext]_mergeVars => MergeInv'
<1> SUFFICES ASSUME MergeInv, [MG!MergeNext]_mergeVars PROVE MergeInv'
  OBVIOUS
<1>1. CASE MG!GetLenPast
  BY <1>1 DEF MG!GetLenPast, MG!Same, MergeInv
<1>2. CASE MG!Refuse
  BY <1>2 DEF MG!Refuse, MG!Same, MergeInv
<1>3. CASE MG!Call
  BY <1>3, CallStep
<1>4. CASE MG!NewBoth \/ MG!NewOne \/ MG!OldBoth \/ MG!OldOne
  BY <1>4, OneNumber
<1>5. CASE MG!NewLeave \/ MG!OldLeave
  <2>1. /\ mergePc \in {"both", "one"} /\ to' = to /\ in1' = in1 /\ in2' = in2 /\ arr1' = arr1 /\ arrTemp' = arrTemp
        /\ index' = index /\ index1' = index1 /\ index2' = index2
    BY <1>5 DEF MG!NewLeave, MG!OldLeave, MG!MergeLeave, MG!Same
  <2>2. in1 \in Seq(Int) /\ in2 \in Seq(Int) /\ Rising(in1) /\ Rising(in2) /\ to \in {"New", "Old"}
    BY DEF MergeInv
  <2>3. PICK a \in Nat, b \in Nat :
           /\ to = "New" => index1 = a + 1 /\ index2 = b + 1 /\ NewMoment(arrTemp, in1, a, in2, b)
           /\ to = "Old" => index1 = a /\ index2 = b /\ index = a + b /\ OldMoment(arr1, in1, a, in2, b)
    BY <2>1 DEF MergeInv
  <2>4. PICK n \in Nat, l \in Nat : n = Len(in1) /\ l = Len(in2)
    BY <2>2
  <2>5. CASE to = "New"
    <3>1. index1 = a + 1 /\ index2 = b + 1 /\ NewMoment(arrTemp, in1, a, in2, b) /\ a <= n /\ b <= l
      BY <2>3, <2>4, <2>5 DEF NewMoment, Half
    <3>2. \/ mergePc' = "one" /\ (a = n \/ b = l)
          \/ mergePc' = "done" /\ a = n /\ b = l
      BY <1>5, <2>4, <2>5, <3>1 DEF MG!NewLeave, MG!OldLeave, MG!MergeLeave, MG!Left1, MG!Left2, MG!Len1, MG!Len2
    <3> QED BY <2>1, <2>2, <2>4, <2>5, <3>1, <3>2 DEF MergeInv
  <2>6. CASE to = "Old"
    <3>1. index1 = a /\ index2 = b /\ index = a + b /\ OldMoment(arr1, in1, a, in2, b)
      BY <2>3, <2>6
    <3>2. \/ mergePc' = "one" /\ (a = 0 \/ b = 0)
          \/ mergePc' = "done" /\ a = 0 /\ b = 0
      BY <1>5, <2>6, <3>1 DEF MG!NewLeave, MG!OldLeave, MG!MergeLeave
    <3> QED BY <2>1, <2>2, <2>6, <3>1, <3>2 DEF MergeInv
  <2> QED BY <2>2, <2>5, <2>6
<1>6. CASE UNCHANGED mergeVars
  BY <1>6 DEF mergeVars, MergeInv
<1> QED BY <1>1, <1>2, <1>3, <1>4, <1>5, <1>6 DEF MG!MergeNext

(* The numbers in the beginning of a sequence,                             *)
LEMMA RangeUpTo ==
  ASSUME NEW s \in Seq(Int), NEW a \in Nat, a <= Len(s)
  PROVE  MG!Range(SubSeq(s, 1, a)) = {s[q] : q \in 1 .. a}
<1>1. PICK y : y = SubSeq(s, 1, a)
  OBVIOUS
<1>2. DOMAIN y = 1 .. a /\ \A p \in 1 .. a : y[p] = s[p]
  BY <1>1
<1>3. {y[p] : p \in 1 .. a} = {s[q] : q \in 1 .. a}
  BY <1>2
<1> QED BY <1>1, <1>2, <1>3, Zenon DEF MG!Range

(* and the places of a part of it.                                         *)
LEMMA Between ==
  ASSUME NEW s \in Seq(Int), NEW a \in Nat, NEW n \in Nat, a <= n, n <= Len(s)
  PROVE  LET y == SubSeq(s, a + 1, n) IN
         DOMAIN y = 1 .. n - a /\ \A p \in 1 .. n - a : p + a \in a + 1 .. n /\ y[p] = s[p + a]
  OBVIOUS

(* So what has been placed is ordered, and at the end it is everything.    *)
LEMMA MergeMeaning == MergeInv => MG!ReadsFirst /\ MG!PlacedInOrder /\ MG!Merged
<1> SUFFICES ASSUME MergeInv PROVE MG!ReadsFirst /\ MG!PlacedInOrder /\ MG!Merged
  OBVIOUS
<1>0. CASE mergePc \notin {"both", "one", "done"}
  BY <1>0 DEF MG!ReadsFirst, MG!PlacedInOrder, MG!Merged
<1>1. CASE mergePc \in {"both", "one", "done"}
  <2>1. in1 \in Seq(Int) /\ in2 \in Seq(Int) /\ Rising(in1) /\ Rising(in2) /\ to \in {"New", "Old"}
    BY DEF MergeInv
  <2>2. PICK a \in Nat, b \in Nat :
           /\ to = "New" => index1 = a + 1 /\ index2 = b + 1 /\ NewMoment(arrTemp, in1, a, in2, b)
           /\ to = "Old" => index1 = a /\ index2 = b /\ index = a + b /\ OldMoment(arr1, in1, a, in2, b)
           /\ mergePc = "done" /\ to = "New" => a = Len(in1) /\ b = Len(in2)
           /\ mergePc = "done" /\ to = "Old" => a = 0 /\ b = 0
    BY <1>1 DEF MergeInv
  <2>3. PICK n \in Nat, l \in Nat : n = Len(in1) /\ l = Len(in2)
    BY <2>1
  <2>4. \A v : MG!MergeCopies(v, in1) = CopiesIn(v, in1) /\ MG!MergeCopies(v, in2) = CopiesIn(v, in2)
    BY <2>1, AmountWhole, SameCount, Zenon DEF MG!MergeCopies, CopiesIn
  <2>5. MG!Len1 = n /\ MG!Len2 = l
    BY <2>3 DEF MG!Len1, MG!Len2
  <2>6. CASE to = "New"
    <3>1. index1 = a + 1 /\ index2 = b + 1 /\ NewMoment(arrTemp, in1, a, in2, b)
      BY <2>2, <2>6
    <3>2. /\ arrTemp \in Seq(Int) /\ Rising(arrTemp) /\ Under(arrTemp, in1, a) /\ Under(arrTemp, in2, b)
          /\ Together(arrTemp, in1, a, in2, b) /\ a <= n /\ b <= l
      BY <2>3, <3>1 DEF NewMoment, Half
    <3>3. PICK k \in Nat : k = Len(arrTemp) /\ DOMAIN arrTemp = 1 .. k
      BY <3>2
    <3>4. MG!ReadsFirst
      BY <2>6 DEF MG!ReadsFirst
    <3>5. MG!PlacedInOrder
      <4>1. MG!Range(SubSeq(in1, a + 1, Len(in1))) = {in1[q] : q \in a + 1 .. Len(in1)}
        BY <2>1, <2>3, <3>2, RangeAfter
      <4>2. MG!Range(SubSeq(in2, b + 1, Len(in2))) = {in2[q] : q \in b + 1 .. Len(in2)}
        BY <2>1, <2>3, <3>2, RangeAfter
      <4>3. MG!MergeOrdered(arrTemp)
        BY <3>2, <3>3 DEF MG!MergeOrdered, Rising
      <4>4. ASSUME NEW z \in MG!Range(arrTemp),
                   NEW c \in MG!Range(SubSeq(in1, a + 1, Len(in1))) \cup MG!Range(SubSeq(in2, b + 1, Len(in2))) PROVE z <= c
        <5>1. PICK p \in 1 .. k : z = arrTemp[p]
          BY <3>3 DEF MG!Range
        <5>2. CASE c \in MG!Range(SubSeq(in1, a + 1, Len(in1)))
          <6>1. PICK q \in a + 1 .. Len(in1) : c = in1[q]
            BY <4>1, <5>2
          <6> QED BY <3>2, <3>3, <5>1, <6>1 DEF Under
        <5>3. CASE c \in MG!Range(SubSeq(in2, b + 1, Len(in2)))
          <6>1. PICK q \in b + 1 .. Len(in2) : c = in2[q]
            BY <4>2, <5>3
          <6> QED BY <3>2, <3>3, <5>1, <6>1 DEF Under
        <5> QED BY <5>2, <5>3
      <4> QED BY <2>6, <3>1, <4>3, <4>4, Zenon DEF MG!PlacedInOrder, MG!Len1, MG!Len2
    <3>6. ASSUME mergePc = "done", NEW v PROVE MG!MergeCopies(v, MG!Result) = MG!MergeCopies(v, in1) + MG!MergeCopies(v, in2)
      <4>1. a = n /\ b = l
        BY <2>2, <2>3, <2>6, <3>6
      <4>2. CopiesIn(v, arrTemp) = Amount(v, in1, 1, a) + Amount(v, in2, 1, b)
        BY <3>2, Zenon DEF Together
      <4>3. MG!MergeCopies(v, arrTemp) = CopiesIn(v, arrTemp)
        BY <3>2, AmountWhole, SameCount, Zenon DEF MG!MergeCopies, CopiesIn
      <4>4. MG!Result = arrTemp
        BY <2>6 DEF MG!Result
      <4> QED BY <2>3, <2>4, <4>1, <4>2, <4>3, <4>4, Zenon DEF CopiesIn
    <3> QED BY <3>4, <3>5, <3>6, Zenon DEF MG!Merged
  <2>7. CASE to = "Old"
    <3>1. index1 = a /\ index2 = b /\ index = a + b /\ OldMoment(arr1, in1, a, in2, b)
      BY <2>2, <2>7
    <3>2. /\ arr1 \in Seq(Int) /\ a <= n /\ b <= l /\ n + l <= Len(arr1) /\ (\A p \in 1 .. a : arr1[p] = in1[p])
          /\ Above(arr1, a + b + 1, n + l, in1, a) /\ Above(arr1, a + b + 1, n + l, in2, b)
          /\ Ascends(arr1, a + b + 1, n + l) /\ Shared(arr1, in1, a, in2, b)
      BY <2>3, <3>1 DEF OldMoment
    <3>3. MG!ReadsFirst
      BY <3>1, <3>2 DEF MG!ReadsFirst
    <3>4. PICK c \in Nat, d \in Nat : c = a + b /\ d = n + l /\ c <= d
      BY <3>2
    <3>5. PICK y : y = SubSeq(arr1, c + 1, d)
      OBVIOUS
    <3>6. DOMAIN y = 1 .. d - c /\ \A p \in 1 .. d - c : p + c \in c + 1 .. d /\ y[p] = arr1[p + c]
      BY <3>2, <3>4, <3>5, Between
    <3>7. MG!PlacedInOrder
      <4>1. MG!Range(SubSeq(in1, 1, a)) = {in1[q] : q \in 1 .. a}
        BY <2>1, <2>3, <3>2, RangeUpTo
      <4>2. MG!Range(SubSeq(in2, 1, b)) = {in2[q] : q \in 1 .. b}
        BY <2>1, <2>3, <3>2, RangeUpTo
      <4>3. MG!MergeOrdered(y)
        <5> SUFFICES ASSUME NEW p \in 1 .. d - c, NEW q \in 1 .. d - c, p < q PROVE y[p] <= y[q]
          BY <3>6 DEF MG!MergeOrdered
        <5>1. p + c \in c + 1 .. d /\ q + c \in c + 1 .. d /\ p + c < q + c /\ y[p] = arr1[p + c] /\ y[q] = arr1[q + c]
          BY <3>6
        <5> QED BY <3>2, <3>4, <5>1 DEF Ascends
      <4>4. ASSUME NEW z \in MG!Range(y),
                   NEW e \in MG!Range(SubSeq(in1, 1, a)) \cup MG!Range(SubSeq(in2, 1, b)) PROVE z >= e
        <5>1. PICK p \in 1 .. d - c : z = y[p]
          BY <3>6 DEF MG!Range
        <5>4. p + c \in c + 1 .. d /\ z = arr1[p + c]
          BY <3>6, <5>1
        <5>2. CASE e \in MG!Range(SubSeq(in1, 1, a))
          <6>1. PICK q \in 1 .. a : e = in1[q]
            BY <4>1, <5>2
          <6> QED BY <3>2, <3>4, <5>4, <6>1 DEF Above
        <5>3. CASE e \in MG!Range(SubSeq(in2, 1, b))
          <6>1. PICK q \in 1 .. b : e = in2[q]
            BY <4>2, <5>3
          <6> QED BY <3>2, <3>4, <5>4, <6>1 DEF Above
        <5> QED BY <5>2, <5>3
      <4>5. to # "New" /\ SubSeq(arr1, index + 1, MG!Len1 + MG!Len2) = y
        BY <2>5, <2>7, <3>1, <3>4, <3>5
      <4> QED BY <3>1, <4>3, <4>4, <4>5, Zenon DEF MG!PlacedInOrder
    <3>8. ASSUME mergePc = "done", NEW v PROVE MG!MergeCopies(v, MG!Result) = MG!MergeCopies(v, in1) + MG!MergeCopies(v, in2)
      <4>1. a = 0 /\ b = 0 /\ c = 0
        BY <2>2, <2>7, <3>4, <3>8
      <4>2. Amount(v, arr1, 0 + 0 + 1, n + l) + Amount(v, in1, 1, 0) + Amount(v, in2, 1, 0) = CopiesIn(v, in1) + CopiesIn(v, in2)
        BY <2>3, <3>2, <4>1, Zenon DEF Shared
      <4>3. Amount(v, in1, 1, 0) = 0 /\ Amount(v, in2, 1, 0) = 0
        BY AmountNone
      <4>4. Amount(v, arr1, 1, d) \in Nat /\ Amount(v, arr1, 1, d) = CopiesIn(v, in1) + CopiesIn(v, in2)
        BY <3>4, <4>2, <4>3, AmountNext
      <4>5. MG!Result = y /\ DOMAIN y = 1 .. d /\ \A p \in 1 .. d : y[p] = arr1[p]
        <5>1. MG!Result = y
          BY <2>5, <2>7, <3>4, <3>5, <4>1 DEF MG!Result
        <5>2. d - c = d /\ \A p \in 1 .. d : p + c = p
          BY <4>1
        <5> QED BY <3>6, <5>1, <5>2
      <4>6. MG!MergeCopies(v, y) = Amount(v, y, 1, d)
        BY <4>5, SameCount, Zenon DEF MG!MergeCopies, Amount
      <4>7. Amount(v, y, 1, d) = Amount(v, arr1, 1, d)
        BY <4>5, AmountSame
      <4> QED BY <2>4, <4>4, <4>5, <4>6, <4>7
    <3> QED BY <3>3, <3>7, <3>8, Zenon DEF MG!Merged
  <2> QED BY <2>1, <2>6, <2>7
<1> QED BY <1>0, <1>1

(* There are no more copies than places, and as many if all are copies.    *)
LEMMA AmountBound ==
  ASSUME NEW v, NEW s, NEW a \in Int, NEW b \in Int, a <= b + 1
  PROVE  /\ Amount(v, s, a, b) <= b - a + 1
         /\ (\A p \in a .. b : s[p] = v) => Amount(v, s, a, b) = b - a + 1
<1> DEFINE S == {p \in a .. b : s[p] = v}
<1>1. IsFiniteSet(a .. b) /\ Cardinality(a .. b) = b - a + 1
  BY FS_Interval
<1>2. S \in SUBSET (a .. b)
  OBVIOUS
<1>3. (\A p \in a .. b : s[p] = v) => S = a .. b
  OBVIOUS
<1> HIDE DEF S
<1>4. Cardinality(S) <= Cardinality(a .. b)
  BY <1>1, <1>2, FS_Subset, Zenon
<1> QED BY <1>1, <1>3, <1>4 DEF Amount, S

(* Where there is one, there is one at least.                              *)
LEMMA AmountSome ==
  ASSUME NEW v, NEW s, NEW a \in Int, NEW b \in Int, NEW c \in a .. b, s[c] = v
  PROVE  Amount(v, s, a, b) >= 1
<1>1. PICK d \in Int : d = c - 1
  OBVIOUS
<1>2. a <= d + 1 /\ d <= b /\ c <= b /\ d + 1 = c
  BY <1>1
<1>3. Amount(v, s, a, b) = Amount(v, s, a, d) + Amount(v, s, c, b)
  BY <1>2, AmountSplit
<1>4. Amount(v, s, c, b) = Amount(v, s, c + 1, b) + 1
  BY <1>2, AmountDown
<1>5. Amount(v, s, a, d) \in Nat /\ Amount(v, s, c + 1, b) \in Nat
  <2>1. c + 1 \in Int
    OBVIOUS
  <2> QED BY <1>1, <2>1, AmountType, Zenon
<1> QED BY <1>3, <1>4, <1>5

(* Without one place there is room for one less.                           *)
LEMMA AmountOut ==
  ASSUME NEW v, NEW s, NEW n \in Nat, NEW c \in 1 .. n, s[c] # v
  PROVE  Amount(v, s, 1, n) <= n - 1
<1>1. PICK d \in Int : d = c - 1
  OBVIOUS
<1>2. 1 <= d + 1 /\ d <= n /\ c <= n /\ d + 1 = c
  BY <1>1
<1>3. Amount(v, s, 1, n) = Amount(v, s, 1, d) + Amount(v, s, c, n)
  BY <1>2, AmountSplit
<1>4. Amount(v, s, c, n) = Amount(v, s, c + 1, n) + 0
  BY <1>2, AmountDown
<1>6. PICK e \in Int : e = c + 1
  OBVIOUS
<1>5. Amount(v, s, 1, d) \in Nat /\ Amount(v, s, e, n) \in Nat
  <2>1. 1 \in Int /\ n \in Int
    OBVIOUS
  <2> QED BY <1>1, <2>1, AmountType, Zenon
<1>7. Amount(v, s, 1, d) <= d - 1 + 1 /\ Amount(v, s, e, n) <= n - e + 1
  BY <1>2, <1>6, AmountBound
<1> QED BY <1>1, <1>3, <1>4, <1>5, <1>6, <1>7

(* How many numbers from the a-th to the b-th are in S.                    *)
Flag(s, S) == [p \in Int |-> IF s[p] \in S THEN 1 ELSE 0]
Tally(s, S, n) == Amount(1, Flag(s, S), 1, n)

(* The count of the negative numbers of the properties is a tally.         *)
LEMMA TallyCount ==
  ASSUME NEW s \in Seq(Int), NEW S PROVE SN!Count(s, S) = Tally(s, S, Len(s))
<1>1. PICK n \in Nat : n = Len(s)
  OBVIOUS
<1>2. DOMAIN s = 1 .. n
  BY <1>1
<1>3. SN!Where(s, S) = {p \in 1 .. n : Flag(s, S)[p] = 1}
  BY <1>2 DEF SN!Where, Flag
<1> QED BY <1>1, <1>3, SameCount, Zenon DEF SN!Count, Tally, Amount

(* Moving the numbers keeps a tally.                                       *)
LEMMA TallyMoved ==
  ASSUME NEW s, NEW t, NEW S, NEW n \in Nat, NEW m, Matches(m, s, 1, n, t, 1, n)
  PROVE  Tally(s, S, n) = Tally(t, S, n)
<1>1. /\ m \in [1 .. n -> 1 .. n]
      /\ \A p \in 1 .. n : s[p] = t[m[p]]
      /\ \A p, q \in 1 .. n : p # q => m[p] # m[q]
      /\ \A r \in 1 .. n : \E p \in 1 .. n : m[p] = r
  BY Zenon DEF Matches
<1>2. \A p \in 1 .. n : m[p] \in Int /\ p \in Int
  BY <1>1
<1>3. \A p \in 1 .. n : Flag(s, S)[p] = Flag(t, S)[m[p]]
  BY <1>1, <1>2 DEF Flag
<1>4. Matches(m, Flag(s, S), 1, n, Flag(t, S), 1, n)
  BY <1>1, <1>3, Zenon DEF Matches
<1>5. 1 \in Int /\ n \in Int
  OBVIOUS
<1> QED BY <1>4, <1>5, AmountMoved, SMT DEF Tally

(* Numbers moved twice have been moved,                                    *)
LEMMA MatchesThen ==
  ASSUME NEW u, NEW s, NEW t, NEW n \in Nat, NEW h, NEW m, Matches(h, u, 1, n, s, 1, n), Matches(m, s, 1, n, t, 1, n)
  PROVE  Matches([p \in 1 .. n |-> m[h[p]]], u, 1, n, t, 1, n)
<1>1. /\ m \in [1 .. n -> 1 .. n]
      /\ \A p \in 1 .. n : s[p] = t[m[p]]
      /\ \A p, q \in 1 .. n : p # q => m[p] # m[q]
      /\ \A r \in 1 .. n : \E p \in 1 .. n : m[p] = r
  BY Zenon DEF Matches
<1>2. /\ h \in [1 .. n -> 1 .. n]
      /\ \A p \in 1 .. n : u[p] = s[h[p]]
      /\ \A p, q \in 1 .. n : p # q => h[p] # h[q]
      /\ \A r \in 1 .. n : \E p \in 1 .. n : h[p] = r
  BY Zenon DEF Matches
<1> DEFINE z == [p \in 1 .. n |-> m[h[p]]]
<1>3. \A p \in 1 .. n : h[p] \in 1 .. n /\ m[h[p]] \in 1 .. n
  BY <1>1, <1>2
<1>4. z \in [1 .. n -> 1 .. n] /\ \A p \in 1 .. n : z[p] = m[h[p]]
  BY <1>3
<1> HIDE DEF z
<1>5. ASSUME NEW p \in 1 .. n PROVE u[p] = t[z[p]]
  <2>1. h[p] \in 1 .. n /\ u[p] = s[h[p]] /\ z[p] = m[h[p]]
    BY <1>2, <1>3, <1>4
  <2>2. s[h[p]] = t[m[h[p]]]
    BY <1>1, <2>1
  <2> QED BY <2>1, <2>2
<1>6. ASSUME NEW p \in 1 .. n, NEW q \in 1 .. n, p # q PROVE z[p] # z[q]
  <2>1. h[p] \in 1 .. n /\ h[q] \in 1 .. n /\ h[p] # h[q] /\ z[p] = m[h[p]] /\ z[q] = m[h[q]]
    BY <1>2, <1>3, <1>4, <1>6
  <2>2. m[h[p]] # m[h[q]]
    BY <1>1, <2>1, Zenon
  <2> QED BY <2>1, <2>2
<1>7. \A r \in 1 .. n : \E p \in 1 .. n : z[p] = r
  <2> SUFFICES ASSUME NEW r \in 1 .. n PROVE \E p \in 1 .. n : z[p] = r
    OBVIOUS
  <2>1. PICK q \in 1 .. n : m[q] = r
    BY <1>1
  <2>2. PICK p \in 1 .. n : h[p] = q
    BY <1>2
  <2> QED BY <1>4, <2>1, <2>2
<1>8. Matches(z, u, 1, n, t, 1, n)
  BY <1>4, <1>5, <1>6, <1>7, Zenon DEF Matches
<1> QED BY <1>8 DEF z

(* array/code/sort_num.cpp: the numbers of s are those of t, moved, in the *)
(* order SortNum (g = 0), SortNum1, SortNum2 and SortNum3 keep.            *)
KeepsNegs(h, u, n)    == \A p, q \in 1 .. n : p < q /\ u[p] < 0 /\ u[q] < 0 => h[p] < h[q]
KeepsNotNegs(h, u, n) == \A p, q \in 1 .. n : p < q /\ ~(u[p] < 0) /\ ~(u[q] < 0) => h[p] < h[q]
Turned(m, g, s, t, n) == /\ Matches(m, s, 1, n, t, 1, n)
                         /\ g # 1 => KeepsNegs(m, s, n)
                         /\ g > 1 => KeepsNotNegs(m, s, n)

(* and what both moves keep in order is kept.                              *)
LEMMA TurnAgain ==
  ASSUME NEW u, NEW s, NEW t, NEW n \in Nat, NEW g \in Nat, NEW h, NEW m, Matches(h, u, 1, n, s, 1, n), Turned(m, g, s, t, n),
         g # 1 => KeepsNegs(h, u, n), g > 1 => KeepsNotNegs(h, u, n)
  PROVE  \E z : Turned(z, g, u, t, n)
<1> DEFINE z == [p \in 1 .. n |-> m[h[p]]]
<1>1. Matches(m, s, 1, n, t, 1, n)
  BY DEF Turned
<1>2. Matches(z, u, 1, n, t, 1, n)
  BY <1>1, MatchesThen, Zenon
<1>3. \A p \in 1 .. n : h[p] \in 1 .. n /\ u[p] = s[h[p]] /\ z[p] = m[h[p]]
  BY DEF Matches
<1> HIDE DEF z
<1>4. g # 1 => KeepsNegs(z, u, n)
  BY <1>3 DEF Turned, KeepsNegs
<1>5. g > 1 => KeepsNotNegs(z, u, n)
  BY <1>3 DEF Turned, KeepsNotNegs
<1>6. Turned(z, g, u, t, n)
  BY <1>2, <1>4, <1>5 DEF Turned
<1> QED BY <1>6

(* Numbers within the bound.                                               *)
NumSet == - LargestNum .. LargestNum
Numbers(s) == s \in Seq(Int) /\ \A p \in 1 .. Len(s) : s[p] \in NumSet
Positive   == 1 .. LargestNum

(* SortNum: in front nothing is positive, at the end stand those moved.    *)
FirstAt(s, t, a, k, c) ==
  /\ k = Tally(t, SN!Negs, Len(s)) /\ a <= k + 1 /\ a <= Len(s) + 1 /\ c <= Len(s)
  /\ \A p \in 1 .. a - 1 : s[p] <= 0
  /\ c <= Tally(t, Positive, Len(s)) /\ \A p \in Len(s) - c + 1 .. Len(s) : s[p] > 0
(* SortNum1: what the two indices have passed is on its side.              *)
SecondAt(s, a, k) == /\ a <= k /\ k <= Len(s)
                     /\ \A p \in 1 .. a - 1 : s[p] < 0
                     /\ \A p \in k + 1 .. Len(s) : s[p] > 0
(* SortNum2: parted behind start, the rest untouched.                      *)
ThirdAt(s, t, a, k) == /\ k >= 1 /\ k <= a /\ a <= Len(s) + 1
                       /\ \A p \in 1 .. a - 1 : s[p] < 0 <=> p < k
                       /\ \A p \in a .. Len(s) : s[p] = t[p]
(* SortNum3: u has the k negative numbers of the first a of s, and then    *)
(* the others of the first b, in the order of f.                           *)
CopiedTo(u, f, s, a, b, k) ==
  /\ u \in Seq(Int) /\ k <= Len(u) /\ f \in [1 .. Len(u) -> 1 .. Len(s)]
  /\ \A p \in 1 .. Len(u) : u[p] = s[f[p]]
  /\ \A p \in 1 .. k : u[p] < 0 /\ f[p] <= a
  /\ \A p \in k + 1 .. Len(u) : ~(u[p] < 0) /\ f[p] <= b
  /\ \A p, q \in 1 .. k : p < q => f[p] < f[q]
  /\ \A p, q \in k + 1 .. Len(u) : p < q => f[p] < f[q]
  /\ \A r \in 1 .. a : s[r] < 0 => \E p \in 1 .. k : f[p] = r
  /\ \A r \in 1 .. b : ~(s[r] < 0) => \E p \in k + 1 .. Len(u) : f[p] = r
Parted(s)  == \A p, q \in 1 .. Len(s) : p < q /\ s[q] < 0 => s[p] < 0
AllBelow(s) == \A p \in 1 .. Len(s) : s[p] < 0
FourthAt(s, t, a, k, u, c) ==
  /\ c \in {"run", "plus", "done", "leaked"}
  /\ Len(t) = 0 => c = "done"
  /\ c # "done" => s = t
  /\ c = "run" => /\ a <= Len(t) + 1 /\ k = Len(u) /\ k = Tally(t, SN!Negs, a - 1)
                  /\ \E f : CopiedTo(u, f, t, a - 1, 0, k)
  /\ c = "plus" => /\ a <= Len(t) + 1 /\ ~AllBelow(t) /\ \E f : CopiedTo(u, f, t, Len(t), a - 1, k)
  /\ c = "done" => Parted(s) /\ (Len(t) # 0 => ~AllBelow(t))
  /\ c = "leaked" => AllBelow(t)
NumAt(g, t, s, a, k, u, c, z) ==
  /\ g \in 0 .. 3 /\ Numbers(t) /\ Numbers(s) /\ Len(s) = Len(t)
  /\ a \in Nat /\ a >= 1 /\ k \in Nat /\ c \in Nat /\ z \in {"run", "plus", "done", "leaked"}
  /\ \E m : Turned(m, g, s, t, Len(t))
  /\ g # 0 => c = 0
  /\ g # 3 => z \in {"run", "done"}
  /\ g = 0 => FirstAt(s, t, a, k, c) /\ (z = "done" => a > Len(s) \/ a > k)
  /\ g = 1 => /\ Len(s) = 0 => z = "done"
              /\ Len(s) # 0 => SecondAt(s, a, k)
              /\ z = "done" /\ Len(s) # 0 => a = k
  /\ g = 2 => ThirdAt(s, t, a, k) /\ (z = "done" => a = Len(s) + 1)
  /\ g = 3 => FourthAt(s, t, a, k, u, z)
NumInv == NumAt(numAlg, numOrig, numArr, numI, numK, temp, moves, numPc)

(* The sets of the model, by the sign.                                     *)
LEMMA NegsBelow == \A e \in NumSet : /\ e \in SN!Negs <=> e < 0
                                     /\ e \in SN!NotNegs <=> ~(e < 0)
                                     /\ e \in Positive <=> e > 0
<1>1. LargestNum \in Nat
  BY LoopsAssumption DEF SN!SortNumAssumption
<1> QED BY <1>1 DEF NumSet, SN!Negs, SN!NotNegs, SN!Values, Positive

(* The array is as it was and its length is counted.                       *)
LEMMA NumInitial == SN!Init => NumInv
<1> SUFFICES ASSUME SN!Init PROVE NumInv
  OBVIOUS
<1>1. LargestNum \in Nat /\ LongestNums \in Nat
  BY LoopsAssumption DEF SN!SortNumAssumption
<1>2. numOrig \in Seq(NumSet)
  <2>1. numOrig \in UNION {[1 .. m -> NumSet] : m \in 0 .. LongestNums}
    BY <1>1 DEF SN!Init, SN!Values, NumSet
  <2> QED BY <1>1, <2>1, BoundedSequences, Zenon
<1>3. PICK n \in Nat : n = Len(numOrig)
  BY <1>2
<1>4. \A p \in 1 .. n : numOrig[p] \in NumSet /\ numOrig[p] \in Int
  BY <1>1, <1>2, <1>3 DEF NumSet
<1>5. numOrig = [p \in 1 .. n |-> numOrig[p]]
  BY <1>2, <1>3
<1>6. numOrig \in Seq(Int) /\ Numbers(numOrig) /\ numArr = numOrig
  <2>1. numOrig \in Seq(Int)
    BY <1>4, <1>5
  <2>2. Numbers(numOrig)
    BY <1>3, <1>4, <2>1 DEF Numbers
  <2>3. numArr = numOrig
    BY DEF SN!Init
  <2> QED BY <2>1, <2>2, <2>3
<1>7. /\ numAlg \in 0 .. 3 /\ numI = 1 /\ temp = <<>> /\ moves = 0
      /\ numK = <<SN!Count(numOrig, SN!Negs), n, 1, 0>>[numAlg + 1]
      /\ numPc = IF numAlg > 0 /\ numOrig = <<>> THEN "done" ELSE "run"
  BY <1>3 DEF SN!Init
<1>8. numOrig = <<>> <=> n = 0
  BY <1>3, <1>6, EmptySeq
<1>9. Turned([p \in 1 .. n |-> p], numAlg, numOrig, numOrig, n)
  BY DEF Turned, Matches, KeepsNegs, KeepsNotNegs
<1>10. \A S : Tally(numOrig, S, n) \in Nat /\ Tally(numOrig, S, 0) = 0
  BY AmountNext, AmountNone DEF Tally
<1>11. CASE numAlg = 0
  <2>1. numK = SN!Count(numOrig, SN!Negs)
    BY <1>7, <1>11
  <2>2. numK = Tally(numOrig, SN!Negs, n) /\ numK \in Nat
    BY <1>3, <1>6, <1>10, <2>1, TallyCount
  <2>3. FirstAt(numArr, numOrig, numI, numK, moves)
    BY <1>3, <1>6, <1>7, <1>10, <2>2 DEF FirstAt
  <2> QED BY <1>3, <1>6, <1>7, <1>9, <1>11, <2>2, <2>3 DEF NumInv, NumAt
<1>12. CASE numAlg = 1
  <2>1. numK = n
    BY <1>7, <1>12
  <2>2. n # 0 => SecondAt(numArr, numI, numK)
    BY <1>3, <1>6, <1>7, <2>1 DEF SecondAt
  <2> QED BY <1>3, <1>6, <1>7, <1>8, <1>9, <1>12, <2>1, <2>2 DEF NumInv, NumAt
<1>13. CASE numAlg = 2
  <2>1. numK = 1
    BY <1>7, <1>13
  <2>2. ThirdAt(numArr, numOrig, numI, numK)
    BY <1>3, <1>6, <1>7, <2>1 DEF ThirdAt
  <2> QED BY <1>3, <1>6, <1>7, <1>8, <1>9, <1>13, <2>1, <2>2 DEF NumInv, NumAt
<1>14. CASE numAlg = 3
  <2>1. numK = 0 /\ temp \in Seq(Int) /\ Len(temp) = 0
    BY <1>7, <1>14
  <2>2. CopiedTo(temp, [p \in 1 .. 0 |-> 0], numOrig, 0, 0, 0)
    BY <2>1 DEF CopiedTo
  <2>3. numI - 1 = 0
    BY <1>7
  <2>4. n = 0 => Parted(numArr)
    BY <1>3, <1>6 DEF Parted
  <2>5. FourthAt(numArr, numOrig, numI, numK, temp, numPc)
    BY <1>3, <1>6, <1>7, <1>8, <1>10, <1>14, <2>1, <2>2, <2>3, <2>4 DEF FourthAt
  <2> QED BY <1>3, <1>6, <1>7, <1>9, <1>14, <2>1, <2>5 DEF NumInv, NumAt
<1> QED BY <1>7, <1>11, <1>12, <1>13, <1>14

(* What is moved stays within the bound.                                   *)
LEMMA MovedNumbers ==
  ASSUME NEW u, NEW s, NEW n \in Nat, n = Len(s), Numbers(s), NEW h, Matches(h, u, 1, n, s, 1, n), u \in Seq(Int), Len(u) = n
  PROVE  Numbers(u)
<1>1. \A p \in 1 .. n : h[p] \in 1 .. n /\ u[p] = s[h[p]]
  BY DEF Matches
<1>2. \A p \in 1 .. n : s[p] \in NumSet
  BY DEF Numbers
<1> QED BY <1>1, <1>2, Zenon DEF Numbers

(* Where the numbers of SortNum go that sends one to the end:              *)
Without(s, a) == SubSeq(s, 1, a - 1) \o SubSeq(s, a + 1, Len(s))
SentToEnd(w, s, a, n) == \A p \in 1 .. n : w[p] = IF p < a THEN s[p] ELSE IF p < n THEN s[p + 1] ELSE s[a]

(* those behind it come one place nearer.                                  *)
LEMMA MovedToEnd ==
  ASSUME NEW s \in Seq(Int), NEW n \in Nat, n = Len(s), NEW a \in 1 .. n
  PROVE  \E w \in Seq(Int) : w = Append(Without(s, a), s[a]) /\ Len(w) = n /\ SentToEnd(w, s, a, n)
<1>1. PICK r \in Seq(Int) : r = PR!RemoveAt(s, a) /\ Len(r) = n - 1 /\ \A q \in 1 .. n - 1 : r[q] = IF q < a THEN s[q] ELSE s[q + 1]
  BY RemovedAt, Zenon
<1>2. Without(s, a) = r
  BY <1>1, Zenon DEF Without, PR!RemoveAt
<1>3. s[a] \in Int
  OBVIOUS
<1>4. Append(r, s[a]) \in Seq(Int) /\ Len(Append(r, s[a])) = n /\ \A p \in 1 .. n : Append(r, s[a])[p] = IF p < n THEN r[p] ELSE s[a]
  BY <1>1, <1>3
<1>5. ASSUME NEW p \in 1 .. n PROVE Append(r, s[a])[p] = IF p < a THEN s[p] ELSE IF p < n THEN s[p + 1] ELSE s[a]
  <2>1. CASE p < n
    <3>1. p \in 1 .. n - 1
      BY <2>1
    <3>2. Append(r, s[a])[p] = r[p]
      BY <1>4, <2>1
    <3>3. r[p] = IF p < a THEN s[p] ELSE s[p + 1]
      BY <1>1, <3>1
    <3> QED BY <2>1, <3>2, <3>3
  <2>2. CASE ~(p < n)
    BY <1>4, <2>2
  <2> QED BY <2>1, <2>2
<1>6. SentToEnd(Append(r, s[a]), s, a, n)
  BY <1>5, Zenon DEF SentToEnd
<1> QED BY <1>2, <1>4, <1>6, Zenon

(* Behind the first a numbers stand c positive ones at the end, and not    *)
(* all the negative ones are in front: one more positive, and the room for *)
(* the next is there.                                                      *)
LEMMA RoomAtEnd ==
  ASSUME NEW s, NEW n \in Nat, NEW a \in 1 .. n, NEW c \in 0 .. n, NEW k \in Nat, a <= k, k = Tally(s, SN!Negs, n),
         \A p \in 1 .. n : s[p] \in NumSet, \A p \in n - c + 1 .. n : s[p] > 0, s[a] > 0
  PROVE  a < n - c + 1 /\ c + 1 <= Tally(s, Positive, n)
<1>0. \A p \in 1 .. n : p \in Int /\ (s[p] \in SN!Negs <=> s[p] < 0) /\ (s[p] \in Positive <=> s[p] > 0)
  BY NegsBelow
<1>14. 1 \in Int /\ n \in Int
  OBVIOUS
<1>1. PICK f : f = Flag(s, SN!Negs)
  OBVIOUS
<1>2. \A p \in 1 .. n : f[p] = IF s[p] < 0 THEN 1 ELSE 0
  BY <1>0, <1>1 DEF Flag
<1>3. k = Amount(1, f, 1, n)
  BY <1>1 DEF Tally
<1>4. ASSUME ~(a < n - c + 1) PROVE FALSE
  <2>1. PICK b \in Int : b = a - 1
    OBVIOUS
  <2>2. Amount(1, f, 1, n) = Amount(1, f, 1, b) + Amount(1, f, a, n)
    BY <2>1, AmountSplit
  <2>3. \A p \in a .. n : f[p] = 0
    <3> SUFFICES ASSUME NEW p \in a .. n PROVE f[p] = 0
      OBVIOUS
    <3>1. p \in 1 .. n /\ p \in n - c + 1 .. n
      BY <1>4
    <3> QED BY <1>2, <1>0, <3>1 DEF NumSet
  <2>4. \A p \in a .. n : f[p] # 1
    BY <2>3
  <2>5. {p \in a .. n : f[p] = 1} = {}
    BY <2>4
  <2>6. Amount(1, f, a, n) = 0
    BY <2>5, FS_EmptySet, Zenon DEF Amount
  <2>7. Amount(1, f, 1, b) <= b
    BY <2>1, AmountBound
  <2>8. Amount(1, f, 1, b) \in Nat
    BY <2>1, <1>14, AmountType, Zenon
  <2> QED BY <1>3, <2>1, <2>2, <2>6, <2>7, <2>8
<1>5. PICK g : g = Flag(s, Positive)
  OBVIOUS
<1>6. \A p \in 1 .. n : g[p] = IF s[p] > 0 THEN 1 ELSE 0
  BY <1>0, <1>5 DEF Flag
<1>7. PICK b \in Int, d \in Int : b = n - c /\ d = n - c + 1
  OBVIOUS
<1>8. Amount(1, g, 1, n) = Amount(1, g, 1, b) + Amount(1, g, d, n)
  BY <1>7, AmountSplit
<1>9. \A p \in d .. n : g[p] = 1
  <2> SUFFICES ASSUME NEW p \in d .. n PROVE g[p] = 1
    OBVIOUS
  <2>1. p \in 1 .. n /\ s[p] > 0
    BY <1>7
  <2> QED BY <1>6, <2>1
<1>10. Amount(1, g, d, n) = c
  BY <1>7, <1>9, AmountBound
<1>11. a \in 1 .. b /\ g[a] = 1
  BY <1>4, <1>6, <1>7
<1>12. Amount(1, g, 1, b) >= 1 /\ Amount(1, g, 1, b) \in Nat
  BY <1>7, <1>11, <1>14, AmountSome, AmountType, Zenon
<1>13. Tally(s, Positive, n) = Amount(1, g, 1, n)
  BY <1>5 DEF Tally
<1> QED BY <1>4, <1>8, <1>10, <1>12, <1>13

(* SortNum sends a positive number to the end.                             *)
LEMMA ToEndKeeps ==
  ASSUME NEW t, NEW s, NEW a, NEW k, NEW u, NEW c, NumAt(0, t, s, a, k, u, c, "run"), a <= Len(s), a <= k, s[a] > 0
  PROVE  NumAt(0, t, Append(Without(s, a), s[a]), a, k, u, c + 1, "run")
<1>1. PICK n \in Nat : n = Len(s)
  BY DEF NumAt, Numbers
<1>2. /\ Numbers(t) /\ Numbers(s) /\ Len(t) = n /\ a \in 1 .. n /\ k \in Nat /\ c \in Nat
      /\ FirstAt(s, t, a, k, c) /\ s \in Seq(Int)
  BY <1>1 DEF NumAt, Numbers
<1>3. PICK m : Turned(m, 0, s, t, n)
  BY <1>2 DEF NumAt
<1>20. PICK w \in Seq(Int) : w = Append(Without(s, a), s[a]) /\ Len(w) = n /\ SentToEnd(w, s, a, n)
  <2>1. s \in Seq(Int) /\ n = Len(s) /\ a \in 1 .. n
    BY <1>1, <1>2
  <2> QED BY <2>1, MovedToEnd, Zenon
<1>4. /\ w = Append(Without(s, a), s[a]) /\ Len(w) = n
      /\ \A p \in 1 .. n : w[p] = IF p < a THEN s[p] ELSE IF p < n THEN s[p + 1] ELSE s[a]
  BY <1>20 DEF SentToEnd
<1> DEFINE h == [p \in 1 .. n |-> IF p < a THEN p ELSE IF p < n THEN p + 1 ELSE a]
<1>5. /\ h \in [1 .. n -> 1 .. n] /\ \A p \in 1 .. n : w[p] = s[h[p]]
      /\ \A p, q \in 1 .. n : p # q => h[p] # h[q]
  <2>1. a \in 1 .. n
    BY <1>2
  <2>2. h \in [1 .. n -> 1 .. n]
    BY <2>1
  <2>3. \A p \in 1 .. n : w[p] = s[h[p]]
    BY <1>4
  <2>4. \A p, q \in 1 .. n : p # q => h[p] # h[q]
    BY <2>1
  <2> QED BY <2>2, <2>3, <2>4
<1>6. ASSUME NEW r \in 1 .. n PROVE \E p \in 1 .. n : h[p] = r
  <2>1. CASE r < a
    BY <1>2, <2>1
  <2>2. CASE r = a
    <3>1. n \in 1 .. n /\ h[n] = r
      BY <1>2, <2>2
    <3> QED BY <3>1
  <2>3. CASE r > a
    <3>1. r - 1 \in 1 .. n /\ h[r - 1] = r
      BY <1>2, <2>3
    <3> QED BY <3>1
  <2> QED BY <1>2, <2>1, <2>2, <2>3
<1>7. KeepsNegs(h, w, n)
  <2> SUFFICES ASSUME NEW p \in 1 .. n, NEW q \in 1 .. n, p < q, w[p] < 0, w[q] < 0 PROVE h[p] < h[q]
    BY DEF KeepsNegs
  <2>1. CASE q < n
    <3>1. a \in 1 .. n
      BY <1>2
    <3> QED BY <2>1, <3>1
  <2>2. CASE ~(q < n)
    <3>1. w[q] = s[a] /\ s[a] \in Int
      BY <1>2, <1>4, <2>2
    <3> QED BY <3>1
  <2> QED BY <2>1, <2>2
<1> HIDE DEF h
<1>8. Matches(h, w, 1, n, s, 1, n)
  BY <1>5, <1>6, Zenon DEF Matches
<1>9. \E z : Turned(z, 0, w, t, n)
  <2>1. 0 \in Nat /\ ~(0 > 1)
    OBVIOUS
  <2> QED BY <1>3, <1>7, <1>8, <2>1, TurnAgain, Zenon
<1>10. Numbers(w)
  <2>1. Numbers(s) /\ Len(w) = n
    BY <1>2, <1>4
  <2> QED BY <1>1, <1>8, <2>1, MovedNumbers, Zenon
<1>11. Tally(s, SN!Negs, n) = Tally(t, SN!Negs, n) /\ Tally(s, Positive, n) = Tally(t, Positive, n)
  <2>1. Matches(m, s, 1, n, t, 1, n)
    BY <1>3, Zenon DEF Turned
  <2> QED BY <2>1, TallyMoved, SMT
<1>12. /\ c \in 0 .. n /\ k = Tally(s, SN!Negs, n) /\ \A p \in n - c + 1 .. n : s[p] > 0
       /\ \A p \in 1 .. n : s[p] \in NumSet
       /\ \A p \in 1 .. a - 1 : s[p] <= 0
  BY <1>1, <1>2, <1>11 DEF FirstAt, Numbers
<1>13. a < n - c + 1 /\ c + 1 <= Tally(s, Positive, n)
  BY <1>2, <1>12, RoomAtEnd
<1>14. \A p \in n - (c + 1) + 1 .. n : w[p] > 0
  <2> SUFFICES ASSUME NEW p \in n - (c + 1) + 1 .. n PROVE w[p] > 0
    OBVIOUS
  <2>1. p \in 1 .. n /\ ~(p < a)
    BY <1>2, <1>12, <1>13
  <2>2. CASE p < n
    <3>1. w[p] = s[p + 1]
      BY <1>4, <2>1, <2>2
    <3>2. p + 1 \in n - c + 1 .. n
      BY <1>2, <2>2
    <3> QED BY <1>12, <3>1, <3>2
  <2>3. CASE ~(p < n)
    <3>1. w[p] = s[a]
      BY <1>4, <2>1, <2>3
    <3> QED BY <3>1
  <2> QED BY <2>2, <2>3
<1>15. \A p \in 1 .. a - 1 : w[p] <= 0
  <2> SUFFICES ASSUME NEW p \in 1 .. a - 1 PROVE w[p] <= 0
    OBVIOUS
  <2>1. p \in 1 .. n /\ p < a
    BY <1>2
  <2>2. w[p] = s[p]
    BY <1>4, <2>1
  <2> QED BY <1>12, <2>2
<1>16. FirstAt(w, t, a, k, c + 1)
  <2>1. /\ k = Tally(t, SN!Negs, Len(w)) /\ a <= k + 1 /\ a <= Len(w) + 1 /\ c + 1 <= Len(w)
        /\ c + 1 <= Tally(t, Positive, Len(w))
    BY <1>2, <1>4, <1>11, <1>12, <1>13
  <2>2. \A p \in Len(w) - (c + 1) + 1 .. Len(w) : w[p] > 0
    BY <1>4, <1>14
  <2> QED BY <1>15, <2>1, <2>2, Zenon DEF FirstAt
<1>17. NumAt(0, t, w, a, k, u, c + 1, "run")
  BY <1>2, <1>4, <1>9, <1>10, <1>16 DEF NumAt
<1> QED BY <1>4, <1>17

(* SortNum steps over a number that is not positive, or ends.              *)
LEMMA StepOnKeeps ==
  ASSUME NEW t, NEW s, NEW a, NEW k, NEW u, NEW c, NumAt(0, t, s, a, k, u, c, "run")
  PROVE  /\ a <= Len(s) /\ a <= k /\ s[a] <= 0 => NumAt(0, t, s, a + 1, k, u, c, "run")
         /\ a > Len(s) \/ a > k => NumAt(0, t, s, a, k, u, c, "done")
<1>1. PICK n \in Nat : n = Len(s)
  BY DEF NumAt, Numbers
<1>2. /\ Numbers(t) /\ Numbers(s) /\ Len(t) = n /\ a \in Nat /\ a >= 1 /\ k \in Nat /\ c \in Nat
      /\ FirstAt(s, t, a, k, c) /\ \E m : Turned(m, 0, s, t, n)
  BY <1>1 DEF NumAt
<1>3. ASSUME a <= n, a <= k, s[a] <= 0 PROVE FirstAt(s, t, a + 1, k, c)
  BY <1>1, <1>2, <1>3 DEF FirstAt
<1>4. ASSUME a <= n, a <= k, s[a] <= 0 PROVE NumAt(0, t, s, a + 1, k, u, c, "run")
  BY <1>1, <1>2, <1>3, <1>4 DEF NumAt
<1>5. ASSUME a > n \/ a > k PROVE NumAt(0, t, s, a, k, u, c, "done")
  BY <1>1, <1>2, <1>5 DEF NumAt
<1> QED BY <1>1, <1>4, <1>5

(* SortNum1 exchanges what its two runs have come to.                      *)
LEMMA SwapKeeps ==
  ASSUME NEW t, NEW s, NEW a, NEW k, NEW u, NEW c, NumAt(1, t, s, a, k, u, c, "run"), a < k,
         NEW l \in a .. k, NEW r \in a .. k, SN!RunIn(s, a, k, l, r)
  PROVE  NumAt(1, t, SN!Swap(s, l, r), l, r, u, c, "run")
<1>1. PICK n \in Nat : n = Len(s)
  BY DEF NumAt, Numbers
<1>2. /\ Numbers(t) /\ Numbers(s) /\ Len(t) = n /\ a \in Nat /\ a >= 1 /\ k \in Nat /\ c = 0
      /\ s \in Seq(Int) /\ n # 0 /\ SecondAt(s, a, k)
  BY <1>1 DEF NumAt, Numbers
<1>3. PICK m : Turned(m, 1, s, t, n)
  BY <1>2 DEF NumAt
<1>4. PICK w : w = SN!Swap(s, l, r)
  OBVIOUS
<1>5. /\ k <= n /\ (\A p \in 1 .. a - 1 : s[p] < 0) /\ (\A p \in k + 1 .. n : s[p] > 0)
  BY <1>1, <1>2 DEF SecondAt
<1>6. l \in 1 .. n /\ r \in 1 .. n /\ DOMAIN s = 1 .. n
  BY <1>1, <1>2, <1>5
<1>7. /\ w \in Seq(Int) /\ Len(w) = n
      /\ \A p \in 1 .. n : w[p] = IF p = r THEN s[l] ELSE IF p = l THEN s[r] ELSE s[p]
  BY <1>1, <1>2, <1>4, <1>6 DEF SN!Swap
<1> DEFINE h == [p \in 1 .. n |-> IF p = r THEN l ELSE IF p = l THEN r ELSE p]
<1>8. /\ h \in [1 .. n -> 1 .. n] /\ \A p \in 1 .. n : w[p] = s[h[p]]
      /\ \A p, q \in 1 .. n : p # q => h[p] # h[q]
  BY <1>6, <1>7
<1>9. ASSUME NEW z \in 1 .. n PROVE \E p \in 1 .. n : h[p] = z
  <2>1. h[z] \in 1 .. n /\ h[h[z]] = z
    BY <1>6
  <2> QED BY <2>1
<1> HIDE DEF h
<1>10. Matches(h, w, 1, n, s, 1, n)
  BY <1>8, <1>9, Zenon DEF Matches
<1>11. \E z : Turned(z, 1, w, t, n)
  <2>1. 1 \in Nat /\ ~(1 > 1)
    OBVIOUS
  <2> QED BY <1>3, <1>10, <2>1, TurnAgain, Zenon
<1>12. Numbers(w)
  BY <1>1, <1>2, <1>7, <1>10, MovedNumbers, Zenon
<1>13. /\ l <= r /\ \A p \in a .. l - 1 : s[p] < 0
       /\ \A p \in r + 1 .. k : s[p] > 0
  BY <1>2 DEF SN!RunIn
<1>14. ASSUME NEW p \in 1 .. l - 1 PROVE w[p] < 0
  <2>1. p \in 1 .. n /\ w[p] = s[p]
    BY <1>6, <1>7, <1>13
  <2>2. p \in 1 .. a - 1 \/ p \in a .. l - 1
    BY <1>2
  <2> QED BY <1>5, <1>13, <2>1, <2>2
<1>15. ASSUME NEW p \in r + 1 .. n PROVE w[p] > 0
  <2>1. p \in 1 .. n /\ w[p] = s[p]
    BY <1>6, <1>7, <1>13
  <2>2. p \in r + 1 .. k \/ p \in k + 1 .. n
    BY <1>2
  <2> QED BY <1>5, <1>13, <2>1, <2>2
<1>16. SecondAt(w, l, r)
  BY <1>6, <1>7, <1>13, <1>14, <1>15 DEF SecondAt
<1>17. NumAt(1, t, w, l, r, u, c, "run")
  BY <1>2, <1>6, <1>7, <1>11, <1>12, <1>16 DEF NumAt
<1> QED BY <1>4, <1>17

(* SortNum1 ends where its indices meet.                                   *)
LEMMA MetKeeps ==
  ASSUME NEW t, NEW s, NEW a, NEW k, NEW u, NEW c, NumAt(1, t, s, a, k, u, c, "run"), a >= k
  PROVE  NumAt(1, t, s, a, k, u, c, "done")
<1>1. PICK n \in Nat : n = Len(s)
  BY DEF NumAt, Numbers
<1>2. /\ Numbers(t) /\ Numbers(s) /\ Len(t) = n /\ a \in Nat /\ a >= 1 /\ k \in Nat /\ c = 0
      /\ SecondAt(s, a, k) /\ \E m : Turned(m, 1, s, t, n)
  BY <1>1 DEF NumAt
<1>3. a = k
  BY <1>2 DEF SecondAt
<1> QED BY <1>1, <1>2, <1>3 DEF NumAt

(* SortNum2 carries a negative number back over the others.                *)
LEMMA CarryKeeps ==
  ASSUME NEW t, NEW s, NEW a, NEW k, NEW u, NEW c, NumAt(2, t, s, a, k, u, c, "run"), a <= Len(s), s[a] < 0
  PROVE  NumAt(2, t, SN!Carry(s, k, a), a + 1, k + 1, u, c, "run")
<1>1. PICK n \in Nat : n = Len(s)
  BY DEF NumAt, Numbers
<1>2. /\ Numbers(t) /\ Numbers(s) /\ Len(t) = n /\ a \in 1 .. n /\ k \in Nat /\ c = 0
      /\ s \in Seq(Int) /\ ThirdAt(s, t, a, k)
  BY <1>1 DEF NumAt, Numbers
<1>3. PICK m : Turned(m, 2, s, t, n)
  BY <1>2 DEF NumAt
<1>4. PICK w : w = SN!Carry(s, k, a)
  OBVIOUS
<1>5. /\ k \in 1 .. a /\ (\A p \in 1 .. a - 1 : s[p] < 0 <=> p < k) /\ (\A p \in a .. n : s[p] = t[p])
  BY <1>1, <1>2 DEF ThirdAt
<1>6. DOMAIN s = 1 .. n /\ \A p \in 1 .. n : s[p] \in Int
  BY <1>1, <1>2
<1>7. /\ w = [p \in 1 .. n |-> IF p = k THEN s[a] ELSE IF p \in k + 1 .. a THEN s[p - 1] ELSE s[p]]
  BY <1>4, <1>6, Zenon DEF SN!Carry
<1>8. \A p \in 1 .. n : w[p] = (IF p = k THEN s[a] ELSE IF p \in k + 1 .. a THEN s[p - 1] ELSE s[p]) /\ w[p] \in Int
  BY <1>2, <1>5, <1>6, <1>7
<1>9. w \in Seq(Int) /\ Len(w) = n
  BY <1>7, <1>8
<1> DEFINE h == [p \in 1 .. n |-> IF p = k THEN a ELSE IF p \in k + 1 .. a THEN p - 1 ELSE p]
<1>10. /\ h \in [1 .. n -> 1 .. n] /\ \A p \in 1 .. n : w[p] = s[h[p]]
       /\ \A p, q \in 1 .. n : p # q => h[p] # h[q]
  <2>1. a \in 1 .. n /\ k \in 1 .. a
    BY <1>2, <1>5
  <2>2. h \in [1 .. n -> 1 .. n]
    BY <2>1
  <2>3. \A p \in 1 .. n : w[p] = s[h[p]]
    BY <1>8
  <2>4. \A p, q \in 1 .. n : p # q => h[p] # h[q]
    BY <2>1
  <2> QED BY <2>2, <2>3, <2>4
<1>11. ASSUME NEW z \in 1 .. n PROVE \E p \in 1 .. n : h[p] = z
  <2>1. CASE z = a
    <3>1. k \in 1 .. n /\ h[k] = z
      BY <1>2, <1>5, <2>1
    <3> QED BY <3>1
  <2>2. CASE z \in k .. a - 1
    <3>1. z + 1 \in 1 .. n /\ h[z + 1] = z
      BY <1>2, <1>5, <2>2
    <3> QED BY <3>1
  <2>3. CASE z < k \/ z > a
    <3>1. h[z] = z
      BY <1>2, <1>5, <2>3
    <3> QED BY <3>1
  <2> QED BY <1>2, <1>5, <2>1, <2>2, <2>3
<1>12. ASSUME NEW p \in 1 .. a PROVE w[p] < 0 <=> p < k + 1
  <2>1. CASE p < k
    <3>1. w[p] = s[p]
      BY <1>2, <1>5, <1>8, <2>1
    <3>2. p \in 1 .. a - 1
      BY <1>2, <1>5, <2>1
    <3> QED BY <1>5, <2>1, <3>1, <3>2
  <2>2. CASE p = k
    <3>1. w[p] = s[a]
      BY <1>2, <1>5, <1>8, <2>2
    <3> QED BY <1>5, <2>2, <3>1
  <2>3. CASE p > k
    <3>1. w[p] = s[p - 1]
      BY <1>2, <1>5, <1>8, <2>3
    <3>2. p - 1 \in 1 .. a - 1 /\ ~(p - 1 < k)
      BY <1>2, <1>5, <2>3
    <3> QED BY <1>5, <2>3, <3>1, <3>2
  <2> QED BY <1>5, <2>1, <2>2, <2>3
<1>13. KeepsNegs(h, w, n)
  <2> SUFFICES ASSUME NEW p \in 1 .. n, NEW q \in 1 .. n, p < q, w[p] < 0, w[q] < 0 PROVE h[p] < h[q]
    BY DEF KeepsNegs
  <2>1. q <= k \/ q > a
    BY <1>2, <1>12
  <2>2. CASE q <= k
    BY <1>2, <1>5, <2>2
  <2>3. CASE q > a
    BY <1>2, <1>5, <2>3
  <2> QED BY <2>1, <2>2, <2>3
<1>14. KeepsNotNegs(h, w, n)
  <2> SUFFICES ASSUME NEW p \in 1 .. n, NEW q \in 1 .. n, p < q, ~(w[p] < 0), ~(w[q] < 0) PROVE h[p] < h[q]
    BY DEF KeepsNotNegs
  <2>1. p > k
    BY <1>2, <1>5, <1>12
  <2> QED BY <1>2, <1>5, <2>1
<1> HIDE DEF h
<1>15. Matches(h, w, 1, n, s, 1, n)
  BY <1>10, <1>11, Zenon DEF Matches
<1>16. \E z : Turned(z, 2, w, t, n)
  <2>1. 2 \in Nat
    OBVIOUS
  <2> QED BY <1>3, <1>13, <1>14, <1>15, <2>1, TurnAgain, Zenon
<1>17. Numbers(w)
  BY <1>1, <1>2, <1>9, <1>15, MovedNumbers, Zenon
<1>18. \A p \in a + 1 .. n : w[p] = t[p]
  BY <1>2, <1>5, <1>8
<1>19. ThirdAt(w, t, a + 1, k + 1)
  <2>1. \A p \in 1 .. a + 1 - 1 : w[p] < 0 <=> p < k + 1
    BY <1>2, <1>12
  <2> QED BY <1>2, <1>5, <1>9, <1>18, <2>1 DEF ThirdAt
<1>21. NumAt(2, t, w, a + 1, k + 1, u, c, "run")
  BY <1>2, <1>5, <1>9, <1>16, <1>17, <1>19 DEF NumAt
<1> QED BY <1>4, <1>21

(* SortNum2 passes one that is not negative, or ends.                      *)
LEMMA PassKeeps ==
  ASSUME NEW t, NEW s, NEW a, NEW k, NEW u, NEW c, NumAt(2, t, s, a, k, u, c, "run")
  PROVE  /\ a <= Len(s) /\ ~(s[a] < 0) => NumAt(2, t, s, a + 1, k, u, c, "run")
         /\ a > Len(s) => NumAt(2, t, s, a, k, u, c, "done")
<1>1. PICK n \in Nat : n = Len(s)
  BY DEF NumAt, Numbers
<1>2. /\ Numbers(t) /\ Numbers(s) /\ Len(t) = n /\ a \in Nat /\ a >= 1 /\ k \in Nat /\ c = 0
      /\ ThirdAt(s, t, a, k) /\ \E m : Turned(m, 2, s, t, n)
  BY <1>1 DEF NumAt
<1>3. ASSUME a <= n, ~(s[a] < 0) PROVE ThirdAt(s, t, a + 1, k)
  <2>1. /\ k >= 1 /\ k <= a /\ a <= n + 1
        /\ \A p \in 1 .. a - 1 : s[p] < 0 <=> p < k
        /\ \A p \in a .. n : s[p] = t[p]
    BY <1>1, <1>2 DEF ThirdAt
  <2>2. \A p \in 1 .. a + 1 - 1 : s[p] < 0 <=> p < k
    BY <1>2, <1>3, <2>1
  <2>3. \A p \in a + 1 .. n : s[p] = t[p]
    BY <1>2, <2>1
  <2> QED BY <1>1, <1>2, <1>3, <2>1, <2>2, <2>3 DEF ThirdAt
<1>4. ASSUME a <= n, ~(s[a] < 0) PROVE NumAt(2, t, s, a + 1, k, u, c, "run")
  BY <1>1, <1>2, <1>3, <1>4 DEF NumAt
<1>5. ASSUME a > n PROVE NumAt(2, t, s, a, k, u, c, "done")
  <2>1. a = n + 1
    BY <1>1, <1>2, <1>5 DEF ThirdAt
  <2> QED BY <1>1, <1>2, <1>5, <2>1 DEF NumAt
<1> QED BY <1>1, <1>4, <1>5

(* In the first loop of SortNum3 nothing but negative numbers is copied.   *)
CopiedNegs(u, f, t, a, k) == k = Len(u) /\ CopiedTo(u, f, t, a, 0, k)

(* One more number copied: it came from behind all those of its part.      *)
LEMMA CopyBelow ==
  ASSUME NEW u, NEW f, NEW t, NEW a \in Nat, NEW k \in Nat, NEW n \in Nat, a + 1 <= n, t \in Seq(Int), n = Len(t),
         CopiedNegs(u, f, t, a, k)
  PROVE  /\ t[a + 1] < 0 => \E z : CopiedNegs(Append(u, t[a + 1]), z, t, a + 1, k + 1)
         /\ ~(t[a + 1] < 0) => CopiedNegs(u, f, t, a + 1, k)
<1>2. /\ u \in Seq(Int) /\ f \in [1 .. k -> 1 .. n]
      /\ \A p \in 1 .. k : u[p] = t[f[p]]
      /\ \A p \in 1 .. k : u[p] < 0 /\ f[p] <= a
      /\ \A p, q \in 1 .. k : p < q => f[p] < f[q]
      /\ \A r \in 1 .. a : t[r] < 0 => \E p \in 1 .. k : f[p] = r
  BY DEF CopiedTo, CopiedNegs
<1>1. k = Len(u)
  BY DEF CopiedNegs
<1>3. PICK b \in Nat, l \in Nat : b = a + 1 /\ l = k + 1
  OBVIOUS
<1>4. b \in 1 .. n /\ t[b] \in Int
  BY <1>3
<1>5. ASSUME t[b] < 0 PROVE \E z : CopiedNegs(Append(u, t[b]), z, t, b, l)
  <2> DEFINE z == [p \in 1 .. l |-> IF p = l THEN b ELSE f[p]]
  <2>1. PICK w \in Seq(Int) : /\ w = Append(u, t[b]) /\ Len(w) = l
                              /\ \A p \in 1 .. l : w[p] = IF p = l THEN t[b] ELSE u[p]
    <3>1. Append(u, t[b]) \in Seq(Int) /\ Len(Append(u, t[b])) = k + 1
      BY <1>1, <1>2, <1>4
    <3>2. \A p \in 1 .. k + 1 : Append(u, t[b])[p] = IF p = k + 1 THEN t[b] ELSE u[p]
      BY <1>1, <1>2, <1>4
    <3> QED BY <1>3, <3>1, <3>2
  <2>0. (\A p \in 1 .. l : p = l \/ p \in 1 .. k) /\ l \in 1 .. l /\ \A p \in 1 .. k : p # l /\ p \in 1 .. l
    BY <1>3
  <2>2. z \in [1 .. l -> 1 .. n]
    BY <1>2, <1>4, <2>0
  <2>3. \A p \in 1 .. k : z[p] = f[p] /\ w[p] = u[p] /\ f[p] \in 1 .. n /\ f[p] <= a /\ u[p] < 0 /\ u[p] = t[f[p]]
    BY <1>2, <2>0, <2>1
  <2>7. z[l] = b /\ w[l] = t[b]
    BY <2>0, <2>1
  <2> HIDE DEF z
  <2>8. \A p \in 1 .. l : w[p] = t[z[p]] /\ w[p] < 0 /\ z[p] <= b
    <3> SUFFICES ASSUME NEW p \in 1 .. l PROVE w[p] = t[z[p]] /\ w[p] < 0 /\ z[p] <= b
      OBVIOUS
    <3>1. CASE p = l
      BY <1>3, <1>5, <2>7, <3>1
    <3>2. CASE p # l
      <4>1. p \in 1 .. k
        BY <2>0, <3>2
      <4>2. w[p] = t[z[p]] /\ w[p] < 0 /\ z[p] <= a /\ z[p] \in 1 .. n
        BY <2>3, <4>1
      <4> QED BY <1>3, <4>2
    <3> QED BY <3>1, <3>2
  <2>4. \A p, q \in 1 .. l : p < q => z[p] < z[q]
    <3> SUFFICES ASSUME NEW p \in 1 .. l, NEW q \in 1 .. l, p < q PROVE z[p] < z[q]
      OBVIOUS
    <3>1. p \in 1 .. k
      BY <1>3
    <3>2. CASE q = l
      <4>1. z[p] <= a /\ z[p] \in 1 .. n /\ z[q] = b
        BY <2>3, <2>7, <3>1, <3>2
      <4> QED BY <1>3, <4>1
    <3>3. CASE q # l
      <4>1. q \in 1 .. k
        BY <2>0, <3>3
      <4> QED BY <1>2, <2>3, <3>1, <4>1
    <3> QED BY <3>2, <3>3
  <2>5. ASSUME NEW r \in 1 .. b, t[r] < 0 PROVE \E p \in 1 .. l : z[p] = r
    <3>1. CASE r = b
      BY <2>0, <2>7, <3>1
    <3>2. CASE r # b
      <4>1. r \in 1 .. a
        BY <1>3, <3>2
      <4>2. PICK p \in 1 .. k : f[p] = r
        BY <1>2, <2>5, <4>1
      <4>3. p \in 1 .. l /\ z[p] = r
        BY <2>0, <2>3, <4>2
      <4> QED BY <4>3
    <3> QED BY <3>1, <3>2
  <2>6. CopiedNegs(w, z, t, b, l)
    <3>1. /\ \A p \in 1 .. l : w[p] < 0 /\ z[p] <= b
          /\ \A r \in 1 .. b : t[r] < 0 => \E p \in 1 .. l : z[p] = r
      BY <2>8, <2>5, Zenon
    <3>2. l <= l /\ l + 1 .. l = {} /\ 1 .. 0 = {}
      BY <1>3
    <3>3. CopiedTo(w, z, t, b, 0, l)
      BY <1>1, <2>1, <2>2, <2>8, <2>4, <3>1, <3>2 DEF CopiedTo
    <3> QED BY <2>1, <3>3 DEF CopiedNegs
  <2> QED BY <2>1, <2>6
<1>6. ASSUME ~(t[b] < 0) PROVE CopiedNegs(u, f, t, b, k)
  <2>1. \A p \in 1 .. k : u[p] < 0 /\ f[p] <= b
    BY <1>2, <1>3
  <2>2. ASSUME NEW r \in 1 .. b, t[r] < 0 PROVE \E p \in 1 .. k : f[p] = r
    <3>1. r \in 1 .. a
      BY <1>3, <1>6, <2>2
    <3> QED BY <1>2, <2>2, <3>1
  <2> QED BY <1>1, <1>2, <2>1, <2>2 DEF CopiedTo, CopiedNegs
<1> QED BY <1>3, <1>5, <1>6

(* One more of the others: it goes behind those already copied.            *)
LEMMA CopyOther ==
  ASSUME NEW u, NEW f, NEW t, NEW a \in Nat, NEW k \in Nat, NEW n \in Nat, a + 1 <= n, t \in Seq(Int), n = Len(t),
         CopiedTo(u, f, t, n, a, k)
  PROVE  /\ ~(t[a + 1] < 0) => \E z : CopiedTo(Append(u, t[a + 1]), z, t, n, a + 1, k)
         /\ t[a + 1] < 0 => CopiedTo(u, f, t, n, a + 1, k)
<1>1. PICK e \in Nat : e = Len(u) /\ k <= e
  BY DEF CopiedTo
<1>2. /\ u \in Seq(Int) /\ f \in [1 .. e -> 1 .. n]
      /\ \A p \in 1 .. e : u[p] = t[f[p]]
      /\ \A p \in 1 .. k : u[p] < 0 /\ f[p] <= n
      /\ \A p \in k + 1 .. e : ~(u[p] < 0) /\ f[p] <= a
      /\ \A p, q \in 1 .. k : p < q => f[p] < f[q]
      /\ \A p, q \in k + 1 .. e : p < q => f[p] < f[q]
      /\ \A r \in 1 .. n : t[r] < 0 => \E p \in 1 .. k : f[p] = r
      /\ \A r \in 1 .. a : ~(t[r] < 0) => \E p \in k + 1 .. e : f[p] = r
  BY <1>1 DEF CopiedTo
<1>3. PICK b \in Nat, l \in Nat : b = a + 1 /\ l = e + 1
  BY <1>1
<1>4. b \in 1 .. n /\ t[b] \in Int
  BY <1>3
<1>5. ASSUME ~(t[b] < 0) PROVE \E z : CopiedTo(Append(u, t[b]), z, t, n, b, k)
  <2> DEFINE z == [p \in 1 .. l |-> IF p = l THEN b ELSE f[p]]
  <2>1. PICK w \in Seq(Int) : /\ w = Append(u, t[b]) /\ Len(w) = l
                              /\ \A p \in 1 .. l : w[p] = IF p = l THEN t[b] ELSE u[p]
    <3>1. Append(u, t[b]) \in Seq(Int) /\ Len(Append(u, t[b])) = e + 1
      BY <1>1, <1>2, <1>4
    <3>2. \A p \in 1 .. e + 1 : Append(u, t[b])[p] = IF p = e + 1 THEN t[b] ELSE u[p]
      BY <1>1, <1>2, <1>4
    <3> QED BY <1>3, <3>1, <3>2
  <2>0. /\ \A p \in 1 .. l : p = l \/ p \in 1 .. e
        /\ l \in 1 .. l /\ \A p \in 1 .. e : p # l /\ p \in 1 .. l
    BY <1>1, <1>3
  <2>12. z \in [1 .. l -> 1 .. n]
    BY <1>2, <1>4, <2>0
  <2>13. \A p \in 1 .. e : z[p] = f[p] /\ w[p] = u[p] /\ f[p] \in 1 .. n /\ u[p] = t[f[p]]
    BY <1>2, <2>0, <2>1
  <2>14. z[l] = b /\ w[l] = t[b]
    BY <2>0, <2>1
  <2> HIDE DEF z
  <2>2. z \in [1 .. l -> 1 .. n] /\ (\A p \in 1 .. e : z[p] = f[p] /\ w[p] = u[p]) /\ z[l] = b /\ w[l] = t[b]
    BY <2>12, <2>13, <2>14
  <2>3. \A p \in 1 .. l : w[p] = t[z[p]]
    BY <2>0, <2>13, <2>14
  <2>15. \A p \in 1 .. k : p \in 1 .. e
    BY <1>1
  <2>4. \A p \in 1 .. k : w[p] < 0 /\ z[p] <= n
    BY <1>2, <2>13, <2>15
  <2>5. \A p \in k + 1 .. l : ~(w[p] < 0) /\ z[p] <= b
    <3> SUFFICES ASSUME NEW p \in k + 1 .. l PROVE ~(w[p] < 0) /\ z[p] <= b
      OBVIOUS
    <3>1. CASE p = l
      BY <1>3, <1>5, <2>2, <3>1
    <3>2. CASE p # l
      <4>1. p \in k + 1 .. e /\ p \in 1 .. e
        BY <1>3, <3>2
      <4>2. w[p] = u[p] /\ z[p] = f[p] /\ f[p] \in 1 .. n
        BY <1>2, <2>2, <4>1
      <4>3. ~(u[p] < 0) /\ f[p] <= a
        BY <1>2, <4>1
      <4> QED BY <1>3, <4>2, <4>3
    <3> QED BY <3>1, <3>2
  <2>6. \A p, q \in 1 .. k : p < q => z[p] < z[q]
    BY <1>2, <2>13, <2>15
  <2>7. \A p, q \in k + 1 .. l : p < q => z[p] < z[q]
    <3> SUFFICES ASSUME NEW p \in k + 1 .. l, NEW q \in k + 1 .. l, p < q PROVE z[p] < z[q]
      OBVIOUS
    <3>1. p \in k + 1 .. e /\ p \in 1 .. e
      BY <1>3
    <3>2. z[p] = f[p] /\ f[p] \in 1 .. n /\ f[p] <= a
      BY <1>2, <2>2, <3>1
    <3>3. CASE q = l
      BY <1>3, <2>2, <3>2, <3>3
    <3>4. CASE q # l
      <4>1. q \in k + 1 .. e /\ q \in 1 .. e
        BY <1>3, <3>4
      <4>2. z[q] = f[q] /\ f[p] < f[q]
        BY <1>2, <2>2, <3>1, <4>1
      <4> QED BY <3>2, <4>2
    <3> QED BY <3>3, <3>4
  <2>8. \A r \in 1 .. n : t[r] < 0 => \E p \in 1 .. k : z[p] = r
    <3> SUFFICES ASSUME NEW r \in 1 .. n, t[r] < 0 PROVE \E p \in 1 .. k : z[p] = r
      OBVIOUS
    <3>1. PICK p \in 1 .. k : f[p] = r
      BY <1>2
    <3>2. p \in 1 .. e
      BY <1>1
    <3> QED BY <2>2, <3>1, <3>2
  <2>9. ASSUME NEW r \in 1 .. b, ~(t[r] < 0) PROVE \E p \in k + 1 .. l : z[p] = r
    <3>1. CASE r = b
      <4>1. l \in k + 1 .. l
        BY <1>1, <1>3
      <4> QED BY <2>2, <3>1, <4>1
    <3>2. CASE r # b
      <4>1. r \in 1 .. a
        BY <1>3, <3>2
      <4>2. PICK p \in k + 1 .. e : f[p] = r
        BY <1>2, <2>9, <4>1
      <4>3. p \in k + 1 .. l /\ p \in 1 .. e
        BY <1>3, <4>2
      <4> QED BY <2>2, <4>2, <4>3
    <3> QED BY <3>1, <3>2
  <2>11. k <= l
    BY <1>1, <1>3
  <2>10. CopiedTo(w, z, t, n, b, k)
    BY <2>1, <2>2, <2>3, <2>4, <2>5, <2>6, <2>7, <2>8, <2>9, <2>11 DEF CopiedTo
  <2> QED BY <2>1, <2>10
<1>6. ASSUME t[b] < 0 PROVE CopiedTo(u, f, t, n, b, k)
  <2>1. \A p \in k + 1 .. e : ~(u[p] < 0) /\ f[p] <= b
    <3> SUFFICES ASSUME NEW p \in k + 1 .. e PROVE ~(u[p] < 0) /\ f[p] <= b
      OBVIOUS
    <3>1. p \in 1 .. e /\ f[p] \in 1 .. n
      BY <1>2
    <3>2. ~(u[p] < 0) /\ f[p] <= a
      BY <1>2
    <3> QED BY <1>3, <3>1, <3>2
  <2>2. ASSUME NEW r \in 1 .. b, ~(t[r] < 0) PROVE \E p \in k + 1 .. e : f[p] = r
    <3>1. r \in 1 .. a
      BY <1>3, <1>6, <2>2
    <3> QED BY <1>2, <2>2, <3>1
  <2> QED BY <1>1, <1>2, <2>1, <2>2 DEF CopiedTo
<1> QED BY <1>3, <1>5, <1>6

(* SortNum3 copies a negative number and leaves the others.                *)
LEMMA CopyNegKeeps ==
  ASSUME NEW t, NEW s, NEW a, NEW k, NEW u, NEW c, NumAt(3, t, s, a, k, u, c, "run"), a <= Len(s)
  PROVE  /\ s[a] < 0 => NumAt(3, t, s, a + 1, k + 1, Append(u, s[a]), c, "run")
         /\ ~(s[a] < 0) => NumAt(3, t, s, a + 1, k, u, c, "run")
<1>1. PICK n \in Nat : n = Len(s)
  BY DEF NumAt, Numbers
<1>2. /\ Numbers(t) /\ Numbers(s) /\ Len(t) = n /\ a \in Nat /\ a >= 1 /\ k \in Nat /\ c = 0 /\ s \in Seq(Int)
      /\ FourthAt(s, t, a, k, u, "run")
  BY <1>1 DEF NumAt, Numbers
<1>3. PICK m : Turned(m, 3, s, t, n)
  BY <1>2 DEF NumAt
<1>4. PICK b \in Nat : a = b + 1 /\ b = a - 1
  BY <1>2
<1>5. /\ s = t /\ n # 0 /\ k = Len(u) /\ k = Tally(t, SN!Negs, b) /\ \E f : CopiedTo(u, f, t, b, 0, k)
  BY <1>2, <1>4 DEF FourthAt
<1>6. PICK f : CopiedNegs(u, f, t, b, k)
  BY <1>5 DEF CopiedNegs
<1>7. a <= n /\ a \in 1 .. n
  BY <1>1, <1>2
<1>8. Tally(t, SN!Negs, a) = k + (IF s[a] < 0 THEN 1 ELSE 0)
  <2>1. s[a] \in SN!Negs <=> s[a] < 0
    BY <1>1, <1>2, <1>7, NegsBelow DEF Numbers
  <2>2. Flag(t, SN!Negs)[a] = IF s[a] < 0 THEN 1 ELSE 0
    BY <1>5, <1>7, <2>1 DEF Flag
  <2>3. Amount(1, Flag(t, SN!Negs), 1, a) = Amount(1, Flag(t, SN!Negs), 1, b) + (IF Flag(t, SN!Negs)[a] = 1 THEN 1 ELSE 0)
    BY <1>4, AmountNext, Zenon
  <2> QED BY <1>5, <2>2, <2>3 DEF Tally
<1>9. /\ t[a] < 0 => \E z : CopiedNegs(Append(u, t[a]), z, t, a, k + 1)
      /\ ~(t[a] < 0) => CopiedNegs(u, f, t, a, k)
  <2>1. b + 1 <= n /\ t \in Seq(Int) /\ n = Len(t)
    BY <1>2, <1>4, <1>5, <1>7
  <2>2. /\ t[b + 1] < 0 => \E z : CopiedNegs(Append(u, t[b + 1]), z, t, b + 1, k + 1)
        /\ ~(t[b + 1] < 0) => CopiedNegs(u, f, t, b + 1, k)
    BY <1>2, <1>6, <2>1, CopyBelow, Zenon
  <2> QED BY <1>4, <2>2, Zenon
<1>10. PICK e \in Nat : e = a + 1 /\ e - 1 = a /\ e <= n + 1 /\ e >= 1
  BY <1>7
<1>11. ASSUME s[a] < 0 PROVE NumAt(3, t, s, e, k + 1, Append(u, s[a]), c, "run")
  <2>1. PICK z : CopiedNegs(Append(u, t[a]), z, t, a, k + 1)
    BY <1>5, <1>9, <1>11
  <2>2. FourthAt(s, t, e, k + 1, Append(u, s[a]), "run")
    BY <1>2, <1>5, <1>8, <1>10, <1>11, <2>1 DEF FourthAt, CopiedNegs
  <2>3. k + 1 \in Nat
    BY <1>2
  <2> QED BY <1>1, <1>2, <1>3, <1>10, <2>2, <2>3 DEF NumAt
<1>12. ASSUME ~(s[a] < 0) PROVE NumAt(3, t, s, e, k, u, c, "run")
  <2>1. CopiedNegs(u, f, t, a, k)
    BY <1>5, <1>9, <1>12
  <2>2. FourthAt(s, t, e, k, u, "run")
    BY <1>2, <1>5, <1>8, <1>10, <1>12, <2>1 DEF FourthAt, CopiedNegs
  <2> QED BY <1>1, <1>2, <1>3, <1>10, <2>2 DEF NumAt
<1> QED BY <1>10, <1>11, <1>12

(* Exactly when SortNum3 has counted as many as there are, none is left.   *)
LEMMA AllCounted ==
  ASSUME NEW t \in Seq(Int), NEW n \in Nat, n = Len(t), Numbers(t)
  PROVE  /\ Tally(t, SN!Negs, n) <= n
         /\ AllBelow(t) <=> Tally(t, SN!Negs, n) = n
<1>1. PICK f : f = Flag(t, SN!Negs)
  OBVIOUS
<1>2. \A p \in 1 .. n : f[p] = IF t[p] < 0 THEN 1 ELSE 0
  <2>1. \A p \in 1 .. n : p \in Int /\ (t[p] \in SN!Negs <=> t[p] < 0)
    BY NegsBelow DEF Numbers
  <2> QED BY <1>1, <2>1 DEF Flag
<1>3. Tally(t, SN!Negs, n) = Amount(1, f, 1, n)
  BY <1>1 DEF Tally
<1>4. Amount(1, f, 1, n) <= n /\ ((\A p \in 1 .. n : f[p] = 1) => Amount(1, f, 1, n) = n)
  BY AmountBound
<1>5. ASSUME AllBelow(t) PROVE Amount(1, f, 1, n) = n
  <2>1. \A p \in 1 .. n : f[p] = 1
    BY <1>2, <1>5 DEF AllBelow
  <2> QED BY <1>4, <2>1
<1>6. ASSUME ~AllBelow(t) PROVE Amount(1, f, 1, n) # n
  <2>1. PICK c \in 1 .. n : ~(t[c] < 0)
    BY <1>6 DEF AllBelow
  <2>2. f[c] # 1
    BY <1>2, <2>1
  <2>3. Amount(1, f, 1, n) <= n - 1
    BY <2>2, AmountOut
  <2>4. Amount(1, f, 1, n) \in Nat
    BY AmountNext
  <2> QED BY <2>3, <2>4
<1> QED BY <1>3, <1>4, <1>5, <1>6

(* SortNum3 goes on to the others, or returns if there are none.           *)
LEMMA CountedKeeps ==
  ASSUME NEW t, NEW s, NEW a, NEW k, NEW u, NEW c, NumAt(3, t, s, a, k, u, c, "run"), a > Len(s)
  PROVE  /\ Len(s) - k <= 0 => NumAt(3, t, s, a, k, u, c, "leaked")
         /\ Len(s) - k > 0 => NumAt(3, t, s, 1, k, u, c, "plus")
<1>1. PICK n \in Nat : n = Len(s)
  BY DEF NumAt, Numbers
<1>2. /\ Numbers(t) /\ Numbers(s) /\ Len(t) = n /\ a \in Nat /\ a >= 1 /\ k \in Nat /\ c = 0 /\ s \in Seq(Int)
      /\ FourthAt(s, t, a, k, u, "run") /\ t \in Seq(Int)
  BY <1>1 DEF NumAt, Numbers
<1>3. PICK m : Turned(m, 3, s, t, n)
  BY <1>2 DEF NumAt
<1>4. a = n + 1 /\ a - 1 = n
  BY <1>1, <1>2 DEF FourthAt
<1>5. /\ s = t /\ n # 0 /\ k = Tally(t, SN!Negs, n) /\ \E f : CopiedTo(u, f, t, n, 0, k)
  BY <1>2, <1>4 DEF FourthAt
<1>6. k <= n /\ (AllBelow(t) <=> k = n)
  BY <1>2, <1>5, AllCounted
<1>7. ASSUME n - k <= 0 PROVE NumAt(3, t, s, a, k, u, c, "leaked")
  <2>1. AllBelow(t)
    BY <1>2, <1>6, <1>7
  <2>2. FourthAt(s, t, a, k, u, "leaked")
    BY <1>2, <1>5, <2>1 DEF FourthAt
  <2> QED BY <1>1, <1>2, <1>3, <2>2 DEF NumAt
<1>8. ASSUME n - k > 0 PROVE NumAt(3, t, s, 1, k, u, c, "plus")
  <2>1. ~AllBelow(t)
    BY <1>2, <1>6, <1>8
  <2>2. FourthAt(s, t, 1, k, u, "plus")
    <3>1. 1 <= n + 1 /\ 1 - 1 = 0
      OBVIOUS
    <3> QED BY <1>2, <1>5, <2>1, <3>1 DEF FourthAt
  <2> QED BY <1>1, <1>2, <1>3, <2>2 DEF NumAt
<1> QED BY <1>1, <1>7, <1>8

(* SortNum3 copies one of the others and leaves the negative ones.         *)
LEMMA CopyPlusKeeps ==
  ASSUME NEW t, NEW s, NEW a, NEW k, NEW u, NEW c, NumAt(3, t, s, a, k, u, c, "plus"), a <= Len(s)
  PROVE  /\ ~(s[a] < 0) => NumAt(3, t, s, a + 1, k, Append(u, s[a]), c, "plus")
         /\ s[a] < 0 => NumAt(3, t, s, a + 1, k, u, c, "plus")
<1>1. PICK n \in Nat : n = Len(s)
  BY DEF NumAt, Numbers
<1>2. /\ Numbers(t) /\ Numbers(s) /\ Len(t) = n /\ a \in Nat /\ a >= 1 /\ k \in Nat /\ c = 0 /\ s \in Seq(Int)
      /\ FourthAt(s, t, a, k, u, "plus")
  BY <1>1 DEF NumAt, Numbers
<1>3. PICK m : Turned(m, 3, s, t, n)
  BY <1>2 DEF NumAt
<1>4. PICK b \in Nat : a = b + 1 /\ b = a - 1
  BY <1>2
<1>5. /\ s = t /\ n # 0 /\ ~AllBelow(t) /\ \E f : CopiedTo(u, f, t, n, b, k)
  BY <1>2, <1>4 DEF FourthAt
<1>6. PICK f : CopiedTo(u, f, t, n, b, k)
  BY <1>5
<1>7. a <= n /\ a \in 1 .. n
  BY <1>1, <1>2
<1>9. /\ ~(t[a] < 0) => \E z : CopiedTo(Append(u, t[a]), z, t, n, a, k)
      /\ t[a] < 0 => CopiedTo(u, f, t, n, a, k)
  <2>1. b + 1 <= n /\ t \in Seq(Int) /\ n = Len(t)
    BY <1>2, <1>4, <1>5, <1>7
  <2>2. /\ ~(t[b + 1] < 0) => \E z : CopiedTo(Append(u, t[b + 1]), z, t, n, b + 1, k)
        /\ t[b + 1] < 0 => CopiedTo(u, f, t, n, b + 1, k)
    BY <1>2, <1>6, <2>1, CopyOther, Zenon
  <2> QED BY <1>4, <2>2, Zenon
<1>10. PICK e \in Nat : e = a + 1 /\ e - 1 = a /\ e <= n + 1 /\ e >= 1
  BY <1>7
<1>11. ASSUME ~(s[a] < 0) PROVE NumAt(3, t, s, e, k, Append(u, s[a]), c, "plus")
  <2>1. PICK z : CopiedTo(Append(u, t[a]), z, t, n, a, k)
    BY <1>5, <1>9, <1>11
  <2>2. FourthAt(s, t, e, k, Append(u, s[a]), "plus")
    BY <1>2, <1>5, <1>10, <2>1 DEF FourthAt
  <2> QED BY <1>1, <1>2, <1>3, <1>10, <2>2 DEF NumAt
<1>12. ASSUME s[a] < 0 PROVE NumAt(3, t, s, e, k, u, c, "plus")
  <2>1. CopiedTo(u, f, t, n, a, k)
    BY <1>5, <1>9, <1>12
  <2>2. FourthAt(s, t, e, k, u, "plus")
    BY <1>2, <1>5, <1>10, <2>1 DEF FourthAt
  <2> QED BY <1>1, <1>2, <1>3, <1>10, <2>2 DEF NumAt
<1> QED BY <1>10, <1>11, <1>12

(* What is copied back is the array, in another order: the numbers came    *)
(* from as many places as there are.                                       *)
LEMMA CopyBackKeeps ==
  ASSUME NEW t, NEW s, NEW a, NEW k, NEW u, NEW c, NumAt(3, t, s, a, k, u, c, "plus"), a > Len(s)
  PROVE  NumAt(3, t, u, a, k, <<>>, c, "done")
<1>1. PICK n \in Nat : n = Len(s)
  BY DEF NumAt, Numbers
<1>2. /\ Numbers(t) /\ Numbers(s) /\ Len(t) = n /\ a \in Nat /\ a >= 1 /\ k \in Nat /\ c = 0 /\ s \in Seq(Int)
      /\ FourthAt(s, t, a, k, u, "plus") /\ t \in Seq(Int)
  BY <1>1 DEF NumAt, Numbers
<1>4. a = n + 1 /\ a - 1 = n
  BY <1>1, <1>2 DEF FourthAt
<1>5. /\ s = t /\ n # 0 /\ ~AllBelow(t) /\ \E f : CopiedTo(u, f, t, n, n, k)
  BY <1>2, <1>4 DEF FourthAt
<1>6. PICK f : CopiedTo(u, f, t, n, n, k)
  BY <1>5
<1>7. PICK e \in Nat : e = Len(u) /\ k <= e
  BY <1>6 DEF CopiedTo
<1>8. /\ u \in Seq(Int) /\ f \in [1 .. e -> 1 .. n]
      /\ \A p \in 1 .. e : u[p] = t[f[p]]
      /\ \A p \in 1 .. k : u[p] < 0
      /\ \A p \in k + 1 .. e : ~(u[p] < 0)
      /\ \A p, q \in 1 .. k : p < q => f[p] < f[q]
      /\ \A p, q \in k + 1 .. e : p < q => f[p] < f[q]
      /\ \A r \in 1 .. n : t[r] < 0 => \E p \in 1 .. k : f[p] = r
      /\ \A r \in 1 .. n : ~(t[r] < 0) => \E p \in k + 1 .. e : f[p] = r
  BY <1>2, <1>6, <1>7 DEF CopiedTo
<1>9. \A p \in 1 .. e : p \in 1 .. k \/ p \in k + 1 .. e
  BY <1>2, <1>7
<1>10. \A p \in 1 .. e : f[p] \in 1 .. n
  BY <1>8
<1>11. ASSUME NEW p \in 1 .. e, NEW q \in 1 .. e, p < q PROVE f[p] # f[q]
  <2>1. CASE q \in 1 .. k
    <3>1. p \in 1 .. k
      BY <1>2, <2>1, <1>11
    <3> QED BY <1>8, <1>10, <1>11, <2>1, <3>1
  <2>2. CASE p \in k + 1 .. e
    <3>1. q \in k + 1 .. e
      BY <2>2, <1>11, <1>2
    <3> QED BY <1>8, <1>10, <1>11, <2>2, <3>1
  <2>3. CASE p \in 1 .. k /\ q \in k + 1 .. e
    <3>1. u[p] < 0 /\ ~(u[q] < 0)
      BY <1>8, <2>3
    <3>2. u[p] = t[f[p]] /\ u[q] = t[f[q]]
      BY <1>8
    <3> QED BY <3>1, <3>2
  <2> QED BY <1>9, <2>1, <2>2, <2>3
<1>12. \A p, q \in 1 .. e : p # q => f[p] # f[q]
  <2> SUFFICES ASSUME NEW p \in 1 .. e, NEW q \in 1 .. e, p # q PROVE f[p] # f[q]
    OBVIOUS
  <2>1. p < q \/ q < p
    OBVIOUS
  <2> QED BY <1>11, <2>1
<1>13. \A r \in 1 .. n : \E p \in 1 .. e : f[p] = r
  <2> SUFFICES ASSUME NEW r \in 1 .. n PROVE \E p \in 1 .. e : f[p] = r
    OBVIOUS
  <2>1. (\A p \in 1 .. k : p \in 1 .. e) /\ \A p \in k + 1 .. e : p \in 1 .. e
    BY <1>2, <1>7
  <2> QED BY <1>8, <2>1
<1>14. e = n
  <2>1. IsFiniteSet(1 .. e) /\ Cardinality(1 .. e) = e /\ Cardinality(1 .. n) = n
    <3>1. \A z \in Nat : IsFiniteSet(1 .. z) /\ Cardinality(1 .. z) = z
      <4> SUFFICES ASSUME NEW z \in Nat PROVE IsFiniteSet(1 .. z) /\ Cardinality(1 .. z) = z
        OBVIOUS
      <4>1. IsFiniteSet(1 .. z) /\ Cardinality(1 .. z) = IF 1 > z THEN 0 ELSE z - 1 + 1
        <5>1. 1 \in Int /\ z \in Int
          OBVIOUS
        <5> QED BY <5>1, FS_Interval, Zenon
      <4> QED BY <4>1
    <3> QED BY <3>1, Zenon
  <2>2. f \in Injection(1 .. e, 1 .. n) /\ f \in Surjection(1 .. e, 1 .. n)
    BY <1>8, <1>12, <1>13, Zenon DEF Injection, Surjection, IsInjective
  <2>3. ExistsBijection(1 .. e, 1 .. n)
    BY <2>2, Zenon DEF ExistsBijection, Bijection
  <2>4. Cardinality(1 .. n) = Cardinality(1 .. e)
    BY <2>1, <2>3, FS_Bijection, Zenon
  <2> QED BY <2>1, <2>4
<1>15. Matches(f, u, 1, n, t, 1, n)
  BY <1>8, <1>12, <1>13, <1>14, Zenon DEF Matches
<1>16. KeepsNegs(f, u, n)
  <2> SUFFICES ASSUME NEW p \in 1 .. n, NEW q \in 1 .. n, p < q, u[p] < 0, u[q] < 0 PROVE f[p] < f[q]
    BY DEF KeepsNegs
  <2>1. p \in 1 .. k /\ q \in 1 .. k
    BY <1>8, <1>9, <1>14
  <2> QED BY <1>8, <2>1
<1>17. KeepsNotNegs(f, u, n)
  <2> SUFFICES ASSUME NEW p \in 1 .. n, NEW q \in 1 .. n, p < q, ~(u[p] < 0), ~(u[q] < 0) PROVE f[p] < f[q]
    BY DEF KeepsNotNegs
  <2>1. p \in k + 1 .. e /\ q \in k + 1 .. e
    BY <1>8, <1>9, <1>14
  <2> QED BY <1>8, <2>1
<1>18. Turned(f, 3, u, t, n)
  BY <1>15, <1>16, <1>17 DEF Turned
<1>19. Numbers(u)
  BY <1>2, <1>7, <1>8, <1>14, <1>15, MovedNumbers
<1>20. Parted(u)
  <2> SUFFICES ASSUME NEW p \in 1 .. n, NEW q \in 1 .. n, p < q, u[q] < 0 PROVE u[p] < 0
    BY <1>7, <1>14 DEF Parted
  <2>1. q \in 1 .. k
    BY <1>8, <1>9, <1>14
  <2>2. p \in 1 .. k
    BY <1>2, <2>1
  <2> QED BY <1>8, <2>2
<1>21. FourthAt(u, t, a, k, <<>>, "done")
  BY <1>2, <1>5, <1>20 DEF FourthAt
<1> QED BY <1>2, <1>7, <1>14, <1>18, <1>19, <1>21 DEF NumAt

(* Every step of the four functions.                                       *)
LEMMA NumStep == ASSUME NumInv, SN!Next PROVE NumInv'
<1>1. NumAt(numAlg, numOrig, numArr, numI, numK, temp, moves, numPc)
  BY DEF NumInv
<1> SUFFICES NumAt(numAlg', numOrig', numArr', numI', numK', temp', moves', numPc')
  BY DEF NumInv
<1>2. CASE SN!ToEnd
  <2>1. /\ numAlg = 0 /\ numPc = "run" /\ numI <= Len(numArr) /\ numI <= numK /\ numArr[numI] > 0
        /\ numArr' = Append(Without(numArr, numI), numArr[numI]) /\ moves' = moves + 1
        /\ UNCHANGED <<numAlg, numOrig, numI, numK, temp, numPc>>
    BY <1>2 DEF SN!ToEnd, SN!Is, Without
  <2>2. NumAt(0, numOrig, Append(Without(numArr, numI), numArr[numI]), numI, numK, temp, moves + 1, "run")
    BY <1>1, <2>1, ToEndKeeps, Zenon
  <2> QED BY <2>1, <2>2, Zenon
<1>3. CASE SN!StepOn
  <2>1. /\ numAlg = 0 /\ numPc = "run" /\ numI <= Len(numArr) /\ numI <= numK /\ numArr[numI] <= 0
        /\ numI' = numI + 1 /\ UNCHANGED <<numAlg, numOrig, numArr, numK, temp, moves, numPc>>
    BY <1>3 DEF SN!StepOn, SN!Is
  <2>2. NumAt(0, numOrig, numArr, numI + 1, numK, temp, moves, "run")
    BY <1>1, <2>1, StepOnKeeps, Zenon
  <2> QED BY <2>1, <2>2, Zenon
<1>4. CASE SN!Stop
  <2>1. /\ numAlg = 0 /\ numPc = "run" /\ (numI > Len(numArr) \/ numI > numK)
        /\ numPc' = "done" /\ UNCHANGED <<numAlg, numOrig, numArr, numI, numK, temp, moves>>
    BY <1>4 DEF SN!Stop, SN!Is, SN!Finish
  <2>2. NumAt(0, numOrig, numArr, numI, numK, temp, moves, "done")
    BY <1>1, <2>1, StepOnKeeps, Zenon
  <2> QED BY <2>1, <2>2, Zenon
<1>5. CASE SN!SwapEnds
  <2>1. /\ numAlg = 1 /\ numPc = "run" /\ numI < numK
        /\ \E lo, hi \in numI .. numK : /\ SN!RunIn(numArr, numI, numK, lo, hi) /\ numI' = lo /\ numK' = hi
                                        /\ numArr' = SN!Swap(numArr, lo, hi)
        /\ UNCHANGED <<numAlg, numOrig, temp, moves, numPc>>
    BY <1>5 DEF SN!SwapEnds, SN!Is
  <2>2. PICK l \in numI .. numK, r \in numI .. numK :
          /\ SN!RunIn(numArr, numI, numK, l, r) /\ numI' = l /\ numK' = r /\ numArr' = SN!Swap(numArr, l, r)
    BY <2>1
  <2>3. NumAt(1, numOrig, SN!Swap(numArr, l, r), l, r, temp, moves, "run")
    BY <1>1, <2>1, <2>2, SwapKeeps, Zenon
  <2> QED BY <2>1, <2>2, <2>3, Zenon
<1>6. CASE SN!Met
  <2>1. /\ numAlg = 1 /\ numPc = "run" /\ numI >= numK
        /\ numPc' = "done" /\ UNCHANGED <<numAlg, numOrig, numArr, numI, numK, temp, moves>>
    BY <1>6 DEF SN!Met, SN!Is, SN!Finish
  <2>2. NumAt(1, numOrig, numArr, numI, numK, temp, moves, "done")
    BY <1>1, <2>1, MetKeeps, Zenon
  <2> QED BY <2>1, <2>2, Zenon
<1>7. CASE SN!Start
  <2>1. /\ numAlg = 2 /\ numPc = "run" /\ numI <= Len(numArr) /\ numI' = numI + 1
        /\ IF numArr[numI] < 0 THEN numArr' = SN!Carry(numArr, numK, numI) /\ numK' = numK + 1 ELSE UNCHANGED <<numArr, numK>>
        /\ UNCHANGED <<numAlg, numOrig, temp, moves, numPc>>
    BY <1>7 DEF SN!Start, SN!Is
  <2>2. CASE numArr[numI] < 0
    <3>1. NumAt(2, numOrig, SN!Carry(numArr, numK, numI), numI + 1, numK + 1, temp, moves, "run")
      BY <1>1, <2>1, <2>2, CarryKeeps, Zenon
    <3> QED BY <2>1, <2>2, <3>1, Zenon
  <2>3. CASE ~(numArr[numI] < 0)
    <3>1. NumAt(2, numOrig, numArr, numI + 1, numK, temp, moves, "run")
      BY <1>1, <2>1, <2>3, PassKeeps, Zenon
    <3> QED BY <2>1, <2>3, <3>1, Zenon
  <2> QED BY <2>2, <2>3
<1>8. CASE SN!Over
  <2>1. /\ numAlg = 2 /\ numPc = "run" /\ numI > Len(numArr)
        /\ numPc' = "done" /\ UNCHANGED <<numAlg, numOrig, numArr, numI, numK, temp, moves>>
    BY <1>8 DEF SN!Over, SN!Is, SN!Finish
  <2>2. NumAt(2, numOrig, numArr, numI, numK, temp, moves, "done")
    BY <1>1, <2>1, PassKeeps, Zenon
  <2> QED BY <2>1, <2>2, Zenon
<1>9. CASE SN!CopyNeg
  <2>1. /\ numAlg = 3 /\ numPc = "run" /\ numI <= Len(numArr) /\ numI' = numI + 1
        /\ IF numArr[numI] < 0 THEN temp' = Append(temp, numArr[numI]) /\ numK' = numK + 1 ELSE UNCHANGED <<temp, numK>>
        /\ UNCHANGED <<numAlg, numOrig, numArr, moves, numPc>>
    BY <1>9 DEF SN!CopyNeg, SN!Is
  <2>2. CASE numArr[numI] < 0
    <3>1. NumAt(3, numOrig, numArr, numI + 1, numK + 1, Append(temp, numArr[numI]), moves, "run")
      BY <1>1, <2>1, <2>2, CopyNegKeeps, Zenon
    <3> QED BY <2>1, <2>2, <3>1, Zenon
  <2>3. CASE ~(numArr[numI] < 0)
    <3>1. NumAt(3, numOrig, numArr, numI + 1, numK, temp, moves, "run")
      BY <1>1, <2>1, <2>3, CopyNegKeeps, Zenon
    <3> QED BY <2>1, <2>3, <3>1, Zenon
  <2> QED BY <2>2, <2>3
<1>10. CASE SN!NoPlus
  <2>1. /\ numAlg = 3 /\ numPc = "run" /\ numI > Len(numArr) /\ Len(numArr) - numK <= 0
        /\ numPc' = "leaked" /\ UNCHANGED <<numAlg, numOrig, numArr, numI, numK, temp, moves>>
    BY <1>10 DEF SN!NoPlus, SN!Is, SN!Finish
  <2>2. NumAt(3, numOrig, numArr, numI, numK, temp, moves, "leaked")
    BY <1>1, <2>1, CountedKeeps, Zenon
  <2> QED BY <2>1, <2>2, Zenon
<1>11. CASE SN!Again
  <2>1. /\ numAlg = 3 /\ numPc = "run" /\ numI > Len(numArr) /\ Len(numArr) - numK > 0
        /\ numI' = 1 /\ numPc' = "plus" /\ UNCHANGED <<numAlg, numOrig, numArr, numK, temp, moves>>
    BY <1>11 DEF SN!Again, SN!Is
  <2>2. NumAt(3, numOrig, numArr, 1, numK, temp, moves, "plus")
    BY <1>1, <2>1, CountedKeeps, Zenon
  <2> QED BY <2>1, <2>2, Zenon
<1>12. CASE SN!CopyPlus
  <2>1. /\ numAlg = 3 /\ numPc = "plus" /\ numI <= Len(numArr) /\ numI' = numI + 1
        /\ temp' = (IF numArr[numI] >= 0 THEN Append(temp, numArr[numI]) ELSE temp)
        /\ UNCHANGED <<numAlg, numOrig, numArr, numK, moves, numPc>>
    BY <1>12 DEF SN!CopyPlus, SN!Is
  <2>4. numArr[numI] >= 0 <=> ~(numArr[numI] < 0)
    <3>1. numArr \in Seq(Int) /\ numI \in Nat /\ numI >= 1
      BY <1>1 DEF NumAt, Numbers
    <3>2. numArr[numI] \in Int
      BY <2>1, <3>1
    <3> QED BY <3>2
  <2>2. CASE ~(numArr[numI] < 0)
    <3>1. NumAt(3, numOrig, numArr, numI + 1, numK, Append(temp, numArr[numI]), moves, "plus")
      BY <1>1, <2>1, <2>2, CopyPlusKeeps, Zenon
    <3> QED BY <2>1, <2>2, <2>4, <3>1, Zenon
  <2>3. CASE numArr[numI] < 0
    <3>1. NumAt(3, numOrig, numArr, numI + 1, numK, temp, moves, "plus")
      BY <1>1, <2>1, <2>3, CopyPlusKeeps, Zenon
    <3> QED BY <2>1, <2>3, <2>4, <3>1, Zenon
  <2> QED BY <2>2, <2>3
<1>13. CASE SN!CopyBack
  <2>1. /\ numAlg = 3 /\ numPc = "plus" /\ numI > Len(numArr) /\ numArr' = temp /\ temp' = <<>> /\ numPc' = "done"
        /\ UNCHANGED <<numAlg, numOrig, numI, numK, moves>>
    BY <1>13 DEF SN!CopyBack, SN!Is
  <2>2. NumAt(3, numOrig, temp, numI, numK, <<>>, moves, "done")
    BY <1>1, <2>1, CopyBackKeeps, Zenon
  <2> QED BY <2>1, <2>2, Zenon
<1> QED BY <1>2, <1>3, <1>4, <1>5, <1>6, <1>7, <1>8, <1>9, <1>10, <1>11, <1>12, <1>13, Zenon DEF SN!Next

(* Where no place has a value there is no copy of it.                      *)
LEMMA AmountFree ==
  ASSUME NEW v, NEW s, NEW a \in Int, NEW b \in Int, \A p \in a .. b : s[p] # v
  PROVE  Amount(v, s, a, b) = 0
<1>1. {p \in a .. b : s[p] = v} = {}
  OBVIOUS
<1> QED BY <1>1, FS_EmptySet, Zenon DEF Amount

(* With all the numbers of its kind in front none is behind them.          *)
LEMMA AllInFront ==
  ASSUME NEW v, NEW s, NEW n \in Nat, NEW k \in 0 .. n, Amount(v, s, 1, n) = k, \A p \in 1 .. k : s[p] = v,
         NEW q \in k + 1 .. n
  PROVE  s[q] # v
<1>1. Amount(v, s, 1, n) = Amount(v, s, 1, k) + Amount(v, s, k + 1, n)
  BY AmountSplit
<1>2. Amount(v, s, 1, k) = k
  BY AmountBound
<1>3. Amount(v, s, k + 1, n) \in Nat
  <2>1. k + 1 \in Int /\ n \in Int
    OBVIOUS
  <2> QED BY <2>1, AmountType, Zenon
<1>4. ASSUME s[q] = v PROVE Amount(v, s, k + 1, n) >= 1
  <2>1. k + 1 \in Int /\ n \in Int
    OBVIOUS
  <2> QED BY <2>1, <1>4, AmountSome, Zenon
<1> QED BY <1>1, <1>2, <1>3, <1>4

(* A value at one place at most is there once at most.                     *)
LEMMA OneZero ==
  ASSUME NEW s, NEW n \in Nat, NEW a \in 1 .. n, \A p \in 1 .. n : p # a => s[p] # 1
  PROVE  Amount(1, s, 1, n) <= 1
<1>1. PICK b \in Int, d \in Int : b = a - 1 /\ d = a + 1
  OBVIOUS
<1>2. Amount(1, s, 1, n) = Amount(1, s, 1, b) + Amount(1, s, a, n)
  BY <1>1, AmountSplit
<1>3. Amount(1, s, a, n) = Amount(1, s, d, n) + (IF s[a] = 1 THEN 1 ELSE 0)
  BY <1>1, AmountDown
<1>4. Amount(1, s, 1, b) = 0
  <2>1. \A p \in 1 .. b : s[p] # 1
    BY <1>1
  <2>2. 1 \in Int
    OBVIOUS
  <2> QED BY <1>1, <2>1, <2>2, AmountFree, Zenon
<1>5. Amount(1, s, d, n) = 0
  <2>1. \A p \in d .. n : s[p] # 1
    BY <1>1
  <2>2. n \in Int
    OBVIOUS
  <2> QED BY <1>1, <2>1, <2>2, AmountFree, Zenon
<1> QED BY <1>2, <1>3, <1>4, <1>5

(* So the numbers are parted in the order each function keeps, and         *)
(* SortNum1 and SortNum3 go wrong when their modules say.                  *)
LEMMA NumMeaning == NumInv => /\ SN!OrderKept /\ SN!PartedSoFar /\ SN!MovedOnce /\ SN!NegativesFirst
                              /\ SN!TwoZerosSpin /\ SN!LeaksWithoutPlus
<1> SUFFICES ASSUME NumInv PROVE /\ SN!OrderKept /\ SN!PartedSoFar /\ SN!MovedOnce /\ SN!NegativesFirst
                                 /\ SN!TwoZerosSpin /\ SN!LeaksWithoutPlus
  OBVIOUS
<1>1. PICK n \in Nat : n = Len(numOrig) /\ n = Len(numArr)
  BY DEF NumInv, NumAt, Numbers
<1>2. /\ numAlg \in 0 .. 3 /\ Numbers(numOrig) /\ Numbers(numArr) /\ numOrig \in Seq(Int) /\ numArr \in Seq(Int)
      /\ numI \in Nat /\ numI >= 1 /\ numK \in Nat /\ moves \in Nat /\ numPc \in {"run", "plus", "done", "leaked"}
      /\ numAlg # 0 => moves = 0
      /\ numAlg # 3 => numPc \in {"run", "done"}
      /\ numAlg = 0 => FirstAt(numArr, numOrig, numI, numK, moves) /\ (numPc = "done" => numI > n \/ numI > numK)
      /\ numAlg = 1 => /\ n = 0 => numPc = "done"
                       /\ n # 0 => SecondAt(numArr, numI, numK)
                       /\ numPc = "done" /\ n # 0 => numI = numK
      /\ numAlg = 2 => ThirdAt(numArr, numOrig, numI, numK) /\ (numPc = "done" => numI = n + 1)
      /\ numAlg = 3 => FourthAt(numArr, numOrig, numI, numK, temp, numPc)
  BY <1>1 DEF NumInv, NumAt, Numbers
<1>3. PICK m : Turned(m, numAlg, numArr, numOrig, n)
  BY <1>1 DEF NumInv, NumAt
<1>4. DOMAIN numArr = 1 .. n /\ DOMAIN numOrig = 1 .. n
  <2>1. DOMAIN numArr = 1 .. Len(numArr) /\ DOMAIN numOrig = 1 .. Len(numOrig)
    BY <1>2
  <2> QED BY <1>1, <2>1, Zenon
<1>5. \A p \in 1 .. n : /\ numArr[p] \in Int /\ numArr[p] \in NumSet
                        /\ numArr[p] \in SN!Negs <=> numArr[p] < 0
                        /\ numArr[p] \in SN!NotNegs <=> ~(numArr[p] < 0)
  BY <1>1, <1>2, NegsBelow DEF Numbers
<1>6. Matches(m, numArr, 1, n, numOrig, 1, n)
  BY <1>3 DEF Turned
<1>6a. \A S : Tally(numArr, S, n) = Tally(numOrig, S, n)
  <2> SUFFICES ASSUME NEW S PROVE Tally(numArr, S, n) = Tally(numOrig, S, n)
    OBVIOUS
  <2> QED BY <1>6, TallyMoved, SMT
<1>7. SN!OrderKept
  <2>1. m \in SN!Reorders(numArr, numOrig)
    BY <1>4, <1>6 DEF SN!Reorders, Matches
  <2>2. numAlg # 1 => SN!Climbs(m, SN!Where(numArr, SN!Negs))
    <3>1. numAlg # 1 => KeepsNegs(m, numArr, n)
      BY <1>3 DEF Turned
    <3> QED BY <1>4, <1>5, <3>1 DEF KeepsNegs, SN!Climbs, SN!Where
  <2>3. numAlg > 1 => SN!Climbs(m, SN!Where(numArr, SN!NotNegs))
    <3>1. numAlg > 1 => KeepsNotNegs(m, numArr, n)
      BY <1>3 DEF Turned
    <3> QED BY <1>4, <1>5, <3>1 DEF KeepsNotNegs, SN!Climbs, SN!Where
  <2> QED BY <2>1, <2>2, <2>3, Zenon DEF SN!OrderKept
<1>8. SN!PartedSoFar
  BY <1>1, <1>2 DEF SN!PartedSoFar, ThirdAt
<1>9. SN!MovedOnce
  <2>1. SN!Count(numOrig, Positive) = Tally(numOrig, Positive, n)
    BY <1>1, <1>2, TallyCount, Zenon
  <2>2. Tally(numOrig, Positive, n) \in Nat
    BY AmountNext, Zenon DEF Tally
  <2>3. moves <= Tally(numOrig, Positive, n)
    BY <1>1, <1>2, <2>2 DEF FirstAt
  <2> QED BY <2>1, <2>3 DEF SN!MovedOnce, Positive
<1>10. SN!LeaksWithoutPlus
  <2>1. SN!Where(numOrig, SN!NotNegs) = {} <=> AllBelow(numOrig)
    <3>1. \A p \in 1 .. n : numOrig[p] \in SN!NotNegs <=> ~(numOrig[p] < 0)
      BY <1>1, <1>2, NegsBelow DEF Numbers
    <3> QED BY <1>1, <1>4, <3>1 DEF SN!Where, AllBelow
  <2>2. numOrig # <<>> <=> n # 0
    BY <1>1, <1>2, EmptySeq
  <2>3. ASSUME numPc = "leaked" PROVE numAlg = 3 /\ n # 0 /\ AllBelow(numOrig)
    BY <1>1, <1>2, <2>3 DEF FourthAt
  <2>4. ASSUME numAlg = 3, numPc \in {"done", "leaked"}, n # 0, AllBelow(numOrig) PROVE numPc = "leaked"
    BY <1>1, <1>2, <2>4 DEF FourthAt
  <2> QED BY <2>1, <2>2, <2>3, <2>4 DEF SN!LeaksWithoutPlus, SN!Returned
<1>11. PICK z \in Nat : /\ z = SN!Zeros /\ z = Amount(1, Flag(numArr, {0}), 1, n)
  <2>1. SN!Zeros = Tally(numOrig, {0}, n)
    BY <1>1, <1>2, TallyCount, Zenon DEF SN!Zeros
  <2>2. Tally(numArr, {0}, n) = Tally(numOrig, {0}, n)
    BY <1>6a, Zenon
  <2>3. Tally(numArr, {0}, n) \in Nat
    BY AmountNext, Zenon DEF Tally
  <2> QED BY <2>1, <2>2, <2>3 DEF Tally
<1>12. \A p \in 1 .. n : Flag(numArr, {0})[p] = 1 <=> numArr[p] = 0
  BY DEF Flag
<1>13. SN!TwoZerosSpin
  <2> SUFFICES ASSUME numAlg = 1, numPc = "done", z >= 2 PROVE FALSE
    BY <1>11 DEF SN!TwoZerosSpin
  <2>1. CASE n = 0
    <3>1. Amount(1, Flag(numArr, {0}), 1, n) = 0
      BY <2>1, AmountNone
    <3> QED BY <1>11, <3>1
  <2>2. CASE n # 0
    <3>1. /\ numI = numK /\ numK <= n
          /\ \A p \in 1 .. numI - 1 : numArr[p] < 0
          /\ \A p \in numK + 1 .. n : numArr[p] > 0
      BY <1>1, <1>2, <2>2 DEF SecondAt
    <3>2. ASSUME NEW p \in 1 .. n, p # numI PROVE numArr[p] # 0
      <4>1. p \in 1 .. numI - 1 \/ p \in numK + 1 .. n
        BY <1>2, <3>1, <3>2
      <4> QED BY <3>1, <4>1
    <3>3. numI \in 1 .. n
      BY <1>2, <3>1
    <3>4. Amount(1, Flag(numArr, {0}), 1, n) <= 1
      BY <1>12, <3>2, <3>3, OneZero, Zenon
    <3> QED BY <1>11, <3>4
  <2> QED BY <2>1, <2>2
<1>14. SN!NegativesFirst
  <2> SUFFICES ASSUME numPc \in {"done", "leaked"}, numAlg > 0 \/ z = 0,
                      NEW p \in 1 .. n, NEW q \in 1 .. n, p < q, numArr[q] < 0
               PROVE  numArr[p] < 0
    BY <1>4, <1>11 DEF SN!NegativesFirst, SN!Returned
  <2>1. CASE numAlg = 1
    <3>1. /\ numI = numK /\ numK <= n
          /\ \A r \in 1 .. numI - 1 : numArr[r] < 0
          /\ \A r \in numK + 1 .. n : numArr[r] > 0
      BY <1>1, <1>2, <2>1 DEF SecondAt
    <3>2. ~(q \in numK + 1 .. n)
      BY <1>5, <3>1
    <3>3. p \in 1 .. numI - 1
      BY <1>2, <3>1, <3>2
    <3> QED BY <3>1, <3>3
  <2>2. CASE numAlg = 2
    <3>1. numI = n + 1 /\ \A r \in 1 .. n : numArr[r] < 0 <=> r < numK
      BY <1>1, <1>2, <2>2 DEF ThirdAt
    <3> QED BY <1>2, <3>1
  <2>3. CASE numAlg = 3
    <3>1. numPc = "done" => Parted(numArr)
      BY <1>2, <2>3 DEF FourthAt
    <3>2. numPc = "leaked" => numArr = numOrig /\ AllBelow(numOrig)
      BY <1>2, <2>3 DEF FourthAt
    <3> QED BY <1>1, <3>1, <3>2 DEF Parted, AllBelow
  <2>4. CASE numAlg = 0
    <3>1. /\ numPc = "done" /\ z = 0 /\ numI <= numK + 1 /\ numI <= n + 1
          /\ numK = Tally(numOrig, SN!Negs, n) /\ (numI > n \/ numI > numK)
          /\ \A r \in 1 .. numI - 1 : numArr[r] <= 0
      BY <1>1, <1>2, <2>4 DEF FirstAt
    <3>2. ASSUME NEW r \in 1 .. n, numArr[r] = 0 PROVE FALSE
      <4>1. Flag(numArr, {0})[r] = 1 /\ 1 \in Int /\ n \in Int
        BY <1>12, <3>2
      <4>2. Amount(1, Flag(numArr, {0}), 1, n) >= 1
        BY <4>1, AmountSome, Zenon
      <4> QED BY <1>11, <3>1, <4>2
    <3>3. \A r \in 1 .. numI - 1 : r \in 1 .. n /\ numArr[r] < 0
      <4> SUFFICES ASSUME NEW r \in 1 .. numI - 1 PROVE r \in 1 .. n /\ numArr[r] < 0
        OBVIOUS
      <4>1. r \in 1 .. n /\ numArr[r] \in Int
        BY <1>2, <1>5, <3>1
      <4> QED BY <3>1, <3>2, <4>1
    <3>4. CASE numI > n
      <4>1. p \in 1 .. numI - 1
        BY <1>2, <3>4
      <4> QED BY <3>3, <4>1
    <3>5. CASE numI <= n
      <4>1. numI - 1 = numK /\ numK \in 0 .. n
        BY <1>2, <3>1, <3>5
      <4>2. \A r \in 1 .. n : Flag(numArr, SN!Negs)[r] = 1 <=> numArr[r] < 0
        BY <1>5 DEF Flag
      <4>3. Amount(1, Flag(numArr, SN!Negs), 1, n) = numK
        <5>1. Tally(numArr, SN!Negs, n) = Tally(numOrig, SN!Negs, n)
          BY <1>6a, Zenon
        <5> QED BY <3>1, <5>1 DEF Tally
      <4>4. \A r \in 1 .. numK : Flag(numArr, SN!Negs)[r] = 1
        BY <3>3, <4>1, <4>2
      <4>5. ASSUME q \in numK + 1 .. n PROVE FALSE
        <5>1. Flag(numArr, SN!Negs)[q] # 1
          BY <4>1, <4>3, <4>4, <4>5, AllInFront, Zenon
        <5> QED BY <4>2, <5>1
      <4>6. p \in 1 .. numI - 1
        BY <1>2, <4>1, <4>5
      <4> QED BY <3>3, <4>6
    <3> QED BY <1>2, <3>4, <3>5
  <2> QED BY <1>2, <2>1, <2>2, <2>3, <2>4
<1> QED BY <1>7, <1>8, <1>9, <1>10, <1>13, <1>14

(* The invariant of the algorithm that runs: its behaviour's others stay   *)
(* as they begin and need none.                                            *)
LoopsInv ==
  /\ algorithm \in {"sortnum", "merge", "set", "bubble", "search", "erase", "table", "insert", "find"}
  /\ algorithm = "sortnum" => NumInv
  /\ algorithm = "merge"   => MergeInv
  /\ algorithm = "set"     => SetInv
  /\ algorithm = "bubble"  => BubbleInv
  /\ algorithm = "search"  => SearchInv
  /\ algorithm = "erase"   => EraseInv
  /\ algorithm = "table"   => TableInv
  /\ algorithm = "insert"  => InsertInv
  /\ algorithm = "find"    => FindInv

(* The nine begin as their lemmas say.                                     *)
LEMMA LoopsInitial == LoopsInit => LoopsInv
<1> SUFFICES ASSUME LoopsInit PROVE LoopsInv
  OBVIOUS
<1>1. /\ algorithm \in {"sortnum", "merge", "set", "bubble", "search", "erase", "table", "insert", "find"}
      /\ SN!Init /\ MG!MergeInit /\ MG!SetInit /\ SS!BubbleInit /\ SS!SearchInit
      /\ PR!EraseInit /\ PR!TableInit /\ PR!InsertInit /\ PR!FindInit
  BY Zenon DEF LoopsInit
<1> QED BY <1>1, NumInitial, MergeInitial, SetInitial, BubbleInitial, SearchInitial, EraseInitial, TableInitial,
           InsertInitial, FindInitial, Zenon DEF LoopsInv

(* Steps of the other algorithms leave the four functions alone.           *)
LEMMA NumMoves == NumInv /\ [SN!Next]_numVars => NumInv'
<1>1. CASE SN!Next
  BY <1>1, NumStep, Zenon
<1>2. CASE UNCHANGED numVars
  BY <1>2, Zenon DEF numVars, NumInv
<1> QED BY <1>1, <1>2, Zenon

(* A step of one algorithm is a step of it and of no other.                *)
LEMMA LoopsStep == LoopsInv /\ [LoopsNext]_loopsVars => LoopsInv'
<1> SUFFICES ASSUME LoopsInv, [LoopsNext]_loopsVars PROVE LoopsInv'
  OBVIOUS
<1>1. CASE SortNum
  <2>1. algorithm = "sortnum" /\ algorithm' = "sortnum" /\ SN!Next
    BY <1>1, Zenon DEF SortNum, Runs, Apart
  <2> QED BY <2>1, NumMoves, Zenon DEF LoopsInv
<1>2. CASE Merge
  <2>1. algorithm = "merge" /\ algorithm' = "merge" /\ MG!MergeNext
    BY <1>2, Zenon DEF Merge, Runs, Apart
  <2> QED BY <2>1, MergeStep, Zenon DEF LoopsInv
<1>3. CASE SetAlg
  <2>1. algorithm = "set" /\ algorithm' = "set" /\ MG!SetNext
    BY <1>3, Zenon DEF SetAlg, Runs, Apart
  <2> QED BY <2>1, SetStep, Zenon DEF LoopsInv
<1>4. CASE Bubble
  <2>1. algorithm = "bubble" /\ algorithm' = "bubble" /\ SS!BubbleNext
    BY <1>4, Zenon DEF Bubble, Runs, Apart
  <2> QED BY <2>1, BubbleStep, Zenon DEF LoopsInv
<1>5. CASE Search
  <2>1. algorithm = "search" /\ algorithm' = "search" /\ SS!SearchNext
    BY <1>5, Zenon DEF Search, Runs, Apart
  <2> QED BY <2>1, SearchStep, Zenon DEF LoopsInv
<1>6. CASE EraseEven
  <2>1. algorithm = "erase" /\ algorithm' = "erase" /\ PR!EraseNext
    BY <1>6, Zenon DEF EraseEven, Runs, Apart
  <2> QED BY <2>1, EraseStep, Zenon DEF LoopsInv
<1>7. CASE CallTable
  <2>1. algorithm = "table" /\ algorithm' = "table" /\ PR!TableNext
    BY <1>7, Zenon DEF CallTable, Runs, Apart
  <2> QED BY <2>1, TableStep, Zenon DEF LoopsInv
<1>8. CASE DoubleOdd
  <2>1. algorithm = "insert" /\ algorithm' = "insert" /\ PR!InsertNext
    BY <1>8, Zenon DEF DoubleOdd, Runs, Apart
  <2> QED BY <2>1, InsertStep, Zenon DEF LoopsInv
<1>9. CASE FindNum
  <2>1. algorithm = "find" /\ algorithm' = "find" /\ PR!FindNext
    BY <1>9, Zenon DEF FindNum, Runs, Apart
  <2> QED BY <2>1, FindStep, Zenon DEF LoopsInv
<1>10. CASE UNCHANGED loopsVars
  <2>1. /\ algorithm' = algorithm /\ UNCHANGED numVars /\ UNCHANGED mergeVars /\ UNCHANGED setVars
        /\ UNCHANGED bubbleVars /\ UNCHANGED searchVars /\ UNCHANGED eraseVars /\ UNCHANGED funcVars
        /\ UNCHANGED insertVars /\ UNCHANGED findVars
    BY <1>10, Zenon DEF loopsVars
  <2> QED BY <2>1, NumMoves, MergeStep, SetStep, BubbleStep, SearchStep, EraseStep, TableStep, InsertStep, FindStep,
             Zenon DEF LoopsInv
<1> QED BY <1>1, <1>2, <1>3, <1>4, <1>5, <1>6, <1>7, <1>8, <1>9, <1>10, Zenon DEF LoopsNext

(* At every moment of every call, whatever its input, its bounds and its   *)
(* numbers are, the loops of sort_num.cpp, merge_array.cpp, setalg.cpp,    *)
(* StableSort.cpp, the two searches and the four exercises have placed,    *)
(* found or written what they should have, and SortNum1, SortNum3 and      *)
(* BubbleSort go wrong as their modules say.                               *)
THEOREM LoopsAreRight == LoopsSpec => []LoopsKnow
<1>1. LoopsInv => LoopsKnow
  BY NumMeaning, MergeMeaning, SetMeaning, BubbleMeaning, SearchMeaning, EraseMeaning, TableMeaning, InsertMeaning,
     FindMeaning, Zenon DEF LoopsInv, LoopsKnow
<1> QED BY LoopsInitial, LoopsStep, <1>1, PTL DEF LoopsSpec
===========================================================================
