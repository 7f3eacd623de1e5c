------------------------------ MODULE SigList ------------------------------
(***************************************************************************)
(* The singly linked list of date_struct/list/sigList on a heap: nodes are *)
(* allocated, freed and reused, and a pointer may outlive its node.  Every *)
(* call is one step.  A call that dereferences NULL or a node that is not  *)
(* live faults, one that walks a ring without end hangs; both end the run. *)
(*                                                                         *)
(* The constructor leaves head uninitialised.  FreeList, Reverse and with  *)
(* FreeList the destructor do not compile once they are instantiated.      *)
(***************************************************************************)
EXTENDS Integers, Sequences, FiniteSets, SequencesExt

CONSTANTS Nodes, Values,
          Null, Wild,           \* a pointer to nowhere; an uninitialised one
          Dummy                 \* the node in front of head that two calls allocate
ListAssumption == {Null, Wild, Dummy} \cap Nodes = {}

VARIABLES head, nxt, val, live, \* the heap: nxt and val of the live nodes
          st,                   \* "ok", "fault" or "hang"
          sound,                \* head began as NULL and DeleteTail was not called
          tidy                  \* neither DelIndexValue nor DeleSameValue was

heap == <<head, nxt, val, live>>
vars == <<heap, st, sound, tidy>>

Init == /\ head \in {Null, Wild} /\ live = {} /\ st = "ok"
        /\ nxt = [n \in Nodes |-> Null] /\ val \in [Nodes -> {CHOOSE v \in Values : TRUE}]
        /\ sound = (head = Null) /\ tidy = TRUE

-----------------------------------------------------------------------------
(* The nodes met from head on, and the pointer at which the walk stops:    *)
(* NULL, a node met before, or no node.                                    *)
RECURSIVE Walk(_, _, _, _)
Walk(nodes, next, p, met) == IF p \in nodes /\ p \notin Range(met)
                             THEN Walk(nodes, next, next[p], Append(met, p)) ELSE met
StopsAt(next, path) == IF path = <<>> THEN head ELSE next[Last(path)]
Path == Walk(live, nxt, head, <<>>)
End  == StopsAt(nxt, Path)

Ends     == End = Null
Lost(end, path) == st' = (IF end \in Range(path) THEN "hang" ELSE "fault")
Stuck    == ~Ends /\ Lost(End, Path)
Fault    == st' = "fault"
Hits(v)  == {i \in 1 .. Len(Path) : val[Path[i]] = v}
First(S) == CHOOSE i \in S : \A j \in S : i <= j

New(n, v, next) == /\ n \in Nodes \ live /\ live' = live \cup {n}
                   /\ val' = [val EXCEPT ![n] = v]
                   /\ nxt' = [next EXCEPT ![n] = @]
Free(S) == /\ live' = live \ S
           /\ val' = [n \in Nodes |-> IF n \in S THEN CHOOSE v \in Values : TRUE ELSE val[n]]

-----------------------------------------------------------------------------
InsertHead(v) == \E n \in Nodes : New(n, v, [nxt EXCEPT ![n] = head]) /\ head' = n
                                  /\ UNCHANGED <<st, sound, tidy>>

(* The node is made before the walk, which comes to it if a pointer to the *)
(* node that was there before is left: it is then linked to itself.        *)
InsertTail(v) == \E n \in Nodes \ live :
  LET next == [nxt EXCEPT ![n] = Null]
      path == Walk(live \cup {n}, next, head, <<>>)
      end  == StopsAt(next, path)
  IN  /\ \/ head = Null /\ New(n, v, next) /\ head' = n /\ UNCHANGED st
         \/ /\ head # Null /\ end = Null /\ UNCHANGED <<head, st>>
            /\ New(n, v, [next EXCEPT ![Last(path)] = n])
         \/ end # Null /\ Lost(end, path) /\ UNCHANGED heap
      /\ UNCHANGED <<sound, tidy>>

(* Deletes the first node with the value; when that is the head the loop   *)
(* goes on with the node it has deleted, lines 79-85 and 65-67.            *)
DeleteByValue(v) ==
  \/ /\ Hits(v) = {} /\ (Stuck \/ (Ends /\ UNCHANGED st)) /\ UNCHANGED <<heap, sound, tidy>>
  \/ /\ 1 \in Hits(v) /\ Fault /\ UNCHANGED <<heap, sound, tidy>>
  \/ /\ Hits(v) # {} /\ 1 \notin Hits(v)
     /\ LET i == First(Hits(v)) IN
          /\ Free({Path[i]})
          /\ nxt' = [nxt EXCEPT ![Path[i - 1]] = nxt[Path[i]], ![Path[i]] = Null]
     /\ UNCHANGED <<head, st, sound, tidy>>

SearchValue(v) == Hits(v) = {} /\ Stuck /\ UNCHANGED <<heap, sound, tidy>>
Show           == Stuck /\ UNCHANGED <<heap, sound, tidy>>

DeleteHead ==
  \/ /\ head \in live /\ nxt[head] # Null /\ head' = nxt[head]
     /\ Free({head}) /\ nxt' = [nxt EXCEPT ![head] = Null] /\ UNCHANGED <<st, sound, tidy>>
  \/ head \notin live /\ Fault /\ UNCHANGED <<heap, sound, tidy>>

(* The last node is deleted and still linked, lines 135-141. *)
DeleteTail ==
  \/ /\ Ends /\ head # Null /\ Free({Last(Path)}) /\ sound' = FALSE
     /\ UNCHANGED <<head, nxt, st, tidy>>
  \/ head = Null /\ Fault /\ UNCHANGED <<heap, sound, tidy>>
  \/ Stuck /\ UNCHANGED <<heap, sound, tidy>>

RECURSIVE Turn(_, _, _)
Turn(p1, p2, n) == IF p2 \notin live THEN [end |-> p2, head |-> p1, nxt |-> n]
                   ELSE Turn(p2, n[p2], [n EXCEPT ![p2] = p1])
Turned == Turn(head, nxt[head], [nxt EXCEPT ![head] = Null])

(* Reverse1 and FanZhuan differ in what they do to an empty list. *)
Reversed ==
  /\ head \in live
  /\ IF Turned.end = Null THEN head' = Turned.head /\ nxt' = Turned.nxt /\ UNCHANGED <<val, live, st>>
                          ELSE Fault /\ UNCHANGED heap
  /\ UNCHANGED <<sound, tidy>>
Reverse1 == Reversed \/ (head = Wild /\ Fault /\ UNCHANGED <<heap, sound, tidy>>)
FanZhuan == Reversed \/ (head \notin live /\ Fault /\ UNCHANGED <<heap, sound, tidy>>)

-----------------------------------------------------------------------------
(* The value of p->next, which for no node is Dummy, that nobody follows.  *)
Next1(p) == IF p \in live THEN nxt[p] ELSE Dummy

RECURSIVE Chase(_, _)
Chase(slow, fast) == CASE Dummy \in {slow, fast} -> "fault"
                       [] Null \in {slow, fast}  -> "no ring"
                       [] slow = fast            -> "ring"
                       [] OTHER                  -> Chase(Next1(slow), Next1(Next1(fast)))

(* What CheckHuan returns: the && of line 220 lets every list through.     *)
Huan == Chase(Next1(head), Next1(Next1(head)))
CheckHuan == Huan = "fault" /\ Fault /\ UNCHANGED <<heap, sound, tidy>>

After(p) == IF p = Dummy THEN head ELSE nxt[p]
RECURSIVE Ahead(_, _), Behind(_, _)
Ahead(p, k)     == IF p = Null \/ k < 0 THEN p ELSE Ahead(After(p), k - 1)
Behind(fast, p) == IF fast = Null THEN p ELSE Behind(After(fast), After(p))

(* The node is unlinked from the dummy or its predecessor and not deleted; *)
(* head is not assigned, lines 240-266.                                    *)
DelIndexValue(k) ==
  \/ /\ Ends /\ tidy' = FALSE /\ UNCHANGED <<head, val, live, sound>>
     /\ LET slow == Behind(Ahead(Dummy, k), Dummy) IN
          CASE After(slow) = Null -> Fault /\ UNCHANGED nxt
            [] slow = Dummy       -> UNCHANGED <<nxt, st>>
            [] OTHER              -> nxt' = [nxt EXCEPT ![slow] = nxt[After(slow)]] /\ UNCHANGED st
  \/ Stuck /\ UNCHANGED <<heap, sound, tidy>>

(* The last node from p on that has p's value. *)
RECURSIVE RunEnd(_)
RunEnd(p) == IF nxt[p] # Null /\ val[nxt[p]] = val[p] THEN RunEnd(nxt[p]) ELSE p

RECURSIVE Squeeze(_, _, _)
Squeeze(cur, pre, n) == IF cur = Null THEN n
  ELSE IF RunEnd(cur) = cur THEN Squeeze(nxt[cur], cur, n)
  ELSE Squeeze(nxt[RunEnd(cur)], pre, [n EXCEPT ![pre] = nxt[RunEnd(cur)]])

DeleSameValue ==
  \/ /\ Ends /\ nxt' = Squeeze(head, head, nxt) /\ tidy' = FALSE
     /\ UNCHANGED <<head, val, live, st, sound>>
  \/ Stuck /\ UNCHANGED <<heap, sound, tidy>>

(* The nodes DeleteSameValue1 keeps, in order, and those it deletes. *)
RECURSIVE Singles(_)
Singles(cur) == IF cur = Null THEN <<>>
  ELSE IF RunEnd(cur) = cur THEN <<cur>> \o Singles(nxt[cur]) ELSE Singles(nxt[RunEnd(cur)])

(* On a ring it deletes nodes it comes back to, or never comes to an end.  *)
DeleteSameValue1 ==
  \/ /\ Ends /\ LET s == Singles(head) IN
          /\ head' = IF s = <<>> THEN Null ELSE s[1]
          /\ nxt' = [n \in Nodes |-> IF n \in Range(Path) /\ (n \notin Range(s) \/ n = Last(s)) THEN Null
                      ELSE IF n \notin Range(s) THEN nxt[n]
                      ELSE s[First({i \in 1 .. Len(s) : s[i] = n}) + 1]]
          /\ Free(Range(Path) \ Range(s))
     /\ UNCHANGED <<st, sound, tidy>>
  \/ ~Ends /\ st' \in {"fault"} \cup (IF End \in live THEN {"hang"} ELSE {})
     /\ UNCHANGED <<heap, sound, tidy>>

Next ==
  /\ st = "ok"
  /\ \/ \E v \in Values : InsertHead(v) \/ InsertTail(v) \/ DeleteByValue(v) \/ SearchValue(v)
     \/ Show \/ DeleteHead \/ DeleteTail \/ Reverse1 \/ FanZhuan \/ CheckHuan
     \/ \E k \in 0 .. Cardinality(Nodes) : DelIndexValue(k)
     \/ DeleSameValue \/ DeleteSameValue1
Spec == Init /\ [][Next]_vars

-----------------------------------------------------------------------------
TypeOK == /\ head \in Nodes \cup {Null, Wild} /\ live \subseteq Nodes
          /\ nxt \in [Nodes -> Nodes \cup {Null, Wild}] /\ val \in [Nodes -> Values]
          /\ st \in {"ok", "fault", "hang"} /\ {sound, tidy} \subseteq BOOLEAN

(* Only DeleteTail and the uninitialised head leave a pointer to no node   *)
(* in the list; until then no reuse of memory closes a ring.               *)
EndsInNull == sound => Ends

(* Until DelIndexValue or DeleSameValue is called every node that was      *)
(* allocated and not deleted is in the list: nothing leaks.                *)
NoLeak == sound /\ tidy => live = Range(Path)

(* CheckHuan tells whether there is a ring, or faults; of the lists that   *)
(* end it survives those with an even number of nodes.                     *)
HuanOnlyEven ==
  /\ Ends => Huan = (IF Path # <<>> /\ Len(Path) % 2 = 0 THEN "no ring" ELSE "fault")
  /\ Huan = "ring" => End \in Range(Path)

(* A list that has a node becomes empty only when DeleteSameValue1 finds   *)
(* nothing but runs in it: DeleteHead keeps the only node, DeleteByValue   *)
(* and DelIndexValue never take the first one off.                         *)
OnlyRunsEmptyIt ==
  [][sound /\ sound' /\ head # Null /\ head' = Null => Singles(head) = <<>>]_vars
=============================================================================
