------------------------------ MODULE DobList ------------------------------
(***************************************************************************)
(* The doubly linked list of date_struct/list/dobList on a heap whose      *)
(* freed nodes are used again.  Every call is one step, FreeList one step  *)
(* per node.  A call that dereferences NULL or a node that is not live     *)
(* faults, one that walks a ring without end hangs; both end the run.      *)
(***************************************************************************)
EXTENDS Integers, Sequences, FiniteSets, SequencesExt

CONSTANTS Nodes, Values, Null, Wild     \* Wild: what the constructor leaves in head
DobAssumption == {Null, Wild} \cap Nodes = {}

VARIABLES head, nxt, prv, val, live,    \* the heap
          st,                           \* "ok", "fault" or "hang"
          freeing,                      \* inside FreeList
          popped,                       \* DeleteByHead made this node the head
          sound                         \* head began as NULL, and no DeleteByValue
                                        \* has met a head with a prev

heap == <<head, nxt, prv, val, live>>
vars == <<heap, st, freeing, popped, sound>>

AnyValue == CHOOSE v \in Values : TRUE
Init == /\ head \in {Null, Wild} /\ live = {} /\ st = "ok" /\ sound = (head = Null)
        /\ nxt = [n \in Nodes |-> Null] /\ prv = nxt /\ val = [n \in Nodes |-> AnyValue]
        /\ freeing = FALSE /\ popped = FALSE

-----------------------------------------------------------------------------
RECURSIVE Walk(_, _, _, _)
Walk(nodes, next, p, met) == IF p \in nodes /\ p \notin Range(met)
                             THEN Walk(nodes, next, next[p], Append(met, p)) ELSE met
StopsAt(next, path) == IF path = <<>> THEN head ELSE next[Last(path)]
Path == Walk(live, nxt, head, <<>>)
End  == StopsAt(nxt, Path)
Ends == End = Null

(* The call ends the run and nothing is said of the heap. *)
Ruin(how) == st' = how /\ UNCHANGED <<heap, freeing, popped, sound>>
Fault     == Ruin("fault")
Lost(end, path) == Ruin(IF end \in Range(path) THEN "hang" ELSE "fault")
Stuck     == ~Ends /\ Lost(End, Path)

Hit(v) == LET S == {i \in 1 .. Len(Path) : val[Path[i]] = v}
          IN  IF S = {} THEN 0 ELSE CHOOSE i \in S : \A j \in S : i <= j

(* A freed node is shown with empty fields. *)
Free(p) == live' = live \ {p} /\ val' = [val EXCEPT ![p] = AnyValue]
Dead(f, p) == [f EXCEPT ![p] = Null]

-----------------------------------------------------------------------------
InsertHead(v) ==
  IF head \notin live \cup {Null} THEN Fault
  ELSE \E n \in Nodes \ live :
         /\ live' = live \cup {n} /\ val' = [val EXCEPT ![n] = v] /\ head' = n
         /\ nxt' = [nxt EXCEPT ![n] = head]
         /\ prv' = [p \in Nodes |-> IF p = n THEN Null ELSE IF p = head THEN n ELSE prv[p]]
         /\ popped' = FALSE /\ UNCHANGED <<st, freeing, sound>>

(* The node is made before the walk, which comes to it if the head is left *)
(* where the node that was there before has been deleted.                  *)
InsertTail(v) ==
  \/ head = Null /\ InsertHead(v)
  \/ /\ head # Null
     /\ \E n \in Nodes \ live :
          LET next == [nxt EXCEPT ![n] = Null]
              path == Walk(live \cup {n}, next, head, <<>>)
              end  == StopsAt(next, path)
          IN  \/ /\ end = Null /\ live' = live \cup {n} /\ val' = [val EXCEPT ![n] = v]
                 /\ nxt' = [next EXCEPT ![Last(path)] = n] /\ prv' = [prv EXCEPT ![n] = Last(path)]
                 /\ UNCHANGED <<head, st, freeing, popped, sound>>
              \/ end # Null /\ Lost(end, path)

(* The prev of the new head still points at the deleted node, line 106;    *)
(* line 107 clears the prev of the node about to be deleted.               *)
DeleteByHead ==
  \/ /\ head \in live /\ head' = nxt[head] /\ Free(head)
     /\ nxt' = Dead(nxt, head) /\ prv' = Dead(prv, head) /\ popped' = (nxt[head] # Null)
     /\ UNCHANGED <<st, freeing, sound>>
  \/ head \notin live \cup {Null} /\ Fault

DeleteByTail ==
  \/ head \notin live /\ DeleteByHead
  \/ head \in live /\ nxt[head] = Null /\ DeleteByHead
  \/ head \in live /\ nxt[head] # Null /\ Stuck
  \/ /\ head \in live /\ nxt[head] # Null /\ Ends
     /\ LET p == Last(Path) IN
          IF prv[p] \notin live THEN Fault
          ELSE /\ Free(p) /\ nxt' = Dead(Dead(nxt, prv[p]), p) /\ prv' = Dead(prv, p)
               /\ UNCHANGED <<head, st, freeing, popped, sound>>

(* Mutant of DeleteByValue: the neighbour behind is not relinked. *)
DeleteByValueOneWay(v) ==
  LET p == Path[Hit(v)] IN
  /\ Hit(v) # 0 /\ {nxt[p], prv[p]} \subseteq live /\ Free(p)
  /\ nxt' = Dead([nxt EXCEPT ![prv[p]] = nxt[p]], p) /\ prv' = Dead(prv, p)
  /\ sound' = (sound /\ p # head) /\ UNCHANGED <<head, st, freeing, popped>>

(* Of the first node with the value: without prev and with next it is the  *)
(* head, which DeleteByHead deletes and the loop looks at again; else both *)
(* neighbours are written to, the freed one of a stale head included.      *)
DeleteByValue(v) ==
  \/ Hit(v) = 0 /\ Stuck
  \/ /\ Hit(v) # 0
     /\ LET p == Path[Hit(v)] IN
          IF ~({nxt[p], prv[p]} \subseteq live) THEN Fault
          ELSE /\ Free(p) /\ sound' = (sound /\ p # head)
               /\ prv' = Dead([prv EXCEPT ![nxt[p]] = prv[p]], p)
               /\ nxt' = Dead([nxt EXCEPT ![prv[p]] = nxt[p]], p)
               /\ UNCHANGED <<head, st, freeing, popped>>

(* A value that is not there ends in NULL->data, line 149. *)
SearchByValue(v) == Hit(v) = 0 /\ head # Null /\ (Stuck \/ (Ends /\ Fault))

Show == Stuck

FreeList == ~freeing /\ freeing' = TRUE /\ UNCHANGED <<heap, st, popped, sound>>
FreeStep == freeing /\ head # Null /\ st = "ok" /\ DeleteByTail
FreeEnd  == freeing /\ head = Null /\ st = "ok" /\ freeing' = FALSE /\ UNCHANGED <<heap, st, popped, sound>>

Calls == \/ \E v \in Values : InsertHead(v) \/ InsertTail(v) \/ DeleteByValue(v) \/ SearchByValue(v)
         \/ DeleteByHead \/ DeleteByTail \/ Show \/ FreeList
Next == FreeStep \/ FreeEnd \/ (st = "ok" /\ ~freeing /\ Calls)

(* FreeList runs once it is called. *)
Spec == Init /\ [][Next]_vars /\ WF_vars(FreeStep \/ FreeEnd)

-----------------------------------------------------------------------------
TypeOK == /\ head \in Nodes \cup {Null, Wild} /\ live \subseteq Nodes
          /\ {nxt, prv} \subseteq [Nodes -> Nodes \cup {Null}] /\ val \in [Nodes -> Values]
          /\ st \in {"ok", "fault", "hang"} /\ {freeing, popped, sound} \subseteq BOOLEAN

(* As long as no DeleteByValue has met a head that DeleteByHead made, the  *)
(* list ends, its nodes point back at each other, and the head points back *)
(* at something only if DeleteByHead made it the head.                     *)
BackLinks == sound =>
  /\ Ends /\ \A i \in 2 .. Len(Path) : prv[Path[i]] = Path[i - 1]
  /\ head # Null /\ ~popped => prv[head] = Null

(* Until then every node allocated and not deleted is in the list. *)
NoLeak == sound => live = Range(Path)

(* And FreeList deletes every node of the list exactly once.               *)
FreesAll == (freeing /\ sound) ~> (head = Null /\ live = {} /\ st = "ok")
=============================================================================
