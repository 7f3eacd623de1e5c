----------------------------- MODULE BTreeWalk -----------------------------
(***************************************************************************)
(* The calls of the binary tree that loop over a stack or a queue of       *)
(* nodes: PreOrder, MidOrder, PostOrder, LayerOrder, GetMaxKValue and      *)
(* DestoryBTree_Queue, one step per turn of their inner loops, on every    *)
(* tree CreateBTree reads.                                                 *)
(***************************************************************************)
EXTENDS BTree

VARIABLES alg,          \* the call under way, "none" or "done"
          what, asked,  \* the call begun, and the k it was asked for
          cur, last,    \* its pTemp or pRoot; PostOrder's node shown last
          todo,         \* its stack, top first, or its queue
          out,          \* the nodes it has shown, or the one it returns
          k             \* GetMaxKValue's value

walk == <<alg, what, asked, cur, last, todo, out, k>>
vars == <<bvars, walk>>

Init == /\ BInit /\ alg = "none" /\ what = "none" /\ asked = 0 /\ cur = Null /\ last = Null
        /\ todo = <<>> /\ out = <<>> /\ k = 0

(* A call begins on a tree that is there or empty; all begin at the root,  *)
(* those with a queue with it in the queue.                                *)
Begin(a, i) ==
  /\ alg = "none" /\ slots = <<>> /\ root \in live \cup {Null}
  /\ alg' = a /\ what' = a /\ asked' = i /\ k' = i /\ last' = Null /\ out' = <<>>
  /\ cur' = IF a \in {"layer", "destroy"} THEN Null ELSE root
  /\ todo' = IF a \in {"layer", "destroy"} /\ root # Null THEN <<root>> ELSE <<>>
  /\ UNCHANGED bvars

Top   == Head(todo)
Going(a) == alg = a /\ UNCHANGED <<alg, what, asked, bvars>>

(* The inner while: the left spine is pushed, shown in preorder.           *)
Down == /\ cur # Null /\ (Going("pre") \/ Going("mid") \/ Going("post"))
        /\ todo' = <<cur>> \o todo /\ cur' = lc[cur]
        /\ out' = IF alg = "pre" THEN Append(out, cur) ELSE out
        /\ UNCHANGED <<last, k>>

Up == /\ cur = Null /\ todo # <<>> /\ (Going("pre") \/ Going("mid"))
      /\ todo' = Tail(todo) /\ cur' = rc[Top]
      /\ out' = IF alg = "mid" THEN Append(out, Top) ELSE out
      /\ UNCHANGED <<last, k>>

UpPost == /\ cur = Null /\ todo # <<>> /\ Going("post")
          /\ IF rc[Top] \in {Null, last}
             THEN /\ out' = Append(out, Top) /\ last' = Top /\ todo' = Tail(todo) /\ UNCHANGED cur
             ELSE cur' = rc[Top] /\ UNCHANGED <<out, last, todo>>
          /\ UNCHANGED k

Kids(p) == SelectSeq(<<lc[p], rc[p]>>, LAMBDA c : c # Null)

Layer == /\ todo # <<>> /\ Going("layer") /\ out' = Append(out, Top)
         /\ todo' = Tail(todo) \o Kids(Top) /\ UNCHANGED <<cur, last, k>>

(* GetMaxKValue: to the right first, and the k-th node taken off is it.    *)
DownMax == /\ cur # Null /\ Going("max")
           /\ todo' = <<cur>> \o todo /\ cur' = rc[cur] /\ UNCHANGED <<last, out, k>>

UpMax == /\ cur = Null /\ todo # <<>> /\ alg = "max" /\ k' = k - 1
         /\ \/ k = 1 /\ out' = <<Top>> /\ alg' = "done" /\ UNCHANGED <<what, asked, bvars, cur, todo, last>>
            \/ k # 1 /\ Going("max") /\ cur' = lc[Top] /\ todo' = Tail(todo) /\ UNCHANGED <<out, last>>

(* A node is deleted once its children are in the queue; root stays.       *)
QueueDestroy ==
  /\ todo # <<>> /\ alg = "destroy" /\ todo' = Tail(todo) \o Kids(Top)
  /\ live' = live \ {Top} /\ lc' = Cleared(lc, {Top}) /\ rc' = Cleared(rc, {Top})
  /\ UNCHANGED <<alg, what, asked, root, slots, st, sound, cur, last, out, k>>

End == /\ cur = Null /\ todo = <<>> /\ alg \notin {"none", "done"} /\ alg' = "done"
       /\ UNCHANGED <<bvars, what, asked, cur, last, todo, out, k>>

Step == Down \/ Up \/ UpPost \/ Layer \/ DownMax \/ UpMax \/ QueueDestroy \/ End
Next == \/ alg = "none" /\ slots = <<>> /\ live = {} /\ CreateBTree /\ UNCHANGED walk
        \/ (ReadHash \/ ReadNode) /\ UNCHANGED walk
        \/ \E a \in {"pre", "mid", "post", "layer", "destroy"} : Begin(a, 0)
        \/ \E i \in 0 .. N + 1 : Begin("max", i)
        \/ Step
Spec == Init /\ [][Next]_vars /\ WF_vars(Step)

-----------------------------------------------------------------------------
(* The nodes of p's subtree d steps below it, from left to right.          *)
RECURSIVE Level(_, _)
Level(p, d) == IF p = Null THEN <<>> ELSE IF d = 0 THEN <<p>>
               ELSE Level(lc[p], d - 1) \o Level(rc[p], d - 1)
Layers == FlattenSeq([d \in 1 .. N |-> Level(root, d - 1)])

Expected == CASE what = "pre" -> Pre(root) [] what = "mid" -> Mid(root)
              [] what = "post" -> Post(root) [] what = "layer" -> Layers

(* At every moment the loop has shown a beginning of what the recursive    *)
(* call of the same name shows, LayerOrder of the tree row by row, and in  *)
(* the end all of it.                                                      *)
AsTheRecursion == what \in {"pre", "mid", "post", "layer"} =>
  IF alg = "done" THEN out = Expected ELSE IsPrefix(out, Expected)

(* The stack never holds more than one node of a row, so it is bounded by  *)
(* the depth of the tree.                                                  *)
StackInRows == what \in {"pre", "mid", "post", "max"} =>
  \A i, j \in 1 .. Len(todo) : i < j => Distance(todo[i], 1, 1) > Distance(todo[j], 1, 1)

(* In a search tree GetMaxKValue returns the k-th largest: the k-th from   *)
(* the end of the inorder, and without a return when there is none.        *)
KthFromTheRight == what = "max" /\ alg = "done" =>
  LET fromTheRight == Reverse(Mid(root))
  IN  out = IF asked \in 1 .. Len(fromTheRight) THEN <<fromTheRight[asked]>> ELSE <<>>

(* DestoryBTree_Queue deletes every node once: the queue and what hangs    *)
(* below it are the nodes that live, each of them once.                    *)
DestroysOnce == what = "destroy" =>
  LET below == FlattenSeq([i \in 1 .. Len(todo) |-> Pre(todo[i])])
  IN  Range(below) = live /\ Len(below) = Cardinality(live)

(* Every loop comes to its end. *)
Ends == (alg # "none") ~> (alg = "done")
=============================================================================
