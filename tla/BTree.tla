------------------------------- MODULE BTree -------------------------------
(***************************************************************************)
(* The binary tree of date_struct/tree/btree: the tree on a heap, the      *)
(* calls that build and destroy it, and the recursive calls that read it,  *)
(* one operator each.  The calls with a loop are in BTreeWalk.             *)
(*                                                                         *)
(* What a node holds matters to one call only, which looks for the nodes   *)
(* with a value; the value stands for the set of those nodes.              *)
(***************************************************************************)
EXTENDS Integers, Sequences, FiniteSets, FiniteSetsExt, SequencesExt

CONSTANTS N,            \* the nodes there is memory for
          Null,
          Junk          \* the value of a call that ends without a return
Nodes == 1 .. N
TreeAssumption == N \in Nat /\ Null \notin Nodes

VARIABLES root, lc, rc, live,   \* the tree: lChild, rChild of the live nodes
          slots,                \* the pointers Create has still to fill, on its stack
          st,                   \* "ok", or "fault" at the use of a deleted node
          sound                 \* no tree was read over another or built from its
                                \* orders, no GetParents asked of an empty one

tree == <<root, lc, rc, live>>
bvars == <<tree, slots, st, sound>>

BInit == /\ root = Null /\ live = {} /\ slots = <<>> /\ st = "ok" /\ sound = TRUE
         /\ lc = [n \in Nodes |-> Null] /\ rc = [n \in Nodes |-> Null]

-----------------------------------------------------------------------------
(* The calls that only read.  p is the node they have got to.              *)
RECURSIVE Pre(_), Mid(_), Post(_)
Pre(p)  == IF p = Null THEN <<>> ELSE <<p>> \o Pre(lc[p]) \o Pre(rc[p])
Mid(p)  == IF p = Null THEN <<>> ELSE Mid(lc[p]) \o <<p>> \o Mid(rc[p])
Post(p) == IF p = Null THEN <<>> ELSE Post(lc[p]) \o Post(rc[p]) \o <<p>>

RECURSIVE FindParents(_, _)
FindParents(p, n) ==
  IF p = Null THEN p ELSE IF n \in {lc[p], rc[p]} THEN p
  ELSE IF FindParents(lc[p], n) # Null THEN FindParents(lc[p], n) ELSE FindParents(rc[p], n)

RECURSIVE ByValueGetNode(_, _)
ByValueGetNode(p, S) ==
  IF p = Null \/ p \in S THEN p
  ELSE IF ByValueGetNode(lc[p], S) # Null THEN ByValueGetNode(lc[p], S)
  ELSE ByValueGetNode(rc[p], S)

(* Only the outermost call returns something, and only for a child of the  *)
(* root; otherwise it ends without a return and its value is junk.         *)
GetLeftChild(n)  == IF root # Null /\ n \in {lc[root], rc[root]} THEN lc[n] ELSE Junk
GetRightChild(n) == IF root # Null /\ n \in {lc[root], rc[root]} THEN rc[n] ELSE Junk

RECURSIVE Depth(_)
Depth(p) == IF p = Null THEN 0
            ELSE (IF Depth(lc[p]) > Depth(rc[p]) THEN Depth(lc[p]) ELSE Depth(rc[p])) + 1

RECURSIVE OutPutLeaft(_)
OutPutLeaft(p) == IF p = Null THEN <<>>
  ELSE (IF lc[p] = Null /\ rc[p] = Null THEN <<p>> ELSE <<>>) \o OutPutLeaft(lc[p]) \o OutPutLeaft(rc[p])

RECURSIVE GetNodeNum(_)
GetNodeNum(p) == IF p = Null THEN 0 ELSE 1 + GetNodeNum(lc[p]) + GetNodeNum(rc[p])

(* --k twice: the right child is searched for k - 2, lines 518-519.        *)
RECURSIVE GetDepthKNode(_, _)
GetDepthKNode(p, k) == IF p = Null THEN <<>>
  ELSE (IF k = 0 THEN <<p>> ELSE <<>>) \o GetDepthKNode(lc[p], k - 1) \o GetDepthKNode(rc[p], k - 2)

-----------------------------------------------------------------------------
(* CreateBTree reads the tree in preorder, # for no node; a # leaves the   *)
(* pointer as it is, NULL in a new node, the old tree at the root.  The    *)
(* slot 0 is root, n the left pointer of n and -n its right one.           *)
Fill(slot, n) == CASE slot = 0 -> root' = n /\ UNCHANGED <<lc, rc>>
                   [] slot > 0 -> lc' = [lc EXCEPT ![slot] = n] /\ UNCHANGED <<root, rc>>
                   [] slot < 0 -> rc' = [rc EXCEPT ![-slot] = n] /\ UNCHANGED <<root, lc>>

CreateBTree == /\ slots = <<>> /\ slots' = <<0>>
               /\ sound' = (sound /\ root = Null) /\ UNCHANGED <<tree, st>>

ReadHash == slots # <<>> /\ slots' = Tail(slots) /\ UNCHANGED <<tree, st, sound>>

ReadNode == /\ slots # <<>> /\ live # Nodes
            /\ LET n == Min(Nodes \ live) IN
                 /\ Fill(Head(slots), n) /\ live' = live \cup {n}
                 /\ slots' = <<n, -n>> \o Tail(slots)
            /\ UNCHANGED <<st, sound>>

(* Every call that follows root when its node has been deleted. *)
UseDeleted == slots = <<>> /\ root \notin live \cup {Null} /\ st' = "fault"
              /\ UNCHANGED <<tree, slots, sound>>

(* || for &&, line 535: the root for every node; an empty tree faults.     *)
GetParents == /\ slots = <<>> /\ root = Null /\ st' = "fault" /\ sound' = FALSE
              /\ UNCHANGED <<tree, slots>>

Cleared(f, S) == [n \in Nodes |-> IF n \in S THEN Null ELSE f[n]]

(* _DestroyBTree deletes in postorder and sets every pointer to NULL.      *)
DestoryBTree == /\ slots = <<>> /\ root \in live /\ root' = Null
                /\ LET S == Range(Post(root)) IN
                     live' = live \ S /\ lc' = Cleared(lc, S) /\ rc' = Cleared(rc, S)
                /\ UNCHANGED <<slots, st, sound>>

(* The tree from its preorder and inorder.  left and right are the numbers *)
(* of values on either side of the first one; the calls that would build   *)
(* the subtrees are commented out, so the ifs guard the assignment of root *)
(* (lines 462-468), and the node is deleted again.                         *)
CreateBtreeBYPreMid(left, right) ==
  /\ slots = <<>> /\ live # Nodes /\ sound' = FALSE
  /\ root' = IF left > 0 /\ right > 0 THEN Min(Nodes \ live) ELSE root
  /\ UNCHANGED <<lc, rc, live, slots, st>>

Calls == \/ CreateBTree \/ DestoryBTree \/ UseDeleted \/ GetParents
         \/ \E left, right \in 0 .. 1 : CreateBtreeBYPreMid(left, right)
BNext == st = "ok" /\ (Calls \/ ReadHash \/ ReadNode)
BSpec == BInit /\ [][BNext]_bvars

-----------------------------------------------------------------------------
TypeOK == /\ root \in Nodes \cup {Null} /\ live \subseteq Nodes
          /\ {lc, rc} \subseteq [Nodes -> Nodes \cup {Null}]
          /\ slots \in Seq(-N .. N)
          /\ st \in {"ok", "fault"} /\ sound \in BOOLEAN

Tree == Range(Pre(root))
Safe == root \in live \cup {Null} /\ slots = <<>>
IsParent(p, n) == p \in Tree /\ n \in {lc[p], rc[p]}

(* Unless a tree was read over another, or built from its orders, every    *)
(* node allocated and not deleted is in the tree exactly once, while it is *)
(* read too, and nobody uses a deleted one.                                *)
OneTree == sound => /\ root \in live \cup {Null} /\ st = "ok"
                    /\ live = Tree /\ Len(Pre(root)) = Cardinality(live)

(* FindParents gives the parent of every node that has one, and NULL for   *)
(* the root.                                                               *)
ParentsFound == Safe => \A n \in Tree :
  IF n = root THEN FindParents(root, n) = Null ELSE IsParent(FindParents(root, n), n)

(* ByValueGetNode gives the node PreOrderTraverse shows first. *)
FirstInPreorder == Safe => \A S \in SUBSET Tree :
  LET hits == SelectSeq(Pre(root), LAMBDA n : n \in S)
  IN  ByValueGetNode(root, S) = IF hits = <<>> THEN Null ELSE hits[1]

(* How far from the root n is, a step to the left counting a and one to    *)
(* the right b.                                                            *)
RECURSIVE Distance(_, _, _)
Distance(n, a, b) == IF n = root THEN 0
  ELSE LET p == CHOOSE m \in Tree : IsParent(m, n)
       IN  Distance(p, a, b) + (IF n = lc[p] THEN a ELSE b)

(* GetDepthKNode counts a step to the right twice; for one to the left     *)
(* only it shows what it should, and it shows nothing twice.               *)
RightCountsTwice == Safe => \A k \in 0 .. 2 * N :
  /\ IsInjective(GetDepthKNode(root, k))
  /\ Range(GetDepthKNode(root, k)) = {n \in Tree : Distance(n, 1, 2) = k}

(* The sizes agree with each other: the depth is that of the deepest node, *)
(* the leaves come in the order of the preorder, and a node has one more   *)
(* leaf below it than nodes with two children.                             *)
SizesAgree == Safe =>
  /\ GetNodeNum(root) = Cardinality(Tree)
  /\ Depth(root) = IF root = Null THEN 0 ELSE Max({Distance(n, 1, 1) : n \in Tree}) + 1
  /\ OutPutLeaft(root) = SelectSeq(Mid(root), LAMBDA n : lc[n] = Null /\ rc[n] = Null)
  /\ root # Null => Len(OutPutLeaft(root)) = 1 + Cardinality({n \in Tree : Null \notin {lc[n], rc[n]}})
=============================================================================
