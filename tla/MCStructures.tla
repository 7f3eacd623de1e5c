---------------------------- MODULE MCStructures ----------------------------
(***************************************************************************)
(* The structures of linked nodes for TLC, the lists and the tree of       *)
(* date_struct and the directories of design/compoent, and its parsers,    *)
(* one program a behaviour: Init chooses it, and the variables of the      *)
(* others stay as they begin.                                              *)
(***************************************************************************)
EXTENDS Integers, Sequences

CONSTANTS ListNodes, Values, Null, Wild, Dummy, Junk, Directories, Shown

VARIABLES program,
          sHead, sNxt, sVal, sLive, sSt, sSound, sTidy,
          dHead, dNxt, dPrv, dVal, dLive, dSt, freeing, popped, dSound,
          root, lc, rc, live, slots, st, sound,
          alg, call, asked, cur, last, todo, nodes, k,
          m_list, display, calls, dirPc,
          phase, infix, suffix, ops, at, vals,
          str, stack, result

sigVars  == <<sHead, sNxt, sVal, sLive, sSt, sSound, sTidy>>
dobVars  == <<dHead, dNxt, dPrv, dVal, dLive, dSt, freeing, popped, dSound>>
treeVars == <<root, lc, rc, live, slots, st, sound>>
walkVars == <<alg, call, asked, cur, last, todo, nodes, k>>
dirVars  == <<m_list, display, calls, dirPc>>
fixVars  == <<phase, infix, suffix, ops, at, vals>>
matchVars == <<str, stack, result>>

SL == INSTANCE SigList WITH Nodes <- ListNodes, head <- sHead, nxt <- sNxt, val <- sVal, live <- sLive,
                            st <- sSt, sound <- sSound, tidy <- sTidy
DL == INSTANCE DobList WITH Nodes <- ListNodes, head <- dHead, nxt <- dNxt, prv <- dPrv, val <- dVal,
                            live <- dLive, st <- dSt, sound <- dSound
(* All trees of up to four nodes. *)
TR == INSTANCE BTreeWalk WITH N <- 4, what <- call, out <- nodes
(* Directories of two children: shared ones, doubled ones, cycles.         *)
DT == INSTANCE ShowTree WITH Dirs <- Directories, Files <- {"file"}, root <- Shown, MaxList <- 2, MaxDepth <- 4,
                             shown <- display, pc <- dirPc
(* Expressions of seven tokens hold brackets around a sum in a product.    *)
EX == INSTANCE Expressions WITH Digits <- {"2", "3"}, Longest <- 7, Wildest <- 3, MaxLen <- 5

ASSUME /\ SL!ListAssumption /\ DL!DobAssumption /\ TR!TreeAssumption /\ DT!TreeAssumption

Rest(p) == /\ UNCHANGED program
           /\ p # "single" => UNCHANGED sigVars
           /\ p # "double" => UNCHANGED dobVars
           /\ p \notin {"tree", "walk"} => UNCHANGED treeVars
           /\ p # "walk"   => UNCHANGED walkVars
           /\ p # "dirs"   => UNCHANGED dirVars
           /\ p # "infix"  => UNCHANGED fixVars
           /\ p # "match"  => UNCHANGED matchVars

MCInit == /\ program \in {"single", "double", "tree", "walk", "dirs", "infix", "match"}
          /\ program # "single" => sHead = Null
          /\ program # "double" => dHead = Null
          /\ SL!Init /\ DL!Init /\ TR!Init /\ DT!Init /\ EX!FixInit /\ EX!MatchInit

Does(p) == program = p /\ Rest(p)
Single   == Does("single") /\ SL!Next
Double   == Does("double") /\ DL!Next
FreeList == Does("double") /\ (DL!FreeStep \/ DL!FreeEnd)
Tree     == Does("tree") /\ TR!BNext
Walk     == Does("walk") /\ TR!Next
WalkStep == Does("walk") /\ TR!Step
Dirs     == Does("dirs") /\ DT!Next
Infix    == Does("infix") /\ EX!FixNext
Match    == Does("match") /\ EX!MatchNext
ShowDirs == Does("dirs") /\ DT!Show

MCNext == Single \/ Double \/ Tree \/ Walk \/ Dirs \/ Infix \/ Match
MCvars == <<program, sigVars, dobVars, treeVars, walkVars, dirVars, fixVars, matchVars>>
(* A call that has begun goes on: FreeList, the walks and showTree.        *)
MCSpec == MCInit /\ [][MCNext]_MCvars /\ WF_MCvars(FreeList) /\ WF_MCvars(WalkStep) /\ WF_MCvars(ShowDirs)

-----------------------------------------------------------------------------
(* Lists: nothing but the calls named in the modules leaves a pointer to a *)
(* deleted node, breaks a link back or leaks a node; showTree shows every  *)
(* way to a file once, in order, and overflows for a cycle only.  Trees:   *)
(* each node is in the tree once until somebody reads over it, the calls   *)
(* that recur agree, the loops show what the recursion shows with a stack  *)
(* no deeper than the tree, and the queue deletes each node once.          *)
LinksHold ==
  /\ program = "single" => SL!TypeOK /\ SL!EndsInNull /\ SL!NoLeak /\ SL!HuanOnlyEven
  /\ program = "double" => DL!TypeOK /\ DL!BackLinks /\ DL!NoLeak
  /\ program = "dirs"   => DT!ShownIsTheTree /\ DT!OverflowIsACycle
  /\ program = "tree" => /\ TR!TypeOK /\ TR!OneTree /\ TR!ParentsFound /\ TR!FirstInPreorder
                         /\ TR!RightCountsTwice /\ TR!SizesAgree
  /\ program = "walk" => TR!AsTheRecursion /\ TR!StackInRows /\ TR!KthFromTheRight /\ TR!DestroysOnce

(* Parsers: an expression becomes the postfix string of its parse and has  *)
(* its value with the operands exchanged; balanced brackets match, and a   *)
(* string that matches closes its left ones.                               *)
ParsersKnow ==
  /\ program = "infix" => EX!PostfixOfTheParse /\ EX!ExpressionsEvaluate /\ EX!OpsClimb /\ EX!ResultIsTurned
  /\ program = "match" => EX!BalancedAccepted /\ EX!LeftsAreClosed /\ EX!StackIsOpen

(* What a step may not do, and what is done in the end: a list loses its   *)
(* last node to DeleteSameValue1 only; FreeList deletes all nodes, and the *)
(* walks and showTree return.                                              *)
StructuresMove == SL!OnlyRunsEmptyIt /\ DL!FreesAll /\ TR!Ends /\ DT!ShowEnds
=============================================================================
