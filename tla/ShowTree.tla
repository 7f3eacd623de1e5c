------------------------------ MODULE ShowTree ------------------------------
(***************************************************************************)
(* design/compoent/directory: directories hold files and directories, and  *)
(* showTree shows what is below the root.  add checks nothing: a directory *)
(* may be added twice, in two places, or below itself.                     *)
(***************************************************************************)
EXTENDS Integers, Sequences, SequencesExt

CONSTANTS Dirs, Files, root,    \* the objects, and what is shown
          MaxList,              \* children of one directory
          MaxDepth              \* calls of showTree the stack has room for
TreeAssumption == /\ root \in Dirs /\ Dirs \cap Files = {}
                         /\ MaxList \in Nat /\ MaxDepth \in Nat

VARIABLES m_list,       \* the children of each directory
          shown,        \* what display has shown: <<object, tabs before it>>
          calls,        \* showTree's calls, the innermost last: <<directory, children done>>
          pc            \* "build", "show", "done", "overflow"

vars == <<m_list, shown, calls, pc>>

Init == m_list = [d \in Dirs |-> <<>>] /\ shown = <<>> /\ calls = <<>> /\ pc = "build"

(* File::add and File::remove return -1 and change nothing. *)
add(d, x)    == /\ pc = "build" /\ Len(m_list[d]) < MaxList /\ m_list' = [m_list EXCEPT ![d] = Append(@, x)]
                /\ UNCHANGED <<shown, calls, pc>>
(* list::remove takes every occurrence out. *)
remove(d, x) == /\ pc = "build" /\ m_list' = [m_list EXCEPT ![d] = SelectSeq(@, LAMBDA y : y # x)]
                /\ UNCHANGED <<shown, calls, pc>>

showTree(d, level) == /\ shown' = Append(shown, <<d, level>>)
                      /\ calls' = Append(calls, <<d, 0>>)

Start == pc = "build" /\ pc' = "show" /\ showTree(root, 0) /\ UNCHANGED m_list

Top   == calls[Len(calls)]
Child == m_list[Top[1]][Top[2] + 1]
OneMore == calls' = [calls EXCEPT ![Len(calls)][2] = @ + 1]

(* A file is shown here, one tab deeper than the directory. *)
ShowFile == /\ pc = "show" /\ Top[2] < Len(m_list[Top[1]]) /\ Child \in Files
            /\ shown' = Append(shown, <<Child, Len(calls)>>) /\ OneMore /\ UNCHANGED <<m_list, pc>>

ShowDir  == /\ pc = "show" /\ Top[2] < Len(m_list[Top[1]]) /\ Child \in Dirs /\ Len(calls) < MaxDepth
            /\ shown' = Append(shown, <<Child, Len(calls)>>)
            /\ calls' = Append([calls EXCEPT ![Len(calls)][2] = @ + 1], <<Child, 0>>)
            /\ UNCHANGED <<m_list, pc>>
Overflow == /\ pc = "show" /\ Top[2] < Len(m_list[Top[1]]) /\ Child \in Dirs /\ Len(calls) = MaxDepth
            /\ pc' = "overflow" /\ UNCHANGED <<m_list, shown, calls>>

(* Mutant of Return: the loop waits for one child more. *)
ReturnLate == /\ pc = "show" /\ Top[2] > Len(m_list[Top[1]]) /\ calls' = Front(calls)
              /\ pc' = (IF Len(calls) = 1 THEN "done" ELSE "show") /\ UNCHANGED <<m_list, shown>>

Return   == /\ pc = "show" /\ Top[2] = Len(m_list[Top[1]]) /\ calls' = Front(calls)
            /\ pc' = (IF Len(calls) = 1 THEN "done" ELSE "show") /\ UNCHANGED <<m_list, shown>>

Build == \E d \in Dirs, x \in Dirs \cup Files : add(d, x) \/ remove(d, x)
Show  == ShowFile \/ ShowDir \/ Overflow \/ Return
Next  == Build \/ Start \/ Show
Spec  == Init /\ [][Next]_vars /\ WF_vars(Show)

-----------------------------------------------------------------------------
(* The directories from which no way of k steps or more leads on.          *)
RECURSIVE Within(_)
Within(k) == IF k = 0 THEN {}
             ELSE {d \in Dirs : \A x \in Range(m_list[d]) : x \in Files \cup Within(k - 1)}
(* The list of everything below a directory, each with its depth.          *)
RECURSIVE Below(_, _)
Below(x, level) == <<<<x, level>>>> \o
  IF x \in Files THEN <<>>
  ELSE FlattenSeq([i \in 1 .. Len(m_list[x]) |-> Below(m_list[x][i], level + 1)])

Acyclic == root \in Within(MaxDepth)

(* Without a cycle below the root every way to an object is shown once, in *)
(* order and with its depth; at every moment a beginning of that.          *)
ShownIsTheTree == Acyclic /\ pc # "build" => /\ IsPrefix(shown, Below(root, 0))
                                             /\ pc = "done" => shown = Below(root, 0)

(* Nothing but a directory below itself can exhaust the stack, and then    *)
(* showTree never returns.                                                 *)
OverflowIsACycle == (pc = "overflow" => ~Acyclic) /\ (pc = "done" => Acyclic)

(* Every call of showTree comes to its end, one way or the other. *)
ShowEnds == pc = "show" ~> pc \in {"done", "overflow"}
=============================================================================
