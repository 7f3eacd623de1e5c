------------------------------ MODULE ForkPipe ------------------------------
(***************************************************************************)
(* progress/pipe.c: a process makes a pipe and forks; the child writes a   *)
(* message and the parent reads it.  progress/fork.c, which only forks and *)
(* prints on both sides, is the same program without the pipe.  What they  *)
(* print is left out.                                                      *)
(***************************************************************************)
EXTENDS Naturals

CONSTANT Message        \* how many bytes strlen(buf) is
PipeAssumption == Message \in Nat \ {0}

VARIABLES prog,         \* "pipe" or "fork"
          at,           \* "parent" and "child": where each process is
          readers, writers,     \* the processes that hold an end of the pipe
          pipe,         \* bytes in the pipe
          size,         \* what the parent's read returned: <<>> or <<number>>
          status        \* per process: its exit status, "" while it runs

vars == <<prog, at, readers, writers, pipe, size, status>>
Procs == {"parent", "child"}

Init == /\ prog \in {"pipe", "fork"}
        /\ at = [p \in Procs |-> IF p = "parent" THEN "pipe" ELSE "unborn"]
        /\ readers = {} /\ writers = {} /\ pipe = 0 /\ size = <<>>
        /\ status = [p \in Procs |-> ""]

Go(p, a)  == at' = [at EXCEPT ![p] = a]
(* A process ends: its ends are closed.                                    *)
Exit(p, st) == /\ Go(p, "ended") /\ status' = [status EXCEPT ![p] = st]
               /\ readers' = readers \ {p} /\ writers' = writers \ {p}

MakePipe  == /\ at["parent"] = "pipe" /\ Go("parent", "fork")
             /\ (IF prog = "pipe" THEN readers' = {"parent"} /\ writers' = {"parent"} ELSE UNCHANGED <<readers, writers>>)
             /\ UNCHANGED <<prog, pipe, size, status>>
PipeFails == prog = "pipe" /\ at["parent"] = "pipe" /\ Exit("parent", "-1") /\ UNCHANGED <<prog, pipe, size>>

Fork == /\ at["parent"] = "fork" /\ at' = [p \in Procs |-> "label"]
        /\ readers' = (IF prog = "pipe" THEN Procs ELSE {}) /\ writers' = readers'
        /\ UNCHANGED <<prog, pipe, size, status>>
ForkFails == at["parent"] = "fork" /\ Exit("parent", "-1") /\ UNCHANGED <<prog, pipe, size>>

(* The branch of the child says father, the parent's says son. *)
PrintLabel(p) == /\ at[p] = "label" /\ Go(p, IF prog = "pipe" THEN "close" ELSE "return")
                 /\ UNCHANGED <<prog, readers, writers, pipe, size, status>>

CloseOther(p) == /\ at[p] = "close"
                 /\ \/ p = "child" /\ readers' = readers \ {p} /\ Go(p, "write") /\ UNCHANGED writers
                    \/ p = "parent" /\ writers' = writers \ {p} /\ Go(p, "read") /\ UNCHANGED readers
                 /\ UNCHANGED <<prog, pipe, size, status>>

(* The kernel ends a process that writes where nobody can read. *)
Write == /\ at["child"] = "write" /\ readers # {} /\ pipe' = pipe + Message /\ Go("child", "return")
         /\ UNCHANGED <<prog, readers, writers, size, status>>
BrokenPipe == /\ at["child"] = "write" /\ readers = {}
              /\ Go("child", "ended") /\ status' = [status EXCEPT !["child"] = "SIGPIPE"] /\ writers' = writers \ {"child"}
              /\ UNCHANGED <<prog, readers, pipe, size>>

(* read waits for bytes, or for the last write end to be closed.           *)
Read == /\ at["parent"] = "read" /\ (pipe > 0 \/ writers = {})
        /\ size' = <<pipe>> /\ pipe' = 0 /\ Go("parent", "print")
        /\ UNCHANGED <<prog, readers, writers, status>>
ShowRead == /\ at["parent"] = "print" /\ Go("parent", "return")
            /\ UNCHANGED <<prog, readers, writers, pipe, size, status>>
Return(p) == at[p] = "return" /\ Exit(p, "0") /\ UNCHANGED <<prog, pipe, size>>

(* Somebody kills a process. *)
Kill(p) == /\ at[p] \notin {"unborn", "ended"} /\ Go(p, "ended")
           /\ status' = [status EXCEPT ![p] = "killed"]
           /\ readers' = readers \ {p} /\ writers' = writers \ {p}
           /\ UNCHANGED <<prog, pipe, size>>

Parent == MakePipe \/ PipeFails \/ Fork \/ ForkFails \/ PrintLabel("parent") \/ CloseOther("parent")
          \/ Read \/ ShowRead \/ Return("parent")
Child  == PrintLabel("child") \/ CloseOther("child") \/ Write \/ BrokenPipe \/ Return("child")
Next   == Parent \/ Child \/ \E p \in Procs : Kill(p)
Spec   == Init /\ [][Next]_vars /\ WF_vars(Parent) /\ WF_vars(Child)

-----------------------------------------------------------------------------
(* What the parent reads is the whole message or, only when the child was  *)
(* killed before its write, nothing.                                       *)
WholeOrNothing == size # <<>> => size \in {<<Message>>, <<0>>}
                                 /\ (size = <<0>> => status["child"] = "killed" /\ prog = "pipe")

(* The child writes into a pipe without a reader only if the parent was    *)
(* killed: left alone, it cannot be gone before it has read.               *)
BrokenByAKill == at["child"] = "write" /\ readers = {} => status["parent"] = "killed"

(* The parent comes to its end, the child killed or not: it has closed its *)
(* own write end, so that its read sees the end of the child's.            *)
BothEnd == <>(at["parent"] = "ended") /\ (at["child"] # "unborn" ~> at["child"] = "ended")
=============================================================================
