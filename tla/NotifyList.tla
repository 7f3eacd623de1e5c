----------------------------- MODULE NotifyList -----------------------------
(***************************************************************************)
(* Four classes that keep a std::list of pointers and call each of them:   *)
(* the subjects QQGroup and Mishu (design/observe) and the invokers of     *)
(* design/command, calc and command_queue.  Their calls come in any order. *)
(***************************************************************************)
EXTENDS Integers, Sequences, FiniteSets, SequencesExt

CONSTANTS Objects,      \* the observers or commands
          MaxList, MaxNotify
NotifyAssumption == MaxList \in Nat /\ MaxNotify \in Nat

VARIABLES class,        \* "QQGroup", "Mishu", "calc" or "queue"
          list,         \* _observers, obsers, m_cmds
          pc,           \* "idle", "remove" (Mishu's loop), "notify", "wild"
          iter, target, \* where the loop stands; what Mishu removes
          before,       \* the list when the call began
          called,       \* Update or Execute of these, in this call
          notified      \* how many notifications there have been

vars == <<class, list, pc, iter, target, before, called, notified>>

Invokers == {"calc", "queue"}
Init == /\ class \in {"QQGroup", "Mishu"} \cup Invokers /\ list = <<>> /\ pc = "idle" /\ iter = 1
        /\ target = {} /\ before = <<>> /\ called = <<>> /\ notified = 0

PushBack(x) == /\ pc = "idle" /\ Len(list) < MaxList /\ list' = Append(list, x) /\ before' = list /\ target' = {}
               /\ UNCHANGED <<class, pc, iter, called, notified>>
(* std::list::remove: every element equal to x. *)
RemoveAll(x) == /\ pc = "idle" /\ list' = SelectSeq(list, LAMBDA y : y # x) /\ before' = list /\ target' = {x}
                /\ UNCHANGED <<class, pc, iter, called, notified>>

registerObserver(x) == class = "QQGroup" /\ PushBack(x)

removeObserver(x)   == class = "QQGroup" /\ list # <<>> /\ RemoveAll(x)
AddCmd(x) == class = "calc" /\ PushBack(x)
DelCmd(x) == class = "calc" /\ RemoveAll(x)
QueueAddCmd(x) == class = "queue" /\ PushBack(x)
QueueDelCmd(x) == class = "queue" /\ RemoveAll(x)

-----------------------------------------------------------------------------
(* Mishu::removeObserver has a loop of its own, which erases an element    *)
(* and then takes the step to the next one from there.                     *)
MishuRegister(x) == class = "Mishu" /\ PushBack(x)
MishuRemove(x)   == /\ class = "Mishu" /\ pc = "idle" /\ list # <<>>
                    /\ pc' = "remove" /\ iter' = 1 /\ target' = {x} /\ before' = list
                    /\ UNCHANGED <<class, list, called, notified>>

MishuPass == /\ pc = "remove" /\ iter <= Len(list) /\ list[iter] \notin target
             /\ iter' = iter + 1 /\ UNCHANGED <<class, list, pc, target, before, called, notified>>
(* The erased node is read for the step: it may still be as it was, or     *)
(* its memory may hold something else.                                     *)
MishuErase == /\ pc = "remove" /\ iter <= Len(list) /\ list[iter] \in target
              /\ list' = RemoveAt(list, iter) /\ pc' \in {"remove", "wild"}
              /\ UNCHANGED <<class, iter, target, before, called, notified>>
MishuDone == /\ pc = "remove" /\ iter > Len(list) /\ pc' = "idle"
             /\ UNCHANGED <<class, list, iter, target, before, called, notified>>

-----------------------------------------------------------------------------
NotifyBegin == /\ pc = "idle" /\ notified < MaxNotify /\ pc' = "notify" /\ iter' = 1 /\ called' = <<>>
               /\ before' = list /\ target' = {} /\ notified' = notified + 1 /\ UNCHANGED <<class, list>>

Call == /\ pc = "notify" /\ iter <= Len(list) /\ called' = Append(called, list[iter])
        /\ iter' = iter + 1 /\ UNCHANGED <<class, list, pc, target, before, notified>>
NotifyEnd == /\ pc = "notify" /\ iter > Len(list) /\ pc' = "idle"
             /\ UNCHANGED <<class, list, iter, target, before, called, notified>>

Notify == NotifyBegin \/ Call \/ NotifyEnd
notifyObservers == class = "QQGroup" /\ Notify
notifyObserver  == class = "Mishu" /\ Notify
CalcNotify      == class = "calc" /\ Notify
QueueNotify     == class = "queue" /\ Notify

Loops == MishuPass \/ MishuErase \/ MishuDone \/ (pc = "notify" /\ (Call \/ NotifyEnd))
Next == \/ \E x \in Objects : registerObserver(x) \/ removeObserver(x) \/ AddCmd(x) \/ DelCmd(x)
                              \/ QueueAddCmd(x) \/ QueueDelCmd(x) \/ MishuRegister(x) \/ MishuRemove(x)
        \/ MishuPass \/ MishuErase \/ MishuDone
        \/ notifyObservers \/ notifyObserver \/ CalcNotify \/ QueueNotify
Spec == Init /\ [][Next]_vars /\ WF_vars(Loops)

-----------------------------------------------------------------------------
(* A notification calls what was registered when it began, each as often   *)
(* as it was registered and in that order, nothing else.                   *)
CalledAsRegistered == /\ pc = "notify" => called = SubSeq(before, 1, iter - 1) /\ list = before
                      /\ pc = "idle" /\ notified > 0 /\ target = {} /\ before = list => called = before

(* A removal that comes back took exactly that object out, all its         *)
(* registrations, and left the others in order: Mishu's own loop as well.  *)
RemovedEverywhere == pc = "idle" /\ target # {} => list = SelectSeq(before, LAMBDA y : y \notin target)

(* Only Mishu can lose its way, and only over an object it had registered. *)
WildOnlyByErasing == pc = "wild" => class = "Mishu" /\ target \cap Range(before) # {}

(* Every removal and notification that is not lost comes back. *)
CallsReturn == pc \in {"remove", "notify"} ~> pc \in {"idle", "wild"}
=============================================================================
