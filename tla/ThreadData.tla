----------------------------- MODULE ThreadData ------------------------------
EXTENDS Naturals

(***************************************************************************)
(* c/pthread/test.c: a thread runs while a flag in main's memory is set;   *)
(* main clears the flag after a few rounds of its own, joins the thread    *)
(* and reads the value the thread has left.                                *)
(***************************************************************************)

CONSTANT Times          \* main's rounds, 3 at line 28
TimesAssumption == Times \in Nat

VARIABLES run, retvalue,        \* the globals; retvalue is 0 until the thread stores 8
          ret_join,             \* what the join gave main: "NULL" or "&retvalue"
          i,                    \* main's counter
          main, son,            \* where the two threads are
          printed,              \* what main read through ret_join
          late                  \* rounds of the son since the flag was cleared

flagVars == <<run, retvalue, ret_join, i, main, son, printed, late>>

FlagInit == /\ run = 1 /\ retvalue = 0 /\ ret_join = "NULL" /\ i = 0 /\ main = "create"
            /\ son = "unborn" /\ printed = {} /\ late = 0

Create == /\ main = "create" /\ main' = "loop" /\ son' = "init"
          /\ UNCHANGED <<run, retvalue, ret_join, i, printed, late>>
CreateFails == /\ main = "create" /\ main' = "exit"
               /\ UNCHANGED <<run, retvalue, ret_join, i, son, printed, late>>

Round == /\ main = "loop" /\ i < Times /\ i' = i + 1
         /\ UNCHANGED <<run, retvalue, ret_join, main, son, printed, late>>

Clear == /\ main = "loop" /\ i = Times /\ run' = 0 /\ main' = "join"
         /\ UNCHANGED <<retvalue, ret_join, i, son, printed, late>>

Join == /\ main = "join" /\ son = "ended" /\ ret_join' = "&retvalue" /\ main' = "print"
        /\ UNCHANGED <<run, retvalue, i, son, printed, late>>

PrintValue == /\ main = "print" /\ ret_join = "&retvalue" /\ printed' = {retvalue} /\ main' = "exit"
              /\ UNCHANGED <<run, retvalue, ret_join, i, son, late>>

(* main's return ends the thread where it is. *)
Alive == main # "exit"

Start == /\ Alive /\ son = "init" /\ son' = "test"
         /\ UNCHANGED <<run, retvalue, ret_join, i, main, printed, late>>

(* The while of line 12: the read is not synchronised with the write of Clear.  *)
Test == /\ Alive /\ son = "test" /\ son' = (IF run = 1 THEN "body" ELSE "leave")
        /\ UNCHANGED <<run, retvalue, ret_join, i, main, printed, late>>

Body == /\ Alive /\ son = "body" /\ son' = "test" /\ late' = (IF run = 0 THEN late + 1 ELSE 0)
        /\ UNCHANGED <<run, retvalue, ret_join, i, main, printed>>

Leave == /\ Alive /\ son = "leave" /\ retvalue' = 8 /\ son' = "ended"
         /\ UNCHANGED <<run, ret_join, i, main, printed, late>>

Main == Create \/ CreateFails \/ Round \/ Clear \/ Join \/ PrintValue
Son  == Start \/ Test \/ Body \/ Leave
FlagNext == Main \/ Son
FlagSpec == FlagInit /\ [][FlagNext]_flagVars /\ WF_flagVars(Main) /\ WF_flagVars(Son)

-----------------------------------------------------------------------------
(* What main prints was stored by the thread before: the join comes        *)
(* between the store at line 18 and the read at line 46.                   *)
PrintsEight == printed \subseteq {8}

(* After the flag is cleared the thread finishes the round it is in and    *)
(* begins no other; a thread that starts late makes none at all.           *)
OneRoundMore == late <= 1

(* The program ends. *)
Ends == <>(main = "exit")

------------------------------------------------------------------------------
(***************************************************************************)
(* mutex_pth_tcp/server.c and pth_tcp/server.c: each thread formats the    *)
(* time it took with ctime, which writes into one buffer of the C library, *)
(* and copies it from there with sprintf.  No lock is held meanwhile.      *)
(***************************************************************************)

CONSTANTS Workers,
          MaxTime       \* bounds the clock
CtimeAssumption == MaxTime \in Nat

Parts == {"date", "clock"}      \* what the bytes of the string are cut into

VARIABLES time,         \* the system's clock
          at,           \* where each thread is
          now,          \* the time it took
          shared,       \* ctime's buffer: per part, the time it shows, 0 before the first
          buf,          \* the thread's own buffer, likewise
          met           \* the threads whose answer was under way with the thread's

ctimeVars == <<time, at, now, shared, buf, met>>
Busy == {w \in Workers : at[w] # "idle"}

CtimeInit == /\ time = 1 /\ at = [w \in Workers |-> "idle"] /\ now = [w \in Workers |-> 0]
             /\ shared = [p \in Parts |-> 0] /\ buf = [w \in Workers |-> [p \in Parts |-> 0]]
             /\ met = [w \in Workers |-> {}]

Tick == time < MaxTime /\ time' = time + 1 /\ UNCHANGED <<at, now, shared, buf, met>>

(* A request has come: now = time(NULL). *)
Time(w) == /\ at[w] = "idle" /\ at' = [at EXCEPT ![w] = "date"] /\ now' = [now EXCEPT ![w] = time]
           /\ met' = [v \in Workers |-> IF v = w THEN {<<u, now[u]>> : u \in Busy}
                                        ELSE IF v \in Busy THEN met[v] \cup {<<w, time>>} ELSE met[v]]
           /\ UNCHANGED <<time, shared, buf>>

(* ctime writes the string from left to right. *)
CtimeDate(w)  == /\ at[w] = "date" /\ at' = [at EXCEPT ![w] = "clock"]
                 /\ shared' = [shared EXCEPT !["date"] = now[w]] /\ UNCHANGED <<time, now, buf, met>>
CtimeClock(w) == /\ at[w] = "clock" /\ at' = [at EXCEPT ![w] = "copy date"]
                 /\ shared' = [shared EXCEPT !["clock"] = now[w]] /\ UNCHANGED <<time, now, buf, met>>

(* sprintf reads it in the same order. *)
CopyDate(w)  == /\ at[w] = "copy date" /\ at' = [at EXCEPT ![w] = "copy clock"]
                /\ buf' = [buf EXCEPT ![w]["date"] = shared["date"]] /\ UNCHANGED <<time, now, shared, met>>
CopyClock(w) == /\ at[w] = "copy clock" /\ at' = [at EXCEPT ![w] = "idle"]
                /\ buf' = [buf EXCEPT ![w]["clock"] = shared["clock"]] /\ UNCHANGED <<time, now, shared, met>>

CtimeNext == \/ Tick
             \/ \E w \in Workers : Time(w) \/ CtimeDate(w) \/ CtimeClock(w) \/ CopyDate(w) \/ CopyClock(w)
CtimeSpec == CtimeInit /\ [][CtimeNext]_ctimeVars

-----------------------------------------------------------------------------
(* A part of an answer that is not the thread's own time is the time of a  *)
(* thread that was answering meanwhile: nothing older ever comes out of    *)
(* the shared buffer.                                                      *)
WrongOnlyByOverlap == \A w \in Workers \ Busy, p \in Parts :
  buf[w][p] # now[w] => \E v \in Workers \ {w} : <<v, buf[w][p]>> \in met[w]
==============================================================================
