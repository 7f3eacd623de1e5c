---------------------------- MODULE TimeService ----------------------------
(***************************************************************************)
(* What every time server of src/cpp/c/udp promises, whatever its          *)
(* transport and process structure (datagrams in a loop; one loop, a       *)
(* process per connection, a thread per connection, a pool of threads).    *)
(*                                                                         *)
(* A client that asks for the time over its connection is answered, and    *)
(* the only ways of not being answered are to ask for something else, to   *)
(* leave, or to meet a server that stops.  A client whose connection never *)
(* got through is turned away.                                             *)
(***************************************************************************)

CONSTANTS Clients,      \* the client processes, one connection each
          TimeClients   \* those whose request is "TIME"

VARIABLES up,           \* the server accepts connections
          phase         \* the life of each client's request

tvars == <<up, phase>>

Phases == {"out", "turned away", "asking", "answered", "dropped", "left"}

TimeInit == up = FALSE /\ phase = [c \in Clients |-> "out"]

(* c's request moves from one of the phases From to the phase to. *)
Move(c, From, to) ==
  /\ phase[c] \in From
  /\ phase' = [phase EXCEPT ![c] = to]
  /\ UNCHANGED up

(* The server comes up and stops, each at most once. *)
StartUp  == ~up /\ (\A c \in Clients : phase[c] \in {"out", "turned away"})
                /\ up' = TRUE /\ UNCHANGED phase
ShutDown == up /\ up' = FALSE /\ UNCHANGED phase

TurnAway(c) == Move(c, {"out"}, "turned away")
Ask(c)      == Move(c, {"out"}, "asking")
Answer(c)   == c \in TimeClients /\ Move(c, {"asking"}, "answered")
Drop(c)     == (up => c \notin TimeClients) /\ Move(c, {"asking"}, "dropped")
Leave(c)    == Move(c, {"asking"}, "left")

TimeNext ==
  \/ StartUp \/ ShutDown
  \/ \E c \in Clients : TurnAway(c) \/ Ask(c) \/ Answer(c) \/ Drop(c) \/ Leave(c)

TimeSpec == TimeInit /\ [][TimeNext]_tvars
=============================================================================
