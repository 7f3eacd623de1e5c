----------------------------- MODULE MCObjects -----------------------------
(***************************************************************************)
(* The classes, the containers on an array and the design patterns for     *)
(* TLC, one program a behaviour: Init chooses it, and the variables of the *)
(* others stay as they begin.                                              *)
(***************************************************************************)
EXTENDS PointClass, RingQueue

CONSTANTS Holders, Strings, Texts, OwnNumbers,              \* value_class
          MaxMade, MaxHp, MaxAtk, MaxDecorators,            \* state, mvc, decorator
          Walkers, MaxItems, MaxWalks,                      \* iterator
          Listed, MaxList, MaxNotify,                       \* observe, command
          ArrayValues, Room, Pushes, SortValues, MaxLen     \* stack, queue

VARIABLES program,
          vPs, text, vI, value, unset,
          m_State, made, hp, atk, start, rounds, fightPc,
          kind, inner, calls, shown, printed,
          aggregate, count, isMade, m_iCurrent, at, seen, walks, nested,
          class, list, pc, iter, target, before, called, notified,
          arrSize, arr, model, st, q1, q2, pushed, down, gone,
          what, orig, main, tmp, held, left, sortCount, sortShown, sortPc

valueVars    == <<vPs, text, vI, value, unset>>
buildingVars == <<m_State, made>>
fightVars    == <<hp, atk, start, rounds, fightPc>>
tableVars    == <<kind, inner, calls, shown, printed>>
iterVars     == <<aggregate, count, isMade, m_iCurrent, at, seen, walks, nested>>
notifyVars   == <<class, list, pc, iter, target, before, called, notified>>
arrayVars    == <<arrSize, arr, model, st>>
twoVars      == <<q1, q2, pushed, down, gone>>
sortVars     == <<what, orig, main, tmp, held, left, sortCount, sortShown, sortPc>>

VC == INSTANCE ValueClass WITH Objects <- Holders, Blocks <- Strings, Numbers <- OwnNumbers,
                               ps <- vPs, i <- vI
PT == INSTANCE Patterns WITH stack <- calls, out <- printed
IT == INSTANCE AggregateIterator WITH class <- aggregate, made <- isMade
NL == INSTANCE NotifyList WITH Objects <- Listed
ST == INSTANCE Stacks WITH size <- arrSize, count <- sortCount, shown <- sortShown

ASSUME ObjectsAssumption ==
  /\ VC!ValueAssumption /\ PT!BuildingAssumption /\ PT!HeroAssumption /\ PT!DecoratorsAssumption
  /\ IT!IteratorAssumption /\ NL!NotifyAssumption
  /\ ST!StackAssumption /\ ST!PushAssumption /\ ST!SortAssumption

Rest(p) == /\ UNCHANGED program
           /\ p # "point"    => UNCHANGED vars
           /\ p # "value"    => UNCHANGED valueVars
           /\ p # "building" => UNCHANGED buildingVars
           /\ p # "fight"    => UNCHANGED fightVars
           /\ p # "tables"   => UNCHANGED tableVars
           /\ p # "iterator" => UNCHANGED iterVars
           /\ p # "notify"   => UNCHANGED notifyVars
           /\ p # "ring"     => UNCHANGED ringVars
           /\ p # "array"    => UNCHANGED arrayVars
           /\ p # "two"      => UNCHANGED twoVars
           /\ p # "sorts"    => UNCHANGED sortVars

MCInit == /\ program \in {"point", "value", "building", "fight", "tables", "iterator", "notify",
                          "ring", "array", "two", "sorts"}
          /\ program # "iterator" => aggregate = "List"
          /\ program # "notify"   => class = "calc"
          /\ program # "sorts"    => what = "stack" /\ orig = <<>>
          /\ Init /\ VC!Init /\ PT!BuildingInit /\ PT!FightInit /\ PT!TableInit /\ IT!Init /\ NL!Init
          /\ RingInit /\ ST!ArrayInit /\ ST!TwoInit /\ ST!SortInit

Does(p)  == program = p /\ Rest(p)
Point    == Does("point") /\ Next
ValueOf  == Does("value") /\ VC!Next
Building == Does("building") /\ PT!BuildingNext
Fight    == Does("fight") /\ PT!FightNext
Tables   == Does("tables") /\ PT!TableNext
PutTable == Does("tables") /\ PT!PutTable
Iterator == Does("iterator") /\ IT!Next
Walk(w)  == Does("iterator") /\ IT!Walk(w)
Notify   == Does("notify") /\ NL!Next
Loops    == Does("notify") /\ NL!Loops
Ring     == Does("ring") /\ RingNext
Array    == Does("array") /\ ST!ArrayNext
Two      == Does("two") /\ ST!TwoNext
Sorts    == Does("sorts") /\ ST!SortNext

MCNext == \/ Point \/ ValueOf \/ Building \/ Fight \/ Tables \/ Iterator \/ Notify
          \/ Ring \/ Array \/ Two \/ Sorts
MCvars == <<program, vars, valueVars, buildingVars, fightVars, tableVars, iterVars, notifyVars,
            ringVars, arrayVars, twoVars, sortVars>>
(* A call that has begun goes on; main's fight goes on by itself.          *)
MCSpec == /\ MCInit /\ [][MCNext]_MCvars
          /\ WF_MCvars(Fight) /\ WF_MCvars(PutTable) /\ WF_MCvars(Loops) /\ WF_MCvars(Sorts)
          /\ \A w \in Walkers : WF_MCvars(Walk(w))

-----------------------------------------------------------------------------
(* Objects keep what they share or own; a building has one activity and    *)
(* loses its state objects in turn; a fight takes the rounds the division  *)
(* says; an iterator gives each item its turn; only Mishu's own loop loses *)
(* its way; the ring and the array forget no value until their counters    *)
(* have left them, and of the two queues one is empty.                     *)
ObjectsHold ==
  /\ program = "point"    => TypeOK /\ SharedAlike
  /\ program = "value"    => VC!OwnString /\ VC!KeepsText /\ VC!KeepsIfSet
  /\ program = "building" => PT!OneActivity /\ PT!LostInTurn
  /\ program = "fight"    => PT!TypeOK /\ PT!RoundsNeeded /\ PT!OthersDoNot
  /\ program = "iterator" => IT!EachOnceInTurn /\ IT!ClimbsOn /\ IT!Overshoot /\ IT!AloneNeverOvershoots
  /\ program = "notify"   => NL!WildOnlyByErasing
  /\ program = "ring"     => RingTypeOK /\ InsideWithoutGetTop
  /\ program = "array"    => ST!IsAStack
  /\ program = "two"      => ST!OneQueue

(* What no step takes back: a ring that is full stays full and takes       *)
(* nothing (Queue.cpp:27-53), the end of a last owner, and of nobody else, *)
(* reads the deleted counter (point_class.cpp), a stack popped too often   *)
(* never says again that it is empty, and the stack made of two queues     *)
(* gives its newest value once and then the oldest (queue2stack.cpp:47).   *)
NoStepUndoes == FullForGood /\ ReadsDeleted /\ ST!NeverEmptyAgain /\ ST!StackThenQueue

(* Each fight of a positive attack, each walk, each call of putTable and   *)
(* of a list's loops and each sort comes to its end; until then a table    *)
(* has printed a beginning of its headings and the sorts lose nothing, a   *)
(* notification calls what was registered, and a removal that comes back   *)
(* took every registration of that object.                                 *)
CallsReturn ==
  /\ PT!PositiveEnds /\ PT!PutReturns /\ IT!WalksEnd /\ NL!CallsReturn
  /\ program = "tables" => []PT!PrintsHeadings
  /\ program = "notify" => [](NL!CalledAsRegistered /\ NL!RemovedEverywhere)
  /\ program = "sorts"  => ST!Ends /\ [](ST!NothingLost /\ ST!SortedSoFar /\ ST!TurnedOver)
=============================================================================
