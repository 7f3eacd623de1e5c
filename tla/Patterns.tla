------------------------------ MODULE Patterns -------------------------------
EXTENDS Integers, FiniteSets, Naturals, SequencesExt

(***************************************************************************)
(* design/state: a building and the states it is in at once, a map from a  *)
(* StateType to an object of its own.  main only constructs and shows one; *)
(* here its operations are called in any order.                            *)
(***************************************************************************)

CONSTANT MaxMade        \* objects made of one type: bounds a run
BuildingAssumption == MaxMade \in Nat \ {0}

VARIABLES m_State,      \* the types that are keys of the map
          made          \* per type, how many state objects were allocated

buildingVars == <<m_State, made>>

StateType == {"BUILDING", "INJURED", "REPAIR", "UPGRADE", "PRODUCTION"}

(* The constructor of ConcretBuilding. *)
BuildingInit == m_State = {"BUILDING"} /\ made = [t \in StateType |-> IF t = "BUILDING" THEN 1 ELSE 0]

(* find, and new when there is none. *)
Put(t) == /\ t \notin m_State => made[t] < MaxMade
          /\ made' = [made EXCEPT ![t] = @ + (IF t \in m_State THEN 0 ELSE 1)]

(* eraseState takes the entry out of the map and not the object away. *)
eraseState(types) == m_State \ types

upGrade == Put("UPGRADE") /\ m_State' = eraseState({"BUILDING", "PRODUCTION"}) \cup {"UPGRADE"}

product == Put("PRODUCTION") /\ m_State' = eraseState({"BUILDING", "UPGRADE"}) \cup {"PRODUCTION"}
injured == Put("INJURED") /\ m_State' = m_State \cup {"INJURED"}

repair == "INJURED" \in m_State /\ Put("REPAIR") /\ m_State' = m_State \cup {"REPAIR"}

BuildingNext == upGrade \/ product \/ injured \/ repair
BuildingSpec == BuildingInit /\ [][BuildingNext]_buildingVars

-----------------------------------------------------------------------------
Activities == {"BUILDING", "UPGRADE", "PRODUCTION"}
Leaked(t)  == made[t] - (IF t \in m_State THEN 1 ELSE 0)

(* A building is always being built, upgraded or producing, one of them,   *)
(* whatever the order of the calls; and it is repaired only if injured.    *)
OneActivity == /\ Cardinality(m_State \cap Activities) = 1
               /\ "REPAIR" \in m_State => "INJURED" \in m_State

(* Only a change of activity loses an object: the two kinds are lost in    *)
(* turn, the first one once, and an injury or a repair never.              *)
LostInTurn == /\ Leaked("INJURED") = 0 /\ Leaked("REPAIR") = 0
              /\ Leaked("BUILDING") = IF "BUILDING" \in m_State THEN 0 ELSE 1
              /\ Leaked("UPGRADE") - Leaked("PRODUCTION") \in -1 .. 1

------------------------------------------------------------------------------
(***************************************************************************)
(* design/mvc: two heroes behind their controls.  The first is attacked    *)
(* once; then main lets it attack the second until that one is dead.       *)
(***************************************************************************)

CONSTANTS MaxHp, MaxAtk         \* the values the setters are called with
HeroAssumption == MaxHp \in Nat /\ MaxAtk \in Nat

Hps  == -MaxHp .. MaxHp
Atks == -MaxAtk .. MaxAtk
MaxHeal == MaxHp + MaxAtk       \* bounds what negative attacks can add

VARIABLES hp, atk,      \* m_Hp and m_Attack of the heroes, 0 while there is no hero
          start,        \* what setHeroHp gave them
          rounds,       \* of main's loop
          fightPc            \* <<step of the set-up, hero>>, then "first", "loop", "done"

fightVars == <<hp, atk, start, rounds, fightPc>>

TypeOK == /\ hp \in [{1, 2} -> -MaxHp .. MaxHeal] /\ atk \in [{1, 2} -> Atks] /\ start \in [{1, 2} -> Hps]
          /\ rounds \in 0 .. MaxHeal + 1 /\ fightPc[1] \in {"new", "setHp", "setAtk", "first", "loop", "done"}

FightInit == /\ hp = [h \in {1, 2} |-> 0] /\ start = hp /\ atk = hp /\ rounds = 0 /\ fightPc = <<"new", 1>>

(* The constructors leave m_Hp and m_Attack as the memory was. *)
HeroControl(h) == /\ fightPc = <<"new", h>> /\ fightPc' = <<"setHp", h>>
                  /\ \E m \in {-MaxHp, MaxHp}, a \in {-MaxAtk, MaxAtk} :
                       hp' = [hp EXCEPT ![h] = m] /\ atk' = [atk EXCEPT ![h] = a]
                  /\ UNCHANGED <<start, rounds>>
setHeroHp(h)  == /\ fightPc = <<"setHp", h>> /\ fightPc' = <<"setAtk", h>>
                 /\ \E v \in Hps : hp' = [hp EXCEPT ![h] = v] /\ start' = [start EXCEPT ![h] = v]
                 /\ UNCHANGED <<atk, rounds>>
setHeroAtk(h) == /\ fightPc = <<"setAtk", h>> /\ fightPc' = (IF h = 1 THEN <<"new", 2>> ELSE <<"first">>)
                 /\ \E v \in Atks : atk' = [atk EXCEPT ![h] = v]
                 /\ UNCHANGED <<hp, start, rounds>>

(* A negative attack is reported and done all the same. *)
beAttack(h, a) == IF h - a < 0 THEN 0 ELSE h - a

isDead(h) == h = 0

First == /\ fightPc = <<"first">> /\ hp' = [hp EXCEPT ![1] = beAttack(@, atk[2])] /\ fightPc' = <<"loop">>
         /\ UNCHANGED <<atk, start, rounds>>

(* Nobody asks whether the attacker is dead. *)
Attack == /\ fightPc = <<"loop">> /\ ~isDead(hp[2]) /\ beAttack(hp[2], atk[1]) <= MaxHeal
          /\ hp' = [hp EXCEPT ![2] = beAttack(@, atk[1])]
          /\ rounds' = IF atk[1] > 0 THEN rounds + 1 ELSE rounds
          /\ UNCHANGED <<atk, start, fightPc>>
Dead   == fightPc = <<"loop">> /\ isDead(hp[2]) /\ fightPc' = <<"done">> /\ UNCHANGED <<hp, atk, start, rounds>>

FightNext == (\E h \in {1, 2} : HeroControl(h) \/ setHeroHp(h) \/ setHeroAtk(h)) \/ First \/ Attack \/ Dead
FightSpec == FightInit /\ [][FightNext]_fightVars /\ WF_fightVars(FightNext)

-----------------------------------------------------------------------------
(* An attack never leaves a hero with less than nothing, and the loop with *)
(* an attack of strength a needs as many rounds as the division says: a    *)
(* hero set below zero is not dead and takes one round more.               *)
RoundsNeeded ==
  /\ fightPc[1] \in {"loop", "done"} => hp[1] >= 0
  /\ fightPc = <<"done">> /\ atk[1] > 0 =>
            rounds = IF start[2] < 0 THEN 1 ELSE (start[2] + atk[1] - 1) \div atk[1]

(* The fight ends if the attack is positive; with none at all only for a   *)
(* hero set at or below zero, which the clamp then kills.                  *)
PositiveEnds == fightPc = <<"first">> /\ (atk[1] > 0 \/ (atk[1] = 0 /\ start[2] <= 0)) ~> fightPc = <<"done">>
OthersDoNot  == fightPc = <<"done">> => atk[1] > 0 \/ start[2] <= 0

------------------------------------------------------------------------------
(***************************************************************************)
(* design/decorator/tab: tables that print their headings.  A decorator    *)
(* holds a pointer to another table, prints its own heading and has the    *)
(* other print the rest; any table may be decorated, more than once.       *)
(***************************************************************************)

CONSTANT MaxDecorators  \* how many are built; bounds the model
DecoratorsAssumption == MaxDecorators \in Nat

Kinds == {"english", "wage", "experience"}      \* the headings of the three classes
Base  == <<"name", "sex", "degree", "age">>     \* the headings of BaseTable

VARIABLES kind,         \* kinds of the decorators, in the order in which they were built
          inner,        \* mpAbsTable of each: another decorator, 0 for the BaseTable
          stack,        \* calls of putTable that have not returned, the innermost last;
                        \* each is <<table, heading or call to come>>
          shown,        \* the table main called putTable of
          out           \* the headings printed since

tableVars == <<kind, inner, stack, shown, out>>

TableInit == kind = <<>> /\ inner = <<>> /\ stack = <<>> /\ shown = 0 /\ out = <<>>

(* main: a decorator is built around a table there is. *)
Decorate == /\ stack = <<>> /\ Len(kind) < MaxDecorators
            /\ \E k \in Kinds, t \in 0 .. Len(kind) : kind' = Append(kind, k) /\ inner' = Append(inner, t)
            /\ UNCHANGED <<stack, shown, out>>

Show == /\ stack = <<>> /\ \E t \in 0 .. Len(kind) : stack' = <<<<t, 1>>>> /\ shown' = t
        /\ out' = <<>> /\ UNCHANGED <<kind, inner>>

table == Last(stack)[1]
line  == Last(stack)[2]
Call(t, back) == stack' = Append(Front(stack), <<table, back>>) \o <<<<t, 1>>>>
Step(back)    == stack' = Append(Front(stack), <<table, back>>)

(* BaseTable::putTable, a heading at a time. *)
PutBase == /\ stack # <<>> /\ table = 0 /\ line <= Len(Base)
           /\ out' = Append(out, Base[line]) /\ Step(line + 1) /\ UNCHANGED <<kind, inner, shown>>

BaseReturns == stack # <<>> /\ table = 0 /\ line > Len(Base) /\ stack' = Front(stack) /\ UNCHANGED <<kind, inner, shown, out>>

PutOwn == /\ stack # <<>> /\ table > 0 /\ line = 1
          /\ out' = Append(out, kind[table]) /\ Step(2) /\ UNCHANGED <<kind, inner, shown>>

PutInner == /\ stack # <<>> /\ table > 0 /\ line = 2 /\ Call(inner[table], 3) /\ UNCHANGED <<kind, inner, shown, out>>
Returns  == stack # <<>> /\ table > 0 /\ line = 3 /\ stack' = Front(stack) /\ UNCHANGED <<kind, inner, shown, out>>

PutTable == PutBase \/ BaseReturns \/ PutOwn \/ PutInner \/ Returns
TableNext == Decorate \/ Show \/ PutTable
TableSpec == TableInit /\ [][TableNext]_tableVars /\ WF_tableVars(PutTable)

-----------------------------------------------------------------------------
(* The headings of a table: those of its decorators from the outermost to  *)
(* the innermost, then the four of the base.                               *)
Headings[t \in 0 .. Len(kind)] == IF t = 0 THEN Base ELSE <<kind[t]>> \o Headings[inner[t]]

(* What is printed is at every moment a beginning of the headings, and     *)
(* when the call has returned it is all of them: a decorator shared by two *)
(* others prints for each of them only what is inside it.                  *)
PrintsHeadings == /\ IsPrefix(out, Headings[shown])
                  /\ stack = <<>> /\ out # <<>> => out = Headings[shown]

(* Every putTable returns. *)
PutReturns == stack # <<>> ~> stack = <<>>
==============================================================================
