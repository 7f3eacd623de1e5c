----------------------------- MODULE Expressions -----------------------------
EXTENDS Integers, Sequences, FiniteSets, FiniteSetsExt

(***************************************************************************)
(* The calculator of date_struct/stack/fix: an infix string is turned into *)
(* a postfix one over a stack of operators, and that is evaluated over a   *)
(* stack of ints.  A step is one character; top() and pop() of an empty    *)
(* stack are faults.  Spaces, which are skipped, are left out, and an      *)
(* operand is one character, as it is in the code.                         *)
(***************************************************************************)

CONSTANTS Digits,       \* the operands tried, some of "0" to "9"
          Longest,      \* of the well-formed expressions tried
          Wildest       \* of the other strings tried

VARIABLES phase,        \* "read", "eval", "done" or "fault"
          infix,        \* what has been read
          suffix, ops,  \* the postfix string; operator_stack, top first
          at, vals      \* place in suffix; value_stack, top first

fixVars == <<phase, infix, suffix, ops, at, vals>>

FixInit == phase = "read" /\ infix = <<>> /\ suffix = <<>> /\ ops = <<>> /\ at = 1 /\ vals = <<>>

Sums     == {"+", "-"}
Products == {"*", "/"}
Arith    == Sums \cup Products
NumOf(d) == (CHOOSE i \in 1 .. 10 : <<"0", "1", "2", "3", "4", "5", "6", "7", "8", "9">>[i] = d) - 1

(* isNumber, which says whether a character is an operator.                *)
isNumber(t) == t \in Arith \cup {"(", ")"}

-----------------------------------------------------------------------------
(* The strings tried: those that can still become an expression, and any   *)
(* short one.                                                              *)
Nesting(s, i) == Cardinality({j \in 1 .. i : s[j] = "("}) - Cardinality({j \in 1 .. i : s[j] = ")"})
Closes(t)     == t \in Digits \cup {")"}
Prefix(s) == \A i \in 1 .. Len(s) :
  /\ Nesting(s, i) >= 0
  /\ (IF i = 1 THEN FALSE ELSE Closes(s[i - 1])) <=> s[i] \in Arith \cup {")"}
WellFormed(s) == s # <<>> /\ Prefix(s) /\ Closes(s[Len(s)]) /\ Nesting(s, Len(s)) = 0
Tried(s) == \/ Len(s) <= Wildest
            \/ Prefix(s) /\ Len(s) + Nesting(s, Len(s)) + (IF Closes(s[Len(s)]) THEN 0 ELSE 1) <= Longest

-----------------------------------------------------------------------------
(* Mutant of CheckOperatorPriority: equals do not give way. *)
CheckStrict(cur, top) == cur \in Sums /\ top \in Products

CheckOperatorPriority(cur, top) ==
  (cur \in Sums /\ top \in Arith) \/ (cur \in Products /\ top \in Products)

(* How many operators loopPushOperInStack moves to the postfix string. *)
Outranked(op) == Min({Len(ops)} \cup {i - 1 : i \in {j \in 1 .. Len(ops) : ~CheckOperatorPriority(op, ops[j])}})

(* How many lie above the last left bracket. *)
AboveBracket == Min({Len(ops)} \cup {i - 1 : i \in {j \in 1 .. Len(ops) : ops[j] = "("}})

Moved(n)   == suffix \o SubSeq(ops, 1, n)
Below(n)   == SubSeq(ops, n + 1, Len(ops))

(* A right bracket without a left one pops the empty stack, line 91.       *)
HandleOperator(t) ==
  CASE t \in Arith -> suffix' = Moved(Outranked(t)) /\ ops' = <<t>> \o Below(Outranked(t)) /\ UNCHANGED phase
    [] t = "("     -> ops' = <<t>> \o ops /\ UNCHANGED <<suffix, phase>>
    [] t = ")"     -> /\ suffix' = Moved(AboveBracket) /\ ops' = Below(AboveBracket + 1)
                      /\ phase' = IF AboveBracket = Len(ops) THEN "fault" ELSE phase

FixRead(t) == /\ phase = "read" /\ Tried(Append(infix, t)) /\ infix' = Append(infix, t)
              /\ IF isNumber(t) THEN HandleOperator(t)
                 ELSE suffix' = Append(suffix, t) /\ UNCHANGED <<ops, phase>>
              /\ UNCHANGED <<at, vals>>

(* The end of the string: what is left on the stack, brackets included,    *)
(* goes to the postfix string unless that is empty, lines 32-39.           *)
EndOfString == /\ phase = "read" /\ phase' = "eval" /\ ops' = <<>>
               /\ (Len(infix) <= Wildest \/ WellFormed(infix))
               /\ suffix' = IF suffix = <<>> THEN <<>> ELSE Moved(Len(ops))
               /\ UNCHANGED <<infix, at, vals>>

(* The / of C rounds towards 0. *)
Quot(a, b) == IF (a >= 0) = (b > 0) THEN (IF a >= 0 THEN a \div b ELSE (-a) \div (-b))
              ELSE -((IF a >= 0 THEN a ELSE -a) \div (IF b > 0 THEN b ELSE -b))

Result(op, v1, v2) == CASE op = "+" -> v1 + v2 [] op = "-" -> v1 - v2 [] op = "*" -> v1 * v2
                        [] op = "/" -> Quot(v1, IF v2 = 0 THEN 1 ELSE v2) [] OTHER -> 0

(* value1 is the top, the right operand; nothing happens when the stack is *)
(* empty, lines 158-161.                                                   *)
CalcResult(op) == vals' = IF vals = <<>> THEN <<>>
                          ELSE <<Result(op, vals[1], vals[2])>> \o SubSeq(vals, 3, Len(vals))

BySuffix ==
  /\ phase = "eval" /\ at <= Len(suffix) /\ at' = at + 1
  /\ IF isNumber(suffix[at])
     THEN IF Len(vals) = 1 THEN phase' = "fault" /\ UNCHANGED vals
          ELSE CalcResult(suffix[at]) /\ UNCHANGED phase
     ELSE vals' = <<NumOf(suffix[at])>> \o vals /\ UNCHANGED phase
  /\ UNCHANGED <<infix, suffix, ops>>

GetResult == /\ phase = "eval" /\ at > Len(suffix)
             /\ phase' = IF vals = <<>> THEN "fault" ELSE "done"
             /\ UNCHANGED <<infix, suffix, ops, at, vals>>

FixNext == (\E t \in Digits \cup Arith \cup {"(", ")"} : FixRead(t)) \/ EndOfString \/ BySuffix \/ GetResult
FixSpec == FixInit /\ [][FixNext]_fixVars

-----------------------------------------------------------------------------
(* The operators between the brackets of an expression, the last of the    *)
(* weakest kind first: where an expression is split.                       *)
Splits(s) == LET top(S) == {i \in 1 .. Len(s) : s[i] \in S /\ Nesting(s, i) = 0}
             IN  IF top(Sums) # {} THEN top(Sums) ELSE top(Products)

RECURSIVE Postfix(_), Value(_, _)
Postfix(s) == IF Len(s) = 1 THEN s
  ELSE IF Splits(s) = {} THEN Postfix(SubSeq(s, 2, Len(s) - 1))
  ELSE LET i == Max(Splits(s)) IN
       Postfix(SubSeq(s, 1, i - 1)) \o Postfix(SubSeq(s, i + 1, Len(s))) \o <<s[i]>>

(* Its value; with the operands of every operator exchanged, its turned one. *)
Value(s, turned) == IF Len(s) = 1 THEN NumOf(s[1])
  ELSE IF Splits(s) = {} THEN Value(SubSeq(s, 2, Len(s) - 1), turned)
  ELSE LET i     == Max(Splits(s))
           left  == Value(SubSeq(s, 1, i - 1), turned)
           right == Value(SubSeq(s, i + 1, Len(s)), turned)
       IN  IF turned THEN Result(s[i], right, left) ELSE Result(s[i], left, right)

(* For an expression the postfix string is that of its parse, operators of *)
(* one priority grouped to the left.                                       *)
PostfixOfTheParse == phase # "read" /\ WellFormed(infix) => suffix = Postfix(infix)

(* No expression takes anything off an empty stack, and its evaluation     *)
(* leaves one value.                                                       *)
ExpressionsEvaluate == /\ phase = "fault" => ~WellFormed(infix)
                       /\ phase = "done" /\ WellFormed(infix) => Len(vals) = 1

(* Whatever is read, the operators above a bracket climb in priority: at   *)
(* most a product on a sum, so the stack holds two per open bracket.       *)
OpsClimb == \A i \in 2 .. Len(ops) :
  {ops[i - 1], ops[i]} \subseteq Arith => ops[i - 1] \in Products /\ ops[i] \in Sums

(* CalcResult takes the operands the wrong way round (Fix.cpp:163-184):    *)
(* the result is the turned value of every expression, and so its value    *)
(* where there is no - and no /.                                           *)
ResultIsTurned == phase = "done" /\ WellFormed(infix) =>
  /\ vals = <<Value(infix, TRUE)>>
  /\ (\A i \in 1 .. Len(infix) : infix[i] \notin {"-", "/"}) => vals = <<Value(infix, FALSE)>>

------------------------------------------------------------------------------
(***************************************************************************)
(* DealMatch of date_struct/stack/match.cpp, a character a step.  Other    *)
(* characters than brackets are skipped and left out.                      *)
(***************************************************************************)

CONSTANT MaxLen         \* of the strings tried

VARIABLES str,          \* what has been read of the string
          stack,        \* bracker_stack, top first
          result        \* "none" before DealMatch returns

matchVars == <<str, stack, result>>

Lefts  == {"(", "[", "{"}
Rights == {")", "]", "}"}
Pair(l, r) == <<l, r>> \in {<<"(", ")">>, <<"[", "]">>, <<"{", "}">>}

MatchInit == str = <<>> /\ stack = <<>> /\ result = "none"

MatchRead(c) == result = "none" /\ Len(str) < MaxLen /\ str' = Append(str, c)

Left(c) == c \in Lefts /\ MatchRead(c) /\ stack' = <<c>> \o stack /\ UNCHANGED result

(* A right bracket that does not fit the top is passed over, lines 31-41.  *)
Right(c) == /\ c \in Rights /\ MatchRead(c)
            /\ IF stack = <<>> THEN result' = "false" /\ UNCHANGED stack
               ELSE /\ stack' = IF Pair(stack[1], c) THEN Tail(stack) ELSE stack
                    /\ UNCHANGED result

Return == /\ result = "none" /\ result' = (IF stack = <<>> THEN "true" ELSE "false")
          /\ UNCHANGED <<str, stack>>

MatchNext == (\E c \in Lefts : Left(c)) \/ (\E c \in Rights : Right(c)) \/ Return
MatchSpec == MatchInit /\ [][MatchNext]_matchVars

-----------------------------------------------------------------------------
(* Balanced strings: nothing, or a pair around one followed by another.    *)
RECURSIVE Balanced(_)
Balanced(s) == s = <<>> \/ \E i \in 2 .. Len(s) :
  Pair(s[1], s[i]) /\ Balanced(SubSeq(s, 2, i - 1)) /\ Balanced(SubSeq(s, i + 1, Len(s)))

Count(S, s) == Cardinality({i \in 1 .. Len(s) : s[i] \in S})

(* A balanced string is accepted. *)
BalancedAccepted == result = "false" => ~Balanced(str)

(* In an accepted string every left bracket has a right one of its kind    *)
(* behind it: from any place on there are as many of these as of those.    *)
LeftsAreClosed == result = "true" => \A l \in Lefts, p \in 1 .. Len(str) :
  LET rest == SubSeq(str, p, Len(str))
  IN  Count({l}, rest) <= Count({r \in Rights : Pair(l, r)}, rest)

(* As long as no right bracket is passed over, the stack is what a prefix  *)
(* of a balanced string leaves open.                                       *)
StackIsOpen == result = "none" /\ Count(Lefts, str) - Count(Rights, str) = Len(stack) =>
  Balanced(str \o [i \in 1 .. Len(stack) |-> CHOOSE r \in Rights : Pair(stack[i], r)])
==============================================================================
