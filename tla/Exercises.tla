------------------------------ MODULE Exercises ------------------------------
EXTENDS Naturals, SequencesExt, Integers

(***************************************************************************)
(* Prime/stl/9-26.cpp: the even numbers are to be erased from a vector and *)
(* the odd ones from a list, each by one loop.  The loop over the list     *)
(* tests *iterv, the vector's iterator, which the first loop has left at   *)
(* the vector's end.                                                       *)
(***************************************************************************)

CONSTANTS MaxSize,      \* how many numbers there are at most
          Values
EraseAssumption == MaxSize \in Nat /\ Values \subseteq Nat

VARIABLES ia,           \* the array main begins with
          mem,          \* the vector's memory and the number behind it
          size,         \* of the vector: its elements are mem[1 .. size]
          iterv,        \* position of the vector's iterator
          li, iterl,    \* the list and its iterator
          erasePc            \* "vector", "list", "done"

eraseVars == <<ia, mem, size, iterv, li, iterl, erasePc>>
vi   == SubSeq(mem, 1, size)
Odd(x)  == x % 2 = 1
Even(x) == x % 2 = 0

EraseInit == /\ ia \in UNION {[1 .. n -> Values] : n \in 0 .. MaxSize}
             /\ \E behind \in Values : mem = Append(ia, behind)
             /\ size = Len(ia) /\ li = ia /\ iterv = 1 /\ iterl = 1 /\ erasePc = "vector"

(* erase moves what follows down by one; the last number stays behind too. *)
Erase == /\ erasePc = "vector" /\ iterv <= size /\ Even(mem[iterv])
         /\ mem' = [n \in DOMAIN mem |-> IF n \in iterv .. size - 1 THEN mem[n + 1] ELSE mem[n]]
         /\ size' = size - 1 /\ UNCHANGED <<ia, iterv, li, iterl, erasePc>>
Keep  == /\ erasePc = "vector" /\ iterv <= size /\ Odd(mem[iterv]) /\ iterv' = iterv + 1
         /\ UNCHANGED <<ia, mem, size, li, iterl, erasePc>>
VectorEnd == erasePc = "vector" /\ iterv > size /\ erasePc' = "list" /\ UNCHANGED <<ia, mem, size, iterv, li, iterl>>

ListErase == /\ erasePc = "list" /\ iterl <= Len(li) /\ Odd(mem[iterv]) /\ li' = RemoveAt(li, iterl)
             /\ UNCHANGED <<ia, mem, size, iterv, iterl, erasePc>>
ListKeep  == /\ erasePc = "list" /\ iterl <= Len(li) /\ Even(mem[iterv]) /\ iterl' = iterl + 1
             /\ UNCHANGED <<ia, mem, size, iterv, li, erasePc>>

ListEnd   == erasePc = "list" /\ iterl > Len(li) /\ erasePc' = "done" /\ UNCHANGED <<ia, mem, size, iterv, li, iterl>>

EraseNext == Erase \/ Keep \/ VectorEnd \/ ListErase \/ ListKeep \/ ListEnd
EraseSpec == EraseInit /\ [][EraseNext]_eraseVars /\ WF_eraseVars(EraseNext)

-----------------------------------------------------------------------------
(* The ways to take the numbers of s from t in their order, so that no odd *)
(* one stays behind.                                                       *)
Thins(s, t) == {m \in [DOMAIN s -> DOMAIN t] :
  /\ \A p \in DOMAIN s : s[p] = t[m[p]]
  /\ \A p, q \in DOMAIN s : p < q => m[p] < m[q]
  /\ \A r \in DOMAIN t : Odd(t[r]) => \E p \in DOMAIN s : m[p] = r}

(* The vector's loop erases from under its iterator and skips nothing: the *)
(* part behind the iterator is odd, the whole vector in the end, and       *)
(* nothing odd is lost.                                                    *)
VectorKeepsOdd == /\ \A n \in DOMAIN vi : n < iterv => Odd(vi[n])
                  /\ Thins(vi, ia) # {}
                  /\ erasePc # "vector" => iterv > size

(* Whatever the list holds, it ends empty or untouched (line 37): if the   *)
(* vector lost anything, by its last number, which every erase leaves      *)
(* behind the new end; otherwise by what is behind its memory.             *)
LastDecides == erasePc = "done" =>
  /\ li \in {<<>>, ia}
  /\ size < Len(ia) => li = IF Odd(Last(ia)) THEN <<>> ELSE ia

(* Both loops end. *)
LoopsEnd == <>(erasePc = "done")

------------------------------------------------------------------------------
(***************************************************************************)
(* Prime/1/type_chag.cpp: four functions in a vector, called one after     *)
(* another with the same two numbers.  The last divides, and asserts first *)
(* that its divisor is positive; a failed assertion aborts the program.    *)
(***************************************************************************)

CONSTANTS MaxX, MaxY    \* main's numbers are taken from -Max to Max; 10 and -20 at lines 56-57
TableAssumption == MaxX \in Nat /\ MaxY \in Nat

VARIABLES x, y,
          vp,           \* the vector, by the names of the functions
          iter,         \* the loop's index, from 0
          shown,        \* the results printed
          tablePc            \* "push", "loop", "exit", "abort"

tableVars == <<x, y, vp, iter, shown, tablePc>>

TableInit == x \in -MaxX .. MaxX /\ y \in -MaxY .. MaxY /\ vp = <<>> /\ iter = 0 /\ shown = <<>> /\ tablePc = "push"

Pushed(n)      == <<"add", "sub", "mul", "divv">>[n]
PushBack == /\ tablePc = "push" /\ vp' = Append(vp, Pushed(Len(vp) + 1))
            /\ tablePc' = (IF Len(vp') = 4 THEN "loop" ELSE "push") /\ UNCHANGED <<x, y, iter, shown>>

(* C++ divides towards zero. *)
Quotient(a, b) == LET abs(n) == IF n < 0 THEN -n ELSE n IN
                  IF (a < 0) = (b < 0) THEN abs(a) \div abs(b) ELSE -(abs(a) \div abs(b))

Result(f)     == CASE f = "add" -> x + y [] f = "sub" -> x - y [] f = "mul" -> x * y [] f = "divv" -> Quotient(x, y)

Call   == /\ tablePc = "loop" /\ iter < 4 /\ (vp[iter + 1] = "divv" => y > 0)
          /\ shown' = Append(shown, Result(vp[iter + 1])) /\ iter' = iter + 1 /\ UNCHANGED <<x, y, vp, tablePc>>
(* assert(b > 0) of divv. *)
Abort  == /\ tablePc = "loop" /\ iter < 4 /\ vp[iter + 1] = "divv" /\ y <= 0 /\ tablePc' = "abort"
          /\ UNCHANGED <<x, y, vp, iter, shown>>
Return == tablePc = "loop" /\ iter = 4 /\ tablePc' = "exit" /\ UNCHANGED <<x, y, vp, iter, shown>>

TableNext == PushBack \/ Call \/ Abort \/ Return
TableSpec == TableInit /\ [][TableNext]_tableVars /\ WF_tableVars(TableNext)

-----------------------------------------------------------------------------
(* The results fit together: sum and difference give twice x, the quotient *)
(* and its remainder give x again, and the remainder has the sign of x.    *)
ResultsFit ==
  /\ Len(shown) >= 2 => shown[1] + shown[2] = 2 * x
  /\ Len(shown) = 4 => LET r == x - shown[4] * y IN r \in -(y - 1) .. y - 1 /\ r * x >= 0

(* An aborted program has shown everything but the quotient: only the last *)
(* of the four can fail.                                                   *)
ThreeThenAbort == tablePc = "abort" => shown = <<x + y, x - y, x * y>>

------------------------------------------------------------------------------
(***************************************************************************)
(* Prime/stl/9-34.cpp: every odd number is to be doubled by inserting it   *)
(* again before itself.  The loop steps on from the copy to the number it  *)
(* has just copied.                                                        *)
(***************************************************************************)

CONSTANT Room           \* elements the vector can grow to before new throws
InsertAssumption == Room \in Nat

VARIABLES whole, grown, \* the vector at first and now
          place,        \* position of iter
          insertPc      \* "loop", "bad_alloc", "done"

insertVars == <<whole, grown, place, insertPc>>

InsertInit == whole \in BoundedSeq(Values, MaxSize) /\ grown = whole /\ place = 1 /\ insertPc = "loop"

Insert   == /\ insertPc = "loop" /\ place <= Len(grown) /\ Odd(grown[place]) /\ Len(grown) < Room
            /\ grown' = InsertAt(grown, place, grown[place]) /\ place' = place + 1 /\ UNCHANGED <<whole, insertPc>>
Pass     == /\ insertPc = "loop" /\ place <= Len(grown) /\ Even(grown[place]) /\ place' = place + 1
            /\ UNCHANGED <<whole, grown, insertPc>>
(* insert finds no memory and throws, nobody catches it. *)
NoMemory == /\ insertPc = "loop" /\ place <= Len(grown) /\ Odd(grown[place]) /\ Len(grown) >= Room
            /\ insertPc' = "bad_alloc" /\ UNCHANGED <<whole, grown, place>>
InsertEnd == insertPc = "loop" /\ place > Len(grown) /\ insertPc' = "done" /\ UNCHANGED <<whole, grown, place>>

InsertNext == Insert \/ Pass \/ NoMemory \/ InsertEnd

-----------------------------------------------------------------------------
Odds == {q \in DOMAIN whole : Odd(whole[q])}

(* All the copies are of the first odd number, the iterator stays at that  *)
(* number behind them, and the loop only ends for want of odd numbers.     *)
FirstOddAgain ==
  LET n == Len(grown) - Len(whole) IN
  /\ n > 0 => LET p == Min(Odds) IN
       /\ place = p + n
       /\ grown = SubSeq(whole, 1, p - 1) \o [q \in 1 .. n |-> whole[p]] \o SubSeq(whole, p, Len(whole))
  /\ insertPc = "done" => Odds = {} /\ grown = whole

(* One odd number is enough for the vector to grow till memory is gone.    *)
OddEatsMemory == <>(insertPc = IF Odds = {} THEN "done" ELSE "bad_alloc")

------------------------------------------------------------------------------
(***************************************************************************)
(* Prime/stl/9-4.cpp: find_num says whether a number is in a vector, and   *)
(* find_value gives it back, or 101 when it is not there.                  *)
(***************************************************************************)

VARIABLES fn, vec, num, \* the function called, and its arguments
          begin,        \* position of its iterator
          back          \* <<>>, or what it returned; bools as numbers

findVars == <<fn, vec, num, begin, back>>

FindInit == /\ fn \in {"find_num", "find_value"} /\ vec \in BoundedSeq({1, 4, 101}, MaxSize) /\ num \in {1, 70, 101}
            /\ begin = 1 /\ back = <<>>

Hit     == /\ back = <<>> /\ begin <= Len(vec) /\ vec[begin] = num
           /\ back' = <<IF fn = "find_num" THEN 1 ELSE vec[begin]>> /\ UNCHANGED <<fn, vec, num, begin>>
Miss    == /\ back = <<>> /\ begin <= Len(vec) /\ vec[begin] # num /\ begin' = begin + 1
           /\ UNCHANGED <<fn, vec, num, back>>
FindEnd == /\ back = <<>> /\ begin > Len(vec) /\ back' = <<IF fn = "find_num" THEN 0 ELSE 101>>
           /\ UNCHANGED <<fn, vec, num, begin>>

FindNext == Hit \/ Miss \/ FindEnd

-----------------------------------------------------------------------------
(* The first occurrence decides, and the two functions agree but for the   *)
(* one number that find_value returns whether it is there or not.          *)
FoundUnless101 ==
  /\ \A q \in 1 .. begin - 1 : vec[q] # num
  /\ back # <<>> => /\ fn = "find_num" => (back[1] = 1 <=> num \in Range(vec))
                    /\ fn = "find_value" => (back[1] = num <=> num \in Range(vec) \/ num = 101)

FindReturns == <>(back # <<>>)
==============================================================================
