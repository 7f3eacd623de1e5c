------------------------------ MODULE SortNum ------------------------------
(***************************************************************************)
(* array/code/sort_num.cpp: four ways to bring the negative numbers of an  *)
(* array to its front.  Sequences count from 1 and the code from 0: an     *)
(* index here is the code's plus one.                                      *)
(***************************************************************************)
EXTENDS Integers, Sequences, FiniteSets

CONSTANTS MaxValue, MaxLen
SortNumAssumption == MaxValue \in Nat /\ MaxLen \in Nat

Values == -MaxValue .. MaxValue

VARIABLES alg,          \* SortNum, SortNum1, SortNum2, SortNum3: 0 .. 3
          orig, arr,    \* the argument when called, and now
          i, k,         \* i and nega_num; low and hig; start and finsh
          temp,         \* SortNum3's buffer, up to nega_num + plus_num
          moves,        \* how often SortNum has moved a number to the end
          pc            \* "run", "plus" (SortNum3's second loop), "done", "leaked"

vars == <<alg, orig, arr, i, k, temp, moves, pc>>

Negs       == {v \in Values : v < 0}
NotNegs    == {v \in Values : v >= 0}
Where(s, S)    == {p \in DOMAIN s : s[p] \in S}
Count(s, S)    == Cardinality(Where(s, S))
Swap(a, p, q)  == [a EXCEPT ![p] = a[q], ![q] = a[p]]

Init == /\ alg \in 0 .. 3 /\ orig \in UNION {[1 .. m -> Values] : m \in 0 .. MaxLen} /\ arr = orig
        /\ i = 1 /\ temp = <<>> /\ moves = 0
        /\ k = <<Count(orig, Negs), Len(orig), 1, 0>>[alg + 1]
        /\ pc = IF alg > 0 /\ orig = <<>> THEN "done" ELSE "run"

Is(n, p)  == alg = n /\ pc = p /\ UNCHANGED <<alg, orig>>
Finish(p) == pc' = p /\ UNCHANGED <<arr, i, k, temp, moves>>

(* SortNum: a positive number among the first nega_num goes to the end.    *)
ToEnd == /\ Is(0, "run") /\ i <= Len(arr) /\ i <= k /\ arr[i] > 0
         /\ arr' = Append(SubSeq(arr, 1, i - 1) \o SubSeq(arr, i + 1, Len(arr)), arr[i])
         /\ moves' = moves + 1 /\ UNCHANGED <<i, k, temp, pc>>

StepOn == /\ Is(0, "run") /\ i <= Len(arr) /\ i <= k /\ arr[i] <= 0
          /\ i' = i + 1 /\ UNCHANGED <<arr, k, temp, moves, pc>>
Stop   == Is(0, "run") /\ (i > Len(arr) \/ i > k) /\ Finish("done")

(* SortNum1: two indices run towards each other and the values swap.       *)
(* Mutant of RunIn: hig stays where it is. *)
LowRunsIn(a, low, hig, lo, hi) ==
  lo \in low .. hig /\ hi = hig /\ (\A j \in low .. lo - 1 : a[j] < 0) /\ (lo < hig => a[lo] >= 0)

RunIn(a, low, hig, lo, hi) ==
  /\ lo \in low .. hig /\ hi \in lo .. hig
  /\ \A j \in low .. lo - 1 : a[j] < 0
  /\ lo < hig => a[lo] >= 0
  /\ \A j \in hi + 1 .. hig : a[j] > 0
  /\ lo < hi => a[hi] <= 0

SwapEnds == /\ Is(1, "run") /\ i < k
            /\ \E lo, hi \in i .. k : /\ RunIn(arr, i, k, lo, hi) /\ i' = lo /\ k' = hi
                                      /\ arr' = Swap(arr, lo, hi)
            /\ UNCHANGED <<temp, moves, pc>>
Met      == Is(1, "run") /\ i >= k /\ Finish("done")

(* SortNum2: the negative number at start goes to finsh, and the swaps     *)
(* from there to start move the numbers between up by one, in their order. *)
Carry(a, f, s) == [p \in DOMAIN a |-> IF p = f THEN a[s] ELSE IF p \in f + 1 .. s THEN a[p - 1] ELSE a[p]]

Start == /\ Is(2, "run") /\ i <= Len(arr) /\ i' = i + 1
         /\ IF arr[i] < 0 THEN arr' = Carry(arr, k, i) /\ k' = k + 1 ELSE UNCHANGED <<arr, k>>
         /\ UNCHANGED <<temp, moves, pc>>
Over  == Is(2, "run") /\ i > Len(arr) /\ Finish("done")

(* SortNum3: the negative numbers are copied out first, then the others.   *)
CopyNeg == /\ Is(3, "run") /\ i <= Len(arr) /\ i' = i + 1
           /\ IF arr[i] < 0 THEN temp' = Append(temp, arr[i]) /\ k' = k + 1 ELSE UNCHANGED <<temp, k>>
           /\ UNCHANGED <<arr, moves, pc>>
NoPlus  == Is(3, "run") /\ i > Len(arr) /\ Len(arr) - k <= 0 /\ Finish("leaked")
Again   == /\ Is(3, "run") /\ i > Len(arr) /\ Len(arr) - k > 0 /\ i' = 1 /\ pc' = "plus"
           /\ UNCHANGED <<arr, k, temp, moves>>
CopyPlus == /\ Is(3, "plus") /\ i <= Len(arr) /\ i' = i + 1
            /\ temp' = (IF arr[i] >= 0 THEN Append(temp, arr[i]) ELSE temp)
            /\ UNCHANGED <<arr, k, moves, pc>>
(* memcpy and delete []. *)
CopyBack == /\ Is(3, "plus") /\ i > Len(arr) /\ arr' = temp /\ temp' = <<>> /\ pc' = "done"
            /\ UNCHANGED <<i, k, moves>>

Next == ToEnd \/ StepOn \/ Stop \/ SwapEnds \/ Met \/ Start \/ Over
        \/ CopyNeg \/ NoPlus \/ Again \/ CopyPlus \/ CopyBack
Spec == Init /\ [][Next]_vars /\ WF_vars(Next)

-----------------------------------------------------------------------------
Zeros      == Count(orig, {0})
Returned   == pc \in {"done", "leaked"}

(* The ways to take the numbers of s from t, each from a place of its own. *)
Reorders(s, t) == {m \in [DOMAIN s -> DOMAIN t] :
  /\ \A p \in DOMAIN s : s[p] = t[m[p]]
  /\ \A p, q \in DOMAIN s : p # q => m[p] # m[q]
  /\ \A r \in DOMAIN t : \E p \in DOMAIN s : m[p] = r}
Climbs(m, P) == \A p, q \in P : p < q => m[p] < m[q]

(* No number is lost or doubled by the moves, the swaps or the copy, at    *)
(* any moment; SortNum, SortNum2 and SortNum3 keep the order of the        *)
(* negative numbers, and the last two that of the others.                  *)
OrderKept == \E m \in Reorders(arr, orig) : /\ alg # 1 => Climbs(m, Where(arr, Negs))
                                           /\ alg > 1 => Climbs(m, Where(arr, NotNegs))

(* SortNum2 has parted what it has passed, and not touched the rest.       *)
PartedSoFar == alg = 2 => /\ \A p \in 1 .. i - 1 : arr[p] < 0 <=> p < k
                          /\ \A p \in i .. Len(arr) : arr[p] = orig[p]

(* SortNum moves each positive number at most once, so it is quadratic (as *)
(* the comment at line 12 has it) although the while loop moves no index.  *)
MovedOnce == moves <= Count(orig, 1 .. MaxValue)

(* At the end the negative numbers come first; SortNum needs an array      *)
(* without zeros for it.                                                   *)
NegativesFirst ==
  Returned /\ (alg > 0 \/ Zeros = 0) => \A p, q \in DOMAIN arr : p < q /\ arr[q] < 0 => arr[p] < 0

(* With two zeros SortNum1 swaps them for ever; otherwise every call ends. *)
TwoZerosSpin == alg = 1 /\ Zeros >= 2 => pc # "done"
Ends         == (alg = 1 /\ Zeros >= 2) \/ <>Returned

(* SortNum3 forgets its buffer exactly if no number is left for it.        *)
LeaksWithoutPlus == pc = "leaked" <=> Returned /\ alg = 3 /\ orig # <<>> /\ Where(orig, NotNegs) = {}
=============================================================================
