------------------------------- MODULE Merges --------------------------------
EXTENDS Integers, Sequences, FiniteSets, Functions

(***************************************************************************)
(* array/code/merge_array.cpp: two sorted arrays of ARR_MAX_LEN cells, the *)
(* numbers ended by a zero, are counted by GetLen and merged into a new    *)
(* array or, from behind, into the first.  Indices are the code's plus one *)
(***************************************************************************)

CONSTANTS ARR_MAX_LEN, MergeValues
MergeAssumption == ARR_MAX_LEN \in Nat /\ MergeValues \subseteq Nat \ {0}

VARIABLES to,           \* "New": MergeArrayToNew, "Old": MergeArrayToOld
          in1, in2,     \* the numbers of the arguments
          arr1,         \* the cells of the first array
          out,          \* arrTemp so far
          n, i, j,      \* index or new_len, index1 or new_len1, index2 or new_len2
          mergePc            \* "count", "both", "one", "done", "refused", "past"

mergeVars == <<to, in1, in2, arr1, out, n, i, j, mergePc>>

MergeOrdered(s) == \A p, q \in DOMAIN s : p < q => s[p] <= s[q]
Inputs     == {s \in UNION {[1 .. m -> MergeValues] : m \in 0 .. ARR_MAX_LEN} : MergeOrdered(s)}
Len1 == Len(in1)
Len2 == Len(in2)

MergeInit == /\ to \in {"New", "Old"} /\ in1 \in Inputs /\ in2 \in Inputs
             /\ arr1 = [p \in 1 .. ARR_MAX_LEN |-> IF p \in DOMAIN in1 THEN in1[p] ELSE 0]
             /\ out = <<>> /\ n = 0 /\ i = 0 /\ j = 0 /\ mergePc = "count"

Same == UNCHANGED <<to, in1, in2>>

-----------------------------------------------------------------------------
(* GetLen walks to the first zero: an array without one is left behind.    *)
GetLenPast == /\ mergePc = "count" /\ (Len1 = ARR_MAX_LEN \/ Len2 = ARR_MAX_LEN) /\ mergePc' = "past"
              /\ Same /\ UNCHANGED <<arr1, out, n, i, j>>

(* The guards of the two functions. *)
Fits == Len1 > 0 /\ Len2 > 0 /\ (to = "Old" => Len1 + Len2 <= ARR_MAX_LEN)

Refuse == /\ mergePc = "count" /\ Len1 < ARR_MAX_LEN /\ Len2 < ARR_MAX_LEN /\ ~Fits /\ mergePc' = "refused"
          /\ Same /\ UNCHANGED <<arr1, out, n, i, j>>
Call   == /\ mergePc = "count" /\ Len1 < ARR_MAX_LEN /\ Len2 < ARR_MAX_LEN /\ Fits /\ mergePc' = "both"
          /\ IF to = "New" THEN n' = 1 /\ i' = 1 /\ j' = 1 ELSE n' = Len1 + Len2 /\ i' = Len1 /\ j' = Len2
          /\ Same /\ UNCHANGED <<arr1, out>>

(* One number into the new array. *)
New(x, di, dj) == /\ out' = Append(out, x) /\ n' = n + 1 /\ i' = i + di /\ j' = j + dj
                  /\ Same /\ UNCHANGED <<arr1, mergePc>>
Left1 == i <= Len1
Left2 == j <= Len2
MergeLeave(p) == mergePc' = p /\ Same /\ UNCHANGED <<arr1, out, n, i, j>>

NewBoth == /\ to = "New" /\ mergePc = "both" /\ Left1 /\ Left2
           /\ IF in1[i] < in2[j] THEN New(in1[i], 1, 0) ELSE New(in2[j], 0, 1)
NewOne  == to = "New" /\ mergePc = "one" /\ (\/ Left1 /\ New(in1[i], 1, 0)
                                             \/ ~Left1 /\ Left2 /\ New(in2[j], 0, 1))
NewLeave == to = "New" /\ (\/ mergePc = "both" /\ ~(Left1 /\ Left2) /\ MergeLeave("one")
                           \/ mergePc = "one" /\ ~Left1 /\ ~Left2 /\ MergeLeave("done"))

-----------------------------------------------------------------------------
(* One number into the cell n of the first array. *)
Old(x, di, dj) == /\ arr1' = [arr1 EXCEPT ![n] = x] /\ n' = n - 1 /\ i' = i - di /\ j' = j - dj
                  /\ Same /\ UNCHANGED <<out, mergePc>>

(* Mutant of OldBoth: the smaller number first. *)
OldSmaller == /\ to = "Old" /\ mergePc = "both" /\ i > 0 /\ j > 0
              /\ IF arr1[i] < in2[j] THEN Old(arr1[i], 1, 0) ELSE Old(in2[j], 0, 1)

OldBoth == /\ to = "Old" /\ mergePc = "both" /\ i > 0 /\ j > 0
           /\ IF arr1[i] > in2[j] THEN Old(arr1[i], 1, 0) ELSE Old(in2[j], 0, 1)
OldOne  == to = "Old" /\ mergePc = "one" /\ (\/ i > 0 /\ Old(arr1[i], 1, 0)
                                             \/ i = 0 /\ j > 0 /\ Old(in2[j], 0, 1))
OldLeave == to = "Old" /\ (\/ mergePc = "both" /\ (i = 0 \/ j = 0) /\ MergeLeave("one")
                           \/ mergePc = "one" /\ i = 0 /\ j = 0 /\ MergeLeave("done"))

MergeNext == GetLenPast \/ Refuse \/ Call \/ NewBoth \/ NewOne \/ NewLeave \/ OldBoth \/ OldOne \/ OldLeave
MergeSpec == MergeInit /\ [][MergeNext]_mergeVars /\ WF_mergeVars(MergeNext)

-----------------------------------------------------------------------------
MergeCopies(v, s) == Cardinality({p \in DOMAIN s : s[p] = v})
Result       == IF to = "New" THEN out ELSE SubSeq(arr1, 1, Len1 + Len2)

(* The merge from behind never writes over a number of the first array     *)
(* that it has still to read: the cell it fills is always ahead.           *)
ReadsFirst == to = "Old" /\ mergePc \in {"both", "one", "done"} =>
                /\ n = i + j
                /\ \A p \in 1 .. i : arr1[p] = in1[p]

(* What has been placed is in order and on its side of all that is left.   *)
PlacedInOrder ==
  LET placed == IF to = "New" THEN out ELSE SubSeq(arr1, n + 1, Len1 + Len2)
      left   == IF to = "New" THEN Range(SubSeq(in1, i, Len1)) \cup Range(SubSeq(in2, j, Len2))
                              ELSE Range(SubSeq(in1, 1, i)) \cup Range(SubSeq(in2, 1, j))
  IN mergePc \in {"both", "one"} =>
            /\ MergeOrdered(placed)
            /\ \A x \in Range(placed), y \in left : IF to = "New" THEN x <= y ELSE x >= y

(* A merge that is done holds both arrays. *)
Merged == mergePc = "done" => \A v \in MergeValues : MergeCopies(v, Result) = MergeCopies(v, in1) + MergeCopies(v, in2)

(* Every run ends, merged, refused or behind an array without a zero.      *)
MergeEnds == <>(mergePc \in {"done", "refused", "past"})

------------------------------------------------------------------------------
(***************************************************************************)
(* C++/setalg.cpp: set_union_1, set_intersection_1, set_difference_1 and   *)
(* set_symmetric_difference_1, each one pass over two sorted multisets     *)
(* that main compares with the library's by eye.                           *)
(***************************************************************************)

CONSTANTS SetValues, MaxLen
SetAlgAssumption == SetValues \subseteq Int /\ MaxLen \in Nat

VARIABLES alg,          \* which of the four
          set1, set2,   \* the multisets, in order
          first1, first2,       \* how many values of each are behind the iterators
          result,       \* the output
          setPc            \* "loop", "copy", "done"

setVars == <<alg, set1, set2, first1, first2, result, setPc>>

(* What each of them writes: a value that is smaller in the first set, one *)
(* that is smaller in the second, one that is in both, and the two rests.  *)
Writes(l, g, e, r1, r2) == [less |-> l, greater |-> g, equal |-> e, rest1 |-> r1, rest2 |-> r2]
set_union_1                == Writes(TRUE, TRUE, TRUE, TRUE, TRUE)
set_intersection_1         == Writes(FALSE, FALSE, TRUE, FALSE, FALSE)
set_difference_1           == Writes(TRUE, FALSE, FALSE, TRUE, FALSE)

set_symmetric_difference_1 == Writes(TRUE, TRUE, FALSE, TRUE, TRUE)

w == CASE alg = "union"        -> set_union_1
       [] alg = "intersection" -> set_intersection_1
       [] alg = "difference"   -> set_difference_1
       [] alg = "symmetric"    -> set_symmetric_difference_1

SetOrdered(s) == \A p, q \in DOMAIN s : p < q => s[p] <= s[q]
Multisets  == {s \in UNION {[1 .. m -> SetValues] : m \in 0 .. MaxLen} : SetOrdered(s)}

SetInit == /\ alg \in {"union", "intersection", "difference", "symmetric"}
           /\ set1 \in Multisets /\ set2 \in Multisets
           /\ first1 = 0 /\ first2 = 0 /\ result = <<>> /\ setPc = "loop"

More  == first1 < Len(set1) /\ first2 < Len(set2)
At1   == set1[first1 + 1]
At2   == set2[first2 + 1]
Rest1 == SubSeq(set1, first1 + 1, Len(set1))
Rest2 == SubSeq(set2, first2 + 1, Len(set2))

(* One round of the loop: d1 and d2 are the increments of the iterators,   *)
(* and x is written if the algorithm writes in this case.                  *)
Round(d1, d2, x, write) ==
  /\ first1' = first1 + d1 /\ first2' = first2 + d2
  /\ result' = IF write THEN Append(result, x) ELSE result
  /\ UNCHANGED <<alg, set1, set2, setPc>>

Less    == setPc = "loop" /\ More /\ At1 < At2 /\ Round(1, 0, At1, w.less)

Greater == setPc = "loop" /\ More /\ At2 < At1 /\ Round(0, 1, At2, w.greater)

Equal   == setPc = "loop" /\ More /\ At1 = At2 /\ Round(1, 1, At1, w.equal)
SetLeave   == setPc = "loop" /\ ~More /\ setPc' = "copy" /\ UNCHANGED <<alg, set1, set2, first1, first2, result>>

(* The calls of copy. *)
Copy    == /\ setPc = "copy" /\ setPc' = "done"
           /\ result' = result \o (IF w.rest1 THEN Rest1 ELSE <<>>) \o (IF w.rest2 THEN Rest2 ELSE <<>>)
           /\ UNCHANGED <<alg, set1, set2, first1, first2>>

SetNext == Less \/ Greater \/ Equal \/ SetLeave \/ Copy
SetSpec == SetInit /\ [][SetNext]_setVars /\ WF_setVars(SetNext)

-----------------------------------------------------------------------------
SetCopies(v, s) == Cardinality({p \in DOMAIN s : s[p] = v})
Larger(a, b) == IF a > b THEN a ELSE b
Less0(a)     == Larger(a, 0)

(* How often a value belongs into the result, by its numbers m and k in    *)
(* the multisets, as the library's algorithms promise.                     *)
Belongs(m, k) == CASE alg = "union"        -> Larger(m, k)
                   [] alg = "intersection" -> m + k - Larger(m, k)
                   [] alg = "difference"   -> Less0(m - k)
                   [] alg = "symmetric"    -> Larger(m, k) - (m + k - Larger(m, k))

(* At the end, and for the values both iterators have passed before, the   *)
(* result holds each value as often as it belongs there.                   *)
AsTheLibrary ==
  \A v \in SetValues :
    setPc = "done" \/ (v \notin Range(Rest1) /\ v \notin Range(Rest2))
         => SetCopies(v, result) = Belongs(SetCopies(v, set1), SetCopies(v, set2))

(* The output comes out in order, below everything that is still ahead.    *)
OutputInOrder == /\ SetOrdered(result)
                 /\ setPc # "done" => \A x \in Range(result), y \in Range(Rest1) \cup Range(Rest2) : x <= y

(* One pass: every round moves an iterator, and the call ends. *)
SetEnds == <>(setPc = "done")
==============================================================================
