---------------------------- MODULE SearchAndSort ----------------------------
EXTENDS Integers, Sequences, FiniteSets

(***************************************************************************)
(* sort/StableSort.cpp: Sort::BubbleSort.  Its inner loop tests i where it *)
(* counts j, so that it walks on behind the array: the model gives it some *)
(* memory there, with numbers of its own.  Indices are the code's plus one.*)
(***************************************************************************)

CONSTANTS BubbleValues, BubbleMaxLen,
          Behind        \* cells behind the array before memory ends
BubbleAssumption == BubbleValues \subseteq Int /\ BubbleMaxLen \in Nat /\ Behind \in Nat

VARIABLES length, mem,  \* the array and what is behind it
          orig,         \* mem at the call
          bubbleI, j, bubblePc      \* "outer", "inner", "done", "fault"

bubbleVars == <<length, mem, orig, bubbleI, j, bubblePc>>

BubbleInit == /\ length \in 0 .. BubbleMaxLen /\ mem \in [1 .. length + Behind -> BubbleValues] /\ orig = mem
              /\ bubbleI = 1 /\ j = 1 /\ bubblePc = "outer"

Outer  == /\ bubblePc = "outer" /\ bubbleI < length /\ j' = 1 /\ bubblePc' = "inner" /\ UNCHANGED <<length, mem, orig, bubbleI>>
Return == /\ bubblePc = "outer" /\ bubbleI >= length /\ bubblePc' = "done" /\ UNCHANGED <<length, mem, orig, bubbleI, j>>

\* In the first pass, with i = 0 in the code, this is the test that let the pass
\* start, and the loop changes nothing in it: the pass has no end, and there is
\* no action for one.
InnerGoes == bubbleI < length - (bubbleI - 1)

Compare == /\ bubblePc = "inner" /\ InnerGoes /\ j < Len(mem)
           /\ mem' = (IF mem[j] > mem[j + 1] THEN [mem EXCEPT ![j] = mem[j + 1], ![j + 1] = mem[j]] ELSE mem)
           /\ j' = j + 1 /\ UNCHANGED <<length, orig, bubbleI, bubblePc>>
Fault   == /\ bubblePc = "inner" /\ InnerGoes /\ j = Len(mem) /\ bubblePc' = "fault" /\ UNCHANGED <<length, mem, orig, bubbleI, j>>

BubbleNext == Outer \/ Return \/ Compare \/ Fault
BubbleSpec == BubbleInit /\ [][BubbleNext]_bubbleVars /\ WF_bubbleVars(BubbleNext)

-----------------------------------------------------------------------------
Largest(n) == CHOOSE x \in BubbleValues : (\E p \in 1 .. n : orig[p] = x) /\ \A p \in 1 .. n : orig[p] <= x
BubbleCopies(v, s) == Cardinality({p \in DOMAIN s : s[p] = v})

(* The pass carries the largest number it has met along, wherever it is,   *)
(* and memory keeps its numbers, those behind the array included.          *)
CarriesTheLargest ==
  /\ bubblePc \in {"inner", "fault"} => mem[j] = Largest(j) /\ \A p \in j + 1 .. Len(mem) : mem[p] = orig[p]
  /\ \A v \in BubbleValues : BubbleCopies(v, mem) = BubbleCopies(v, orig)

(* Two numbers are enough for the first pass to leave the array for good:  *)
(* such a call never returns.                                              *)
LeavesTheArray == length >= 2 => <>(bubblePc = "fault")

------------------------------------------------------------------------------
(***************************************************************************)
(* array/code: FindSecondMaxNum and FindSecondMinNum (serch_num.cpp), and  *)
(* the search for the first number that occurs once (not_repeater_num.cpp) *)
(***************************************************************************)

CONSTANTS SearchValues, SearchMaxLen
SearchAssumption == SearchValues \subseteq Int /\ SearchMaxLen \in Nat

VARIABLES what,         \* "max", "min", "once"
          arr, searchI,       \* the array, and how many numbers have been read
          first, second,        \* max or min, and second
          Map,          \* pairs of a number and how often it was met
          searchPc, result    \* "start", "run", "done"; <<>> or <<the number>>

searchVars == <<what, arr, searchI, first, second, Map, searchPc, result>>
Bad == 16^7 - 1         \* 0xfffffff, returned for a short array

SearchInit == /\ what \in {"max", "min", "once"}
              /\ arr \in UNION {[1 .. m -> SearchValues] : m \in 0 .. SearchMaxLen} /\ (what = "once" => arr # <<>>)
              /\ searchI = 0 /\ first = 0 /\ second = 0 /\ Map = <<>> /\ searchPc = "start" /\ result = <<>>

Same == UNCHANGED <<what, arr>>
(* x is further than y in the direction of the search. *)
Beyond(x, y) == IF what = "max" THEN x > y ELSE x < y

(* The guard, and the first two numbers. *)
Short == /\ searchPc = "start" /\ what # "once" /\ Len(arr) < 2 /\ searchPc' = "done" /\ result' = <<Bad>>
         /\ Same /\ UNCHANGED <<searchI, first, second, Map>>
First == /\ searchPc = "start" /\ what # "once" /\ Len(arr) >= 2 /\ searchPc' = "run" /\ searchI' = 2
         /\ IF Beyond(arr[2], arr[1]) THEN first' = arr[2] /\ second' = arr[1] ELSE first' = arr[1] /\ second' = arr[2]
         /\ Same /\ UNCHANGED <<Map, result>>

FindSecond ==
  /\ searchPc = "run" /\ what # "once" /\ searchI < Len(arr) /\ searchI' = searchI + 1 /\ Same /\ UNCHANGED <<Map, searchPc, result>>
  /\ LET x == arr[searchI + 1] IN
       \/ Beyond(x, first) /\ second' = first /\ first' = x
       \/ ~Beyond(x, first) /\ Beyond(x, second) /\ second' = x /\ UNCHANGED first
       \/ ~Beyond(x, first) /\ ~Beyond(x, second) /\ UNCHANGED <<first, second>>
Found == /\ searchPc = "run" /\ what # "once" /\ searchI = Len(arr) /\ searchPc' = "done" /\ result' = <<second>>
         /\ Same /\ UNCHANGED <<searchI, first, second, Map>>

-----------------------------------------------------------------------------
Has(x) == {p \in DOMAIN Map : Map[p][1] = x}

(* find_if, and one more or a new pair. *)
Count == /\ searchPc \in {"start", "run"} /\ what = "once" /\ searchI < Len(arr) /\ searchI' = searchI + 1 /\ searchPc' = "run"
         /\ Map' = (IF Has(arr[searchI + 1]) # {} THEN [p \in DOMAIN Map |-> <<Map[p][1], Map[p][2] + IF p \in Has(arr[searchI + 1]) THEN 1 ELSE 0>>]
                    ELSE Append(Map, <<arr[searchI + 1], 1>>))
         /\ Same /\ UNCHANGED <<first, second, result>>
Once  == /\ searchPc = "run" /\ what = "once" /\ searchI = Len(arr) /\ searchPc' = "done"
         /\ LET ones == {p \in DOMAIN Map : Map[p][2] = 1} IN
              \/ ones = {} /\ result' = <<>>
              \/ \E p \in ones : (\A q \in ones : p <= q) /\ result' = <<Map[p][1]>>
         /\ Same /\ UNCHANGED <<searchI, first, second, Map>>

SearchNext == Short \/ First \/ FindSecond \/ Found \/ Count \/ Once
SearchSpec == SearchInit /\ [][SearchNext]_searchVars /\ WF_searchVars(SearchNext)

-----------------------------------------------------------------------------
SearchCopies(v, s) == Cardinality({p \in DOMAIN s : s[p] = v})

(* After every number the two hold the outermost and the next one of what  *)
(* has been read; a number that occurs twice is its own second.            *)
FirstAndSecond ==
  what # "once" /\ searchI >= 2 =>
    LET read == SubSeq(arr, 1, searchI) IN
    \E p, q \in DOMAIN read : /\ p # q /\ read[p] = first /\ read[q] = second
                              /\ \A r \in DOMAIN read \ {p, q} : ~Beyond(read[r], second)
                              /\ ~Beyond(second, first)

(* The map has one pair for each number read, in the order of their first  *)
(* appearance, and its count.                                              *)
MapCounts == what = "once" => /\ \A p \in DOMAIN Map : Map[p][2] = SearchCopies(Map[p][1], SubSeq(arr, 1, searchI))
                              /\ \A p, q \in DOMAIN Map : p # q => Map[p][1] # Map[q][1]
FirstOnce == what = "once" /\ searchPc = "done" =>
               LET single == {p \in DOMAIN arr : SearchCopies(arr[p], arr) = 1} IN
               IF single = {} THEN result = <<>>
               ELSE \E p \in single : result = <<arr[p]>> /\ \A q \in single : p <= q

(* Each search returns. *)
Returns == <>(searchPc = "done")
==============================================================================
