---------------------------- MODULE MCAlgorithms ----------------------------
(***************************************************************************)
(* The algorithms on arrays and sets and four library exercises, one a     *)
(* behaviour: the first state chooses it and its input, and the variables  *)
(* of the others stay as they begin.                                       *)
(***************************************************************************)
EXTENDS Integers, Sequences

CONSTANTS LargestNum, LongestNums,                              \* sort_num
          ARR_MAX_LEN, MergeValues, SetValues, LongestSet,      \* merge_array, setalg
          BubbleValues, BubbleMaxLen, Behind,                   \* StableSort
          SearchValues, SearchMaxLen,                           \* serch_num, not_repeater_num
          ItemValues, MostItems, MaxX, MaxY, Memory             \* 9-26, 9-34, 9-4, type_chag

VARIABLES algorithm,
          numAlg, numOrig, numArr, numI, numK, temp, moves, numPc,
          to, in1, in2, arr1, arrTemp, index, index1, index2, mergePc,
          setAlg, set1, set2, first1, first2, setResult, setPc,
          length, mem, bubbleOrig, bubbleI, bubbleJ, bubblePc,
          search, searchArr, searchI, first, second, Map, searchPc, found,
          ia, vecMem, vecSize, iterv, li, iterl, erasePc,
          funX, funY, vp, vpIter, results, tablePc,
          whole, grown, place, insertPc,
          fn, vec, num, begin, back

numVars    == <<numAlg, numOrig, numArr, numI, numK, temp, moves, numPc>>
mergeVars  == <<to, in1, in2, arr1, arrTemp, index, index1, index2, mergePc>>
setVars    == <<setAlg, set1, set2, first1, first2, setResult, setPc>>
bubbleVars == <<length, mem, bubbleOrig, bubbleI, bubbleJ, bubblePc>>
searchVars == <<search, searchArr, searchI, first, second, Map, searchPc, found>>
eraseVars  == <<ia, vecMem, vecSize, iterv, li, iterl, erasePc>>
funcVars   == <<funX, funY, vp, vpIter, results, tablePc>>
insertVars == <<whole, grown, place, insertPc>>
findVars   == <<fn, vec, num, begin, back>>

SN == INSTANCE SortNum WITH MaxValue <- LargestNum, MaxLen <- LongestNums, alg <- numAlg, orig <- numOrig,
                            arr <- numArr, i <- numI, k <- numK, pc <- numPc
MG == INSTANCE Merges WITH MaxLen <- LongestSet, out <- arrTemp, n <- index, i <- index1, j <- index2,
                           alg <- setAlg, result <- setResult
SS == INSTANCE SearchAndSort WITH orig <- bubbleOrig, j <- bubbleJ, what <- search, arr <- searchArr,
                                  result <- found
PR == INSTANCE Exercises WITH MaxSize <- MostItems, Values <- ItemValues, Room <- Memory, mem <- vecMem,
                              size <- vecSize, x <- funX, y <- funY, iter <- vpIter,
                              shown <- results

ASSUME LoopsAssumption ==
  /\ SN!SortNumAssumption /\ MG!MergeAssumption /\ MG!SetAlgAssumption /\ SS!BubbleAssumption
  /\ SS!SearchAssumption /\ PR!EraseAssumption /\ PR!TableAssumption /\ PR!InsertAssumption

Apart(a) == /\ UNCHANGED algorithm
            /\ a # "sortnum" => UNCHANGED numVars
            /\ a # "merge"   => UNCHANGED mergeVars
            /\ a # "set"     => UNCHANGED setVars
            /\ a # "bubble"  => UNCHANGED bubbleVars
            /\ a # "search"  => UNCHANGED searchVars
            /\ a # "erase"   => UNCHANGED eraseVars
            /\ a # "table"   => UNCHANGED funcVars
            /\ a # "insert"  => UNCHANGED insertVars
            /\ a # "find"    => UNCHANGED findVars

AnyOf(S) == CHOOSE v \in S : TRUE

LoopsInit == /\ algorithm \in {"sortnum", "merge", "set", "bubble", "search", "erase", "table", "insert", "find"}
             /\ algorithm # "sortnum" => numAlg = 0 /\ numOrig = <<>>
             /\ algorithm # "merge"   => to = "New" /\ in1 = <<>> /\ in2 = <<>>
             /\ algorithm # "set"     => setAlg = "union" /\ set1 = <<>> /\ set2 = <<>>
             /\ algorithm # "bubble"  => length = 0
             /\ algorithm # "search"  => search = "max" /\ searchArr = <<>>
             /\ algorithm # "erase"   => ia = <<>>
             /\ algorithm # "table"   => funX = 0 /\ funY = 0
             /\ algorithm # "insert"  => whole = <<>>
             /\ algorithm # "find"    => fn = "find_num" /\ vec = <<>> /\ num = 1
             /\ SN!Init /\ MG!MergeInit /\ MG!SetInit /\ SS!BubbleInit /\ SS!SearchInit
             /\ PR!EraseInit /\ PR!TableInit /\ PR!InsertInit /\ PR!FindInit
             /\ algorithm # "bubble"  => \A p \in DOMAIN mem : mem[p] = AnyOf(BubbleValues)
             /\ algorithm # "erase"   => vecMem = <<AnyOf(ItemValues)>>

Runs(a)   == algorithm = a /\ Apart(a)
SortNum   == Runs("sortnum") /\ SN!Next
Merge     == Runs("merge") /\ MG!MergeNext
SetAlg    == Runs("set") /\ MG!SetNext
Bubble    == Runs("bubble") /\ SS!BubbleNext
Search    == Runs("search") /\ SS!SearchNext
EraseEven == Runs("erase") /\ PR!EraseNext
CallTable == Runs("table") /\ PR!TableNext
DoubleOdd == Runs("insert") /\ PR!InsertNext
FindNum   == Runs("find") /\ PR!FindNext

LoopsNext == SortNum \/ Merge \/ SetAlg \/ Bubble \/ Search \/ EraseEven \/ CallTable \/ DoubleOdd \/ FindNum
loopsVars == <<algorithm, numVars, mergeVars, setVars, bubbleVars, searchVars, eraseVars, funcVars, insertVars, findVars>>
(* Nothing waits in a program of one thread. *)
LoopsSpec == LoopsInit /\ [][LoopsNext]_loopsVars /\ WF_loopsVars(LoopsNext)

-----------------------------------------------------------------------------
(* Every moment of every call, for all the inputs within the bounds: what  *)
(* the loops have placed, found or written so far is right, where the code *)
(* is right at all, and wrong exactly as the modules say where it is not.  *)
LoopsKnow ==
  /\ algorithm = "sortnum" => /\ SN!OrderKept /\ SN!PartedSoFar /\ SN!MovedOnce /\ SN!NegativesFirst
                              /\ SN!TwoZerosSpin /\ SN!LeaksWithoutPlus
  /\ algorithm = "merge"   => MG!ReadsFirst /\ MG!PlacedInOrder /\ MG!Merged
  /\ algorithm = "set"     => MG!AsTheLibrary /\ MG!OutputInOrder
  /\ algorithm = "bubble"  => SS!CarriesTheLargest
  /\ algorithm = "search"  => SS!FirstAndSecond /\ SS!MapCounts /\ SS!FirstOnce
  /\ algorithm = "erase"   => PR!VectorKeepsOdd /\ PR!LastDecides
  /\ algorithm = "table"   => PR!ResultsFit /\ PR!ThreeThenAbort
  /\ algorithm = "insert"  => PR!FirstOddAgain
  /\ algorithm = "find"    => PR!FoundUnless101

(* Every call comes to its end, BubbleSort behind its array and the        *)
(* inserting loop out of memory; only SortNum1 swaps two zeros for ever.   *)
CallsEnd ==
  /\ algorithm = "sortnum" => SN!Ends
  /\ algorithm = "merge"   => MG!MergeEnds
  /\ algorithm = "set"     => MG!SetEnds
  /\ SS!LeavesTheArray
  /\ algorithm = "search"  => SS!Returns
  /\ algorithm = "erase"   => PR!LoopsEnd
  /\ algorithm = "insert"  => PR!OddEatsMemory
  /\ algorithm = "find"    => PR!FindReturns
=============================================================================
