\* Arrays of up to four numbers from -2 to 2; two sorted arrays of four cells,
\* multisets of up to three numbers: doubles on both sides; two cells behind the
\* array that BubbleSort walks out of; main's numbers and all that are nearer to
\* zero; a vector that can grow by three elements at least.
CONSTANTS
  LargestNum = 2
  LongestNums = 4
  ARR_MAX_LEN = 4
  MergeValues = {1, 2, 3}
  SetValues = {1, 2, 3}
  LongestSet = 3
  BubbleValues = {1, 2, 3}
  BubbleMaxLen = 4
  Behind = 2
  SearchValues = {1, 2, 3}
  SearchMaxLen = 5
  ItemValues = {1, 2, 4}
  MostItems = 4
  MaxX = 10
  MaxY = 20
  Memory = 7
SPECIFICATION LoopsSpec
INVARIANTS LoopsKnow
PROPERTIES CallsEnd
\* A program that has returned does nothing more.
CHECK_DEADLOCK FALSE
