\* Four objects on three blocks, three on four strings for the moment of an
\* assignment: shared, handed over, freed and reused; thirty changes of
\* activity; attacks from -3 to 3 and heroes of -4 to 4; three decorators around
\* each other in every way; two walkers that nest and follow each other twice
\* over up to four items; lists of up to three of two objects, some next to
\* themselves; a ring and a stack of three cells, the stack followed two calls
\* below nothing; two rounds of filling and emptying; up to four values to sort.
CONSTANTS
  Objects = {a1, a2, a3, a4}
  Blocks = {b1, b2, b3}
  Numbers = {0, 88}
  Holders = {"o1", "o2", "o3"}
  Strings = {"s1", "s2", "s3", "s4"}
  Texts = {"", "hello"}
  OwnNumbers = {0, 20}
  MaxMade = 15
  MaxHp = 4
  MaxAtk = 3
  MaxDecorators = 3
  Walkers = {"w1", "w2"}
  MaxItems = 4
  MaxWalks = 2
  Listed = {"x", "y"}
  MaxList = 3
  MaxNotify = 2
  Cap = 3
  Values = {1, 2}
  Junk = Junk
  ArrayValues = {1, 2, 3}
  Room = 2
  Pushes = 7
  SortValues = {1, 2, 3}
  MaxLen = 4
SPECIFICATION MCSpec
INVARIANTS CountsOwners NothingOverwritten ObjectsHold
PROPERTIES NoStepUndoes CallsReturn
\* A program that has ended does nothing more.
CHECK_DEADLOCK FALSE
