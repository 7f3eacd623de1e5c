\* Lists of up to four nodes, which may be used again; three directories; the
\* other bounds are in MCStructures.
CONSTANTS
  n1 = n1  n2 = n2  n3 = n3  n4 = n4
  ListNodes = {n1, n2, n3, n4}
  Null = Null
  Wild = Wild
  Dummy = Dummy
  Values = {1, 2}
  Junk = Junk
  Directories = {d0, d1, d2}
  Shown = d0
SPECIFICATION MCSpec
INVARIANTS LinksHold ParsersKnow
PROPERTIES StructuresMove
\* A fault, a hang or a return is the last step of a program.
CHECK_DEADLOCK FALSE
