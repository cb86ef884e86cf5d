SPECIFICATION Spec
CONSTANTS
  Base = 4
  MaxItem = 8
  Structs <- MCStructs
  Lists <- MCLists
INVARIANTS
  Returned
  CutIsPart
  Listed
CHECK_DEADLOCK FALSE
