SPECIFICATION FairSpec
CONSTANTS
  Lengths <- MCLengths
  Size = 3
  MaxSent = 3
  MaxPieces = 10
INVARIANTS
  TypeOK
  NothingLost
  ResponsesWhole
PROPERTY AllRead
CHECK_DEADLOCK FALSE
