SPECIFICATION FairSpec
CONSTANTS
  u = u
  v = v
  o = o
  None = None
  Writers <- ThreeWriters
  Of <- TwoTrippers
  Early = {0, 1}
  packetLengthMax = 2
  Lengths = {2, 3}
  Buffers = {1, 3}
  MaxBytes = 5
INVARIANTS
  TypeOK
  NoncesAgree
PROPERTIES
  EofWhenEnded
  Implements
  Delivered
CHECK_DEADLOCK FALSE
