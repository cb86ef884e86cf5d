SPECIFICATION FairSpec
CONSTANTS
  u1 = u1
  u2 = u2
  Nobody = Nobody
  Users <- MCUsers
  Chars <- MCChars
  MaxOps = 3
  MaxChanges = 1
  MaxFaults = 1
INVARIANTS
  TypeOK
  
  CacheInOrder
PROPERTY WaitEnds
CHECK_DEADLOCK FALSE
