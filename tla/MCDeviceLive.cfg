SPECIFICATION FairSpec
CONSTANTS
  Loops = {g1, g2}
  MaxOps = 2
  MaxFound = 1
PROPERTY LossNoticed
CHECK_DEADLOCK FALSE
