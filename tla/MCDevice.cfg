SPECIFICATION Spec
CONSTANTS
  Loops = {g1, g2}
  MaxOps = 2
  MaxFound = 2
SYMMETRY LoopSymmetry
INVARIANTS
  TypeOK
  VerifiedIsServed
  OneReader
  OpenIsUsed
  
CHECK_DEADLOCK FALSE
