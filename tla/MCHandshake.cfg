SPECIFICATION Spec
CONSTANTS
  u1 = u1
  u2 = u2
  Callers <- MCCallers
  MaxCalls = 5
  MaxResets = 2
  MaxFaults = 3
SYMMETRY CallerSymmetry
INVARIANTS
  TypeOK
  Agreed
  SameKey
CHECK_DEADLOCK FALSE
