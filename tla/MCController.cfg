SPECIFICATION Spec
CONSTANTS
  MaxDevices = 2
  MaxFound = 2
  MaxOps = 3
  MaxCrashes = 1
  MaxEvents = 5
INVARIANTS
  TypeOK
  StoreAgrees
  HeldIsSaved
  RegistryClean
CHECK_DEADLOCK FALSE
