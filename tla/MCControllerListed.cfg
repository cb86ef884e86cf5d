SPECIFICATION Spec
CONSTANTS
  MaxDevices = 1
  MaxFound = 1
  MaxOps = 1
  MaxCrashes = 0
  MaxEvents = 2
INVARIANT ListsPaired
CHECK_DEADLOCK FALSE
