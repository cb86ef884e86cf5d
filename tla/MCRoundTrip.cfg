SPECIFICATION FairSpec
CONSTANTS
  a = a
  b = b
  None = None
  Callers <- AllCallers
  Timed <- TimedCallers
  MaxRequests = 3
  MaxEvents = 1
INVARIANTS
  TypeOK
  FlagMeansOpen
  Correlated
  InOrder
  PanicNeedsAbandon
PROPERTIES
  CallReturns
  CloseReturns
CHECK_DEADLOCK FALSE
