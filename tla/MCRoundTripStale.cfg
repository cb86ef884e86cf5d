SPECIFICATION Spec
CONSTANTS
  a = a
  b = b
  None = None
  Callers <- AllCallers
  Timed <- TimedCallers
  MaxRequests = 3
  MaxEvents = 0
INVARIANT
  OneResponse
CHECK_DEADLOCK FALSE
CONSTRAINT NoEarlyRequest
