CONSTANTS
  Callers = {c1, c2}
  MaxRequests = 3
SPECIFICATION ServingFairSpec
INVARIANTS
  StopWakeupNotLost
  ReturnsCompletedOrStopping
PROPERTIES
  StopTerminates
  CallsReturn
CHECK_DEADLOCK FALSE
