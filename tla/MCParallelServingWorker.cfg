CONSTANTS
  Callers = {c1, c2}
  MaxRequests = 2
SPECIFICATION ServingFairSpec
PROPERTIES
  WorkerSeesWork
CHECK_DEADLOCK FALSE
