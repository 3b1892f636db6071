SPECIFICATION Spec
CONSTANTS
  Keys = {"k1", "k2"}
  Values = {"v1"}
  Callers = {t1}
  Inputs <- MCInputs
  Archived <- MCArchived
  MaxConns = 2
  MaxCalls = 2
INVARIANTS CommandsAsSent NoWorkerOutlivesStop
PROPERTIES CacheSpec StopReturns
CHECK_DEADLOCK FALSE
