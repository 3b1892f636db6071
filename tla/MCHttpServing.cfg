SPECIFICATION Spec
CONSTANTS
  MaxConns = 2
  Requests <- MCRequests
  max_concurrent_requests = 1
  enable_cors = TRUE
  enable_metrics = TRUE
  escalation_endpoint = "valid"
  escalation_trigger = "regex"
  lock_scoped = TRUE
INVARIANTS EngineExclusive GateExact AnswersAddUp DrainIsComplete
PROPERTIES ShutdownCompletes RequestsAnswered
CHECK_DEADLOCK FALSE
