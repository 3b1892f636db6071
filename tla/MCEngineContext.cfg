CONSTANTS
  Tokens = {1, 2}
  Prompts <- MCPrompts
  WarmPrompts <- MCWarmPrompts
  Budgets = {0, 2}
  MaxSessions = 1
  MaxSnapshots = 3
  MaxOps = 6
  n_ctx = 4
  block_tokens = 2
  Faults = TRUE
SPECIFICATION Spec
INVARIANTS
  TypeOK
  PrefixSnapshotsExact
  GenerationsExact
  GuardImpliesContext
