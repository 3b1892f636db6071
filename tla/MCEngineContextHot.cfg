CONSTANTS
  Tokens = {1, 2}
  Prompts <- MCPrompts
  WarmPrompts <- MCWarmPrompts
  Budgets = {0, 2}
  MaxSessions = 0
  MaxSnapshots = 3
  MaxOps = 5
  n_ctx = 4
  block_tokens = 2
  Faults = FALSE
SPECIFICATION Spec
INVARIANTS
  HotContinuesOwnContext
