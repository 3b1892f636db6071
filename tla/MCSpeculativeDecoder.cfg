CONSTANTS
  Tokens = {1, 2, 3, 4}
  Eog = {3, 4}
  DraftTokens = {1, 3, 4, 5}
  eos = 3
  Support <- MCSupport
  Prompts <- MCPrompts
  Budgets = {1, 3}
  MaxCalls = 2
  n_ctx = 5
  draft_tokens = 2
  min_draft_tokens = 1
  max_draft_tokens = 3
  lookup_max_ngram = 2
  lookup_min_ngram = 1
  disable_after_drafted = 4
  disable_below_percent = 50
  Faults = TRUE
SPECIFICATION Spec
INVARIANTS
  TypeOK
  KVInSync
  Lossless
  GuardImpliesContext
