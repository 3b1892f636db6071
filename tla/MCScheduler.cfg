CONSTANTS
  Tokens = {1, 2}
  Prompts <- MCPrompts
  MaxTokens = {1, 3}
  n_parallel = 2
  n_ctx = 5
  MaxRequests = 4
  DecodeFaults = TRUE
  CopyFaults = TRUE
SPECIFICATION FairSpec
INVARIANTS
  TypeOK
  SlotsMatchActive
  KVHoldsHistory
  NoRequestLost
  BatchFits
PROPERTIES
  FaultsAreIsolated
  ServiceSpec
  EveryRequestCompletes
