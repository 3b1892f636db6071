CONSTANTS
  Snapshots = {"a", "b", "c"}
  BytesOf <- MCBytesOf
  Threads = {t1, t2}
  staging_budget = 3
  MaxPrefetches = 6
SPECIFICATION PrefetchSpec
INVARIANTS
  StagingConsistent
