CONSTANTS
  Streams <- MCStreams
  Hash <- MCHash
  GramKeys = {2, 3, 4, 5, 6, 7, 8, 9, 10}
  ngram = 2
  max_tokens = 9
  max_sites = 3
  max_stream = 5
  MaxEvents = 5
  Faults = TRUE
SPECIFICATION CorpusSpec
INVARIANTS
  CorpusTypeOK
  DraftsFollowHistory
  DraftsFound
  FileHoldsFlushed
