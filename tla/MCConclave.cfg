CONSTANTS
  n = 4
  Words = {0}
  Numbers = {1, 2}
  MaxPieces = 1
  BestShots <- MCBestShots
  None = None
  MaxCalls = 2
  Faults = TRUE
SPECIFICATION Spec
INVARIANTS
  VerdictStands
  ElectedIsWhole
