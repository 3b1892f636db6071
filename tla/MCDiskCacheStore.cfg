CONSTANTS
  k1 = k1
  k2 = k2
  k3 = k3
  v1 = v1
  v2 = v2
  Keys = {k1, k2, k3}
  Values = {v1, v2}
  SizeOf <- MCSizeOf
  FileOf <- MCFileOf
  Overhead = 1
  max_bytes = 5
  MaxCrashes = 2
SPECIFICATION Spec
INVARIANTS
  TypeOK
  IndexConsistent
  GetsAreExact
