SPECIFICATION StorageSpec
CONSTANTS
  NULL = NULL
  Writers = {w1}
  Contents = {c1, c2}
  MaxRows = 3
  MaxSnaps = 2
  MaxBranches = 2
  MaxPasses = 0
  HasBlobs = FALSE
  Policies = {}
  w1 = w1  c1 = c1  c2 = c2
INVARIANTS
  BranchReadsSnapshot
CHECK_DEADLOCK FALSE
