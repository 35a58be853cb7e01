SPECIFICATION Spec
CONSTANTS
  NULL = NULL
  Writers = {w1, w2}
  Contents = {c1, c2}
  MaxRows = 3
  MaxSnaps = 2
  MaxBranches = 1
  MaxPasses = 1
  HasBlobs = TRUE
  Policies <- TwoPolicies
  w1 = w1  w2 = w2  c1 = c1  c2 = c2
  Regions = {r1, r2, r3}
  First = r1
  Pulls = {p1, p2}
  MaxMutations = 3
  MaxFailovers = 2
  r1 = r1  r2 = r2  r3 = r3  p1 = p1  p2 = p2
SYMMETRY Symmetry
INVARIANTS
  StorageSound
  PinsReadable
  BlobBacked
  FollowerIsPrefix
PROPERTIES
  GcKeepsNewest
CHECK_DEADLOCK FALSE
