SPECIFICATION HalfSpec
CONSTANTS
  k1 = k1  k2 = k2  j1 = j1  j2 = j2
  Workspaces = {k1, k2}
  GatewayTables = {"tools"}
  Jobs = {j1, j2}
INVARIANT ErasedIsGone
CHECK_DEADLOCK FALSE
