SPECIFICATION QuotasSpec
CONSTANTS
  Kinds = {"max_workspaces", "max_cost_usd_day"}
  Unasked = {}
  Limits = {1, 2}
  Default = 1
  Admins = {a1, a2}
  Replicas = {}
  Makers = {}
  QuotaTtl = 1
  QuotaTimeout = 1
  MaxThings = 0
  MaxQuotaTime = 0
INVARIANT PatchKeepsFields
CHECK_DEADLOCK FALSE
