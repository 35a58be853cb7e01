SPECIFICATION MCSpec
CONSTANTS
  Servers = {s1, s2}
  Verifiers = {v1}
  Ops = {o1, o2}
  Rotation = 4
  Interval = 1
  MaxTtl = 1
  JwksMax = 2
  CacheTtl = 2
  CallTime = 1
  MaxClock = 6
  MaxTime = 3
  MaxForced = 1
  MaxCrashes = 1
  s1 = s1  s2 = s2  v1 = v1  o1 = o1  o2 = o2
  Nodes = {n1, n2}
  Pollers = {p1}
  Requests = {r1, r2}
  Tokens = {t2, t3}
  Ttls = {1, 2}
  Page = 1
  HasRedis = TRUE
  MaxRestarts = 1
  n1 = n1  n2 = n2  p1 = p1  r1 = r1  r2 = r2   t2 = t2  t3 = t3
  Customers = {c1, c2}
  Paid = {pro}
  Hooks = {h1, h2}
  MaxKeys = 2
  MaxStripe = 3
  Tenants = {e1, e2}
  Chats = {i1, i2}
  Lookups = {l1, l2}
  Budget = 2
  MaxRounds = 2
  ToolTtl = 2
  KeyTtl = 2
  MissTtl = 1
  MaxEvents = 3
  MaxMonth = 2
  MaxPolicy = 1
  LastSecond = 3
  e1 = e1  l1 = l1
  Kinds = {"max_storage_gb"}
  Unasked = {"max_storage_gb"}
  Limits = {1, 2}
  Default = 1
  Admins = {a1}
  Replicas = {q1}
  Makers = {m1, m2}
  QuotaTtl = 2
  QuotaTimeout = 1
  MaxThings = 3
  MaxQuotaTime = 4
  Workspaces = {k1, k2}
  GatewayTables = {"tools"}
  Jobs = {j1, j2}
  k1 = k1  k2 = k2  j1 = j1  j2 = j2
INVARIANTS
  PlanTellsPayment
  TokensMetered
  ProxyKnowsRecent
  IdentitySound
  LiveTokenPublished
  QuotasHold
  CompletedErased
  RevokedStaysRejected
PROPERTIES
  NewestRevocationArrives
CHECK_DEADLOCK FALSE
