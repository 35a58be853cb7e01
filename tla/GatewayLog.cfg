SPECIFICATION MCSpec
CONSTANTS
  Agents = {a1}
  Anonymous = anon
  Invokers = {i1, i2}
  Defaults <- MCDefaults
  Bodies <- MCBodies
  Quotas <- MCQuotas
  Hour = 1
  Day = 2
  CacheFor = 1
  LastMinute = 3
  MaxVersions = 2
  MaxChanges = 2
  MaxCalls = 3
  MaxLlm = 1
  Recorders = {r1, r2}
  MaxMillis = 3
  MaxEvents = 3
  MaxPurges = 1
  OAuthStates = {s1}
  Connections = {c1, c2}
  Requests = {q1, q2}
  Rotating = TRUE
  Lifetime = 2
  Leeway = 1
  StateTtl = 1
  LastTick = 3
  MaxGrants = 2
  MaxCodes = 2
  NULL = NULL
  k1 = k1  k2 = k2  k3 = k3  x1 = x1  x2 = x2
  Handlers = {x1, x2}
  Calls = {k1, k2, k3}
  Losses <- MayBeLost
INVARIANTS
  GatewaySound
  RunsInOrder
  OnlyMadeUndone
  
  OvershootBounded
  OldResultNeedsRace
  QuietLogVerifies
  RefreshTokenAlive
  SecondUseNeedsRace
PROPERTIES
  UndoneInReverse
CHECK_DEADLOCK FALSE
