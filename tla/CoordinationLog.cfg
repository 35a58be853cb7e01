SPECIFICATION Spec
CONSTANTS
  NULL = NULL
  Replicas = {r1}
  Holders = {h1, h2}
  Requests = {q1, q2}
  Ttls <- OneTtl
  MaxTtl = 1
  r1 = r1  h1 = h1  h2 = h2  q1 = q1  q2 = q2
  Workers = {w1, w2}
  Python <- PythonWorker
  Slots = {i1, i2}
  Ttl = 2
  MaxAttempts = 2
  w1 = w1  w2 = w2  i1 = i1  i2 = i2
  Runners = {p1, p2}
  Versions = {2, 3}
  Parent <- Parents
  MaxStarts = 4
INVARIANTS
  SchemaHasNoGap
  CoordinationSound
  PromisesHold
  DrainIsClean
PROPERTIES
  NothingIsStuck
  ActiveLeaseNotTaken
CHECK_DEADLOCK FALSE
