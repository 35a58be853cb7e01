SPECIFICATION RevocationSpec
CONSTANTS
  Nodes = {n1}
  Pollers = {p1}
  Requests = {r1}
  Tokens = {t1, t2}
  Ttls = {2}
  Page = 2
  HasRedis = FALSE
  MaxTime = 2
  MaxRestarts = 0
INVARIANT PollMissesNothing
CHECK_DEADLOCK FALSE
