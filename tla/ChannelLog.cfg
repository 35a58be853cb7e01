SPECIFICATION Spec
CONSTANTS
  c1 = c1  c2 = c2  k1 = k1  k2 = k2  m1 = m1  m2 = m2  m3 = m3
  NULL = NULL
  Clients = {c1, c2}
  Consumers = {k1}
  Messages = {m1, m2, m3}
  Limits <- OneOrAll
  Sinces <- NoRewind
  Acks <- Acking
SYMMETRY Symmetry
INVARIANTS
  ReplayLosesNothing
  MessageHasChannel
  RepeatNeedsOverlap
PROPERTIES
  SenderOrder
