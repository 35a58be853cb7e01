SPECIFICATION ProxySpec
CONSTANTS
  Customers = {}
  Paid = {pro}
  Hooks = {}
  MaxKeys = 1
  MaxStripe = 0
  Tenants = {t1, t2}
  Chats = {i1, i2}
  Lookups = {}
  Budget = 2
  MaxRounds = 2
  ToolTtl = 1
  KeyTtl = 1
  MissTtl = 1
  MaxEvents = 2
  MaxMonth = 1
  MaxPolicy = 0
  LastSecond = 0
INVARIANT WindowIsOwn
CHECK_DEADLOCK FALSE
