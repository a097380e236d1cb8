SPECIFICATION FairSpec
CONSTANTS
  Callers = {c1, c2}
  Monitor = monitor
  Hosts = {h1}
  Manual = {h1}
  Sids = {s1, s2}
  MaxSessions = 2
  MaxCalls = 1
  Ops = {"command", "open", "close"}
  NULL = NULL
PROPERTY CallsReturn
PROPERTY PoolDrains
CHECK_DEADLOCK FALSE
