SPECIFICATION Spec
CONSTANTS
  Callers = {c1, c2}
  Monitor = monitor
  Hosts = {h1}
  Manual = {h1}
  Sids = {s1, s2}
  MaxSessions = 2
  MaxCalls = 2
  Ops = {"command", "probe", "shutdown"}
  NULL = NULL
SYMMETRY Symmetry
CHECK_DEADLOCK FALSE
INVARIANT NoLockCycle
