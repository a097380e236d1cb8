SPECIFICATION Spec
CONSTANTS
  Callers = {c1, c2}
  Monitor = monitor
  Hosts = {h1, h2}
  Manual = {h1}
  Sids = {s1, s2}
  MaxSessions = 1
  MaxCalls = 2
  Ops = {"command", "execute", "probe", "shutdown"}
  NULL = NULL
SYMMETRY Symmetry
INVARIANTS TypeOK PoolBound ReservationsExact SecretsSound IndexFresh ChainNeedsProbe
PROPERTIES ImplementsPool OnlyDeadUnindexed
CHECK_DEADLOCK FALSE
