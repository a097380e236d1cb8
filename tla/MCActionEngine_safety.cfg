SPECIFICATION FairSpec
CONSTANTS
  Actions = {a1, a2}
  Callers = {c1, c2}
  Risks = {"LOW", "MEDIUM", "HIGH"}
  MaxPolicies = 1
  MaxFaults = 1
  NULL = NULL
INVARIANTS TypeOK NoBypass QueueNotBehind
PROPERTY ExecutionEnds
