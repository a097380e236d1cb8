SPECIFICATION Spec
CONSTANTS
  Actions = {a1}
  Callers = {c1, c2}
  Risks = {"HIGH"}
  MaxPolicies = 1
  MaxFaults = 0
  NULL = NULL
PROPERTY ExecutesApproved
