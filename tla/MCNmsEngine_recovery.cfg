SPECIFICATION Spec
CONSTANTS
  Devices = {d1}
  Incidents = {i1}
  FailureThreshold = 2
  RecoveryThreshold = 2
  Ops = {}
  Profiles = {}
  NULL = NULL
INVARIANT RecoveryResolves
