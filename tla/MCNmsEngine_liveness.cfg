SPECIFICATION FairSpec
CONSTANTS
  Devices = {d1}
  Incidents = {i1}
  FailureThreshold = 2
  RecoveryThreshold = 1
  Ops = {"test", "now", "start", "stop", "restart"}
  Profiles = {}
  NULL = NULL
INVARIANT SchedulerTrue
PROPERTIES CyclesEnd OutageReported
