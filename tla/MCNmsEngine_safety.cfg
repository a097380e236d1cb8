SPECIFICATION Spec
CONSTANTS
  Devices = {d1}
  Incidents = {i1, i2}
  FailureThreshold = 3
  RecoveryThreshold = 2
  Ops = {"test", "acknowledge", "profile", "delete", "restart"}
  Profiles <- SomeProfiles
  NULL = NULL
SYMMETRY Symmetry
INVARIANTS TypeOK OneOpen DownTracked
PROPERTY OutageDebounced
