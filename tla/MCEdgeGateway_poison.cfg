SPECIFICATION FairSpec
CONSTANTS
  MaxSamples = 2
  Capacity = 2
  BatchSize = 2
  Kinds = {"good", "poison"}
  Calls = {c1, c2}
  MaxFaults = 0
  MaxClears = 0
  NULL = NULL
PROPERTY QueueDrains
CHECK_DEADLOCK FALSE
