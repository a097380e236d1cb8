SPECIFICATION FairSpec
CONSTANTS
  MaxSamples = 3
  Capacity = 2
  BatchSize = 2
  Kinds = {"good", "bad", "poison"}
  Calls = {c1, c2}
  MaxFaults = 2
  MaxClears = 1
  NULL = NULL
INVARIANTS TypeOK BufferBound NoSilentLoss
PROPERTIES ImplementsDelivery CleanQueueDrains
CHECK_DEADLOCK FALSE
