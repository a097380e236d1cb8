SPECIFICATION FairSpec
CONSTANTS
  Jobs = {j1, j2}
  Interval = {j1}
  Gated = {j1}
  Threads = {t1, t2}
  Runs = {r1, r2}
  MaxFaults = 1
  NULL = NULL
INVARIANTS TypeOK MarksHeld LastIsLatest
PROPERTIES KeepsLog RunsClose DueRuns
CHECK_DEADLOCK FALSE
