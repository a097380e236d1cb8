SPECIFICATION FairSpec
CONSTANTS
  MaxTurns = 3
  MaxFaults = 1
  NULL = NULL
INVARIANTS TypeOK NoStray ContextMatches AnswersTrue ReplacedOnceStored StopReaches
PROPERTIES StopDiscards Answered
CHECK_DEADLOCK FALSE
