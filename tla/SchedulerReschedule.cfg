SPECIFICATION Spec
CONSTANTS
  Keys = {k1}
  NoKey = nokey
  Periods = {1}
  MaxDelay = 1
  Durable = TRUE
  MaxId = 2
  MaxTime = 2
  MaxCrashes = 0
INVARIANTS LoopSurvives
CHECK_DEADLOCK FALSE
