SPECIFICATION FairSpec
CONSTANTS
  Keys = {k1}
  NoKey = nokey
  Periods = {1}
  MaxDelay = 1
  Durable = TRUE
  MaxId = 2
  MaxTime = 2
  MaxCrashes = 1
INVARIANTS TypeOK PendingIsDurable NoLostTimer
PROPERTIES RevokedStaysQuiet DueTaskFires
CHECK_DEADLOCK FALSE
