SPECIFICATION FairSpec
CONSTANTS
  None = none
  Tasks = {t1, t2}
  Settings <- AllSettings
  Capacity = 2
  MaxReplies = 1
  MaxRounds = 1
  MaxArrivals = 2
  MaxResets = 1
  MaxEvictions = 0
INVARIANTS CallsAreHeard
PROPERTIES BufferDrains BatchesEnd
CHECK_DEADLOCK FALSE
