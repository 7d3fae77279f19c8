SPECIFICATION Spec
CONSTANTS
  None = none
  Tasks = {t1, t2}
  Settings <- Probed
  Capacity = 2
  MaxReplies = 1
  MaxRounds = 1
  MaxArrivals = 2
  MaxResets = 2
  MaxEvictions = 1
INVARIANTS TypeOK OneAtATime ResetForgets
PROPERTIES StaleIsSilent
SYMMETRY Symmetry
CHECK_DEADLOCK FALSE
