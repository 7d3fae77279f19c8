SPECIFICATION Spec
CONSTANTS
  k1 = k1
  k2 = k2
  k3 = k3
  None = none
  Deliveries = {d1, d2, d3, d4}
  Events <- AllKinds
  MaxConcurrent = 2
  MaxSessions = 2
  MaxSeen = 2
INVARIANTS TypeOK StoredSerialised PermitsConserved NoStuckSession
SYMMETRY Symmetry
CHECK_DEADLOCK FALSE
