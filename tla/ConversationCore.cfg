SPECIFICATION FairSpec
CONSTANTS
  Window = 5
  Keep = 1
  LedgerMaxlen = 2
  MaxTurns = 3
  MaxCommands = 3
  MaxFaults = 1
  MaxLosses = 1
INVARIANTS TypeOK AbortWasAsked ResetForgets Remembered EventsInOrder LedgerIsDurable
PROPERTIES CancelEndsTurn
