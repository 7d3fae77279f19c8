SPECIFICATION Spec
CONSTANTS
  Parts = {"chat", "feed", "auth", "hits", "keys", "panel", "layers"}
  Tabs = {"tab"}
  MaxTurns = 3
  MaxStops = 1
  MaxDrops = 1
  Bots = {"bot"}
  Capacity = 2
  MaxEvents = 3
  MaxBreaks = 1
  MaxLate = 1
  Windows = {"left", "right"}
  Calls = {"r", "s"}
  MaxTokens = 2
  AuditRows = 3
  QueueSize = 2
  MaxRows = 5
  Keys = {1, 2, 3, 4}
  Limit = 2
  Editors = {"editor"}
  EditKey = 2
  MaxChanges = 2
  Agents = {"ann", "ben"}
  Hits <- TwoAndOne
  NoAgent = "none"
  MaxLoads = 4
  AgentList <- AnnThenBen
  MaxVisits = 2
INVARIANTS ChatIsTrue FeedsAreTrue ListsAreTrue NotByItself
PROPERTIES TurnsEnd
CHECK_DEADLOCK FALSE
