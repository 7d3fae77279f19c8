SPECIFICATION MCSpec
CONSTANTS
  Parts = {"vm", "router", "parser", "wire", "pond"}
  NoEvent = noevent
  Handlers <- MCHandlers
  Order <- MCOrder
  Events <- MCEvents
  DefaultExpose = TRUE
  MaxSteps = 25
  MaxOutput = 5
  InnerSteps = 12
  InnerOutput = 4
  Stride = 7
  MaxDepth = 3
  MaxEvents = 2
  MaxLate = 1
INVARIANTS RulesAreMeant
PROPERTIES PartsEnd
CHECK_DEADLOCK FALSE
