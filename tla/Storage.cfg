SPECIFICATION MCSpec
CONSTANTS
  Parts = {"store", "market"}
  Tasks = {t1, t2, t3}
  Callers = {t1, t2}
  None = none
  Keys = {"a", "b"}
  Values = {0, 1, 2}
  Seed <- MCSeed
  Bodies <- MCBodies
  Budgets <- MCBudgets
  Players = {ann, bob}
  Admin = bot
INVARIANTS TypeOK StallIsSound
PROPERTIES Atomic CooldownHolds
SYMMETRY Symmetry
CHECK_DEADLOCK FALSE
