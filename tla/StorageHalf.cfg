SPECIFICATION MCSpec
CONSTANTS
  Parts = {"store"}
  Tasks = {t1, t2, t3}
  Callers = {t1, t2}
  None = none
  Keys = {"a", "b"}
  Values = {0, 1, 2}
  Seed <- MCSeed
  Bodies <- MCBodies
  Budgets <- MCBudgets
  Players = {ann, bob}
  Admin = bot
PROPERTIES RollsBack
CHECK_DEADLOCK FALSE
