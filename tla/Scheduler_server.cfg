SPECIFICATION SchedFairSpec
CONSTANTS
  g1 = g1
  g2 = g2
  t1 = t1
  t2 = t2
  Groups = {g1, g2}
  Tasks = {t1, t2}
  Home <- MCTwoHomes
  Kind <- MCKind
  Every <- MCEveryMinute
  Limit = 1
  MaxRetries = 1
  MaxTimers = 1
  Cli = FALSE
  MaxNow = 2
  MaxRestarts = 1
PROPERTIES
  OnceRunsOnce
  DueTaskIsExecuted
CHECK_DEADLOCK FALSE
