SPECIFICATION SchedSpec
CONSTANTS
  g1 = g1
  g2 = g2
  t1 = t1
  t2 = t2
  Groups = {g1}
  Tasks = {t1, t2}
  Home <- MCOneHome
  Kind <- MCRecurring
  Every <- MCEvery
  Limit = 1
  MaxRetries = 1
  MaxTimers = 1
  Cli = TRUE
  MaxNow = 4
  MaxRestarts = 0
PROPERTIES
  PhaseKept
  StatusStands
  NoBacklog
CHECK_DEADLOCK FALSE
