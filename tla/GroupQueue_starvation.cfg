SPECIFICATION FairSpec
CONSTANTS
  g1 = g1
  g2 = g2
  g3 = g3
  t1 = t1
  t2 = t2
  Groups <- MCTwoGroups
  Tasks = {t1, t2}
  Home <- MCHomeSplit
  Limit = 1
  MaxRetries = 2
  MaxTimers = 3
PROPERTIES
  WaitingIsServed
CHECK_DEADLOCK FALSE
