SPECIFICATION FairSpec
CONSTANTS
  g1 = g1
  g2 = g2
  g3 = g3
  t1 = t1
  t2 = t2
  Groups <- MCGroups
  Tasks = {t1, t2}
  Home <- MCHome
  Limit = 2
  MaxRetries = 1
  MaxTimers = 2
INVARIANTS
  TypeOK
  ConcurrencyLimit
  WaitingSound
  NoLostWakeup
  WorkConserving
  NoDuplicateTask
  FailureKeepsRetry
  ShutdownQuiescent
PROPERTIES
  ImplementsContract
  ShutdownCompletes
  ComesToRest
CHECK_DEADLOCK FALSE
