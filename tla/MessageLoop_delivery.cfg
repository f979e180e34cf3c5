SPECIFICATION LoopFairSpec
CONSTANTS
  g1 = g1
  g2 = g2
  t1 = t1
  Groups = {g1, g2}
  Tasks = {t1}
  Home <- MCHome
  Limit = 1
  MaxRetries = 1
  MaxTimers = 1
  Triggerless = {g1}
  MainGroups = {g1}
  Window = 3
  Faults = {}
  MaxMessages = 3
  MaxClock = 3
  MaxBoots = 2
INVARIANTS
  NothingPassedOver
PROPERTIES
  CallsAreHandled
CHECK_DEADLOCK FALSE
