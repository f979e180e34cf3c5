SPECIFICATION FairSpec
CONSTANTS
  r1 = r1
  r2 = r2
  Calls = {r1, r2}
INVARIANTS
  TurnTypeOK
  EventsInOrder
  NothingUnsaid
  CompletedIsTrue
  CarriedOutOnce
PROPERTIES
  TurnEnds
  CallsAreAnswered
CHECK_DEADLOCK FALSE
