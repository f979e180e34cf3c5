SPECIFICATION Spec
CONSTANTS
  r1 = r1
  r2 = r2
  Calls = {r1, r2}
INVARIANTS
  NothingOutlivesTurn
CHECK_DEADLOCK FALSE
