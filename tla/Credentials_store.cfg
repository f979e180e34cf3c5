SPECIFICATION CredFairSpec
CONSTANTS
  Turns = {1, 2}
  Accounts = {"a", "b"}
  AccountsOf <- MCAccountsOf
  Mishaps = {"lost", "crash", "container"}
  MaxIssued = 2
INVARIANTS
  CredTypeOK
  NotStranded
  LastWordCounts
  PortFreed
PROPERTIES
  LoginEnds
CHECK_DEADLOCK FALSE
