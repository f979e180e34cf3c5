SPECIFICATION WebFairSpec
CONSTANTS
  control = control
  u1 = u1
  u2 = u2
  main = main
  web = web
  Groups = {control, u1, u2}
  Folders = {main, web}
  Defaults = {control}
  Control = control
  HomeFolder <- MCHomeFolder
  Jobs = {1}
  MaxChanges = 3
  Sockets = {1, 2}
  UserOf <- MCUserOf
  WebFolder <- MCWebFolder
  Invalid = "invalid"
INVARIANTS
  MemoryFollowsTable
  SharersLostTheirRow
  OnlyControlIsMain
  SessionIsServed
PROPERTIES
  OrdinaryGroupsTouchOnlyThemselves
  StopEnds
CHECK_DEADLOCK FALSE
