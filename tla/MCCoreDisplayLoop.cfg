\* Two games in one process, with a failed write and a kill of the app.
SPECIFICATION Spec
CONSTANTS
  s1 = s1
  s2 = s2
  e1 = e1
  e2 = e2
  none = none
  Sessions <- MCSessions
  Entries <- MCEntries
  None <- none
  FlushEvery = 2
  MaxWrites = 3
  MaxFailures = 1
  MaxKills = 1
INVARIANTS
  OneActiveCore
  CacheIsFile
  BoundedLoss
PROPERTIES
  StopKeepsProgress
  GamesTakeTurns
CHECK_DEADLOCK FALSE
