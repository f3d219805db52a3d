\* Two games, one after the other, with no crash.
SPECIFICATION Spec
CONSTANTS
  g1 = g1
  g2 = g2
  probe = probe
  none = none
  small = small
  large = large
  Sessions <- TwoGames
  Conns <- TwoGames
  Sizes <- TwoSizes
  Persisted <- OneGame
  Probe <- none
  None <- none
  MaxCrashes = 0
  MaxPending = 1
INVARIANTS
  SessionIsLoaded
  NoForeignSave
PROPERTY GamesTakeTurns
CHECK_DEADLOCK FALSE
