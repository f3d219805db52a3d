\* One game, one crash: what must happen eventually.
SPECIFICATION FairSpec
CONSTANTS
  g1 = g1
  g2 = g2
  probe = probe
  none = none
  small = small
  large = large
  Sessions <- OneGame
  Conns <- OneGame
  Sizes <- OneSize
  Persisted <- OneGame
  Probe <- none
  None <- none
  MaxCrashes = 1
  MaxPending = 1
PROPERTIES
  LossIsReported
  StopReturns
  OrphanClosed
CHECK_DEADLOCK FALSE
