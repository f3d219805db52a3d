\* One game and the probe of a core, one crash of the helper.
SPECIFICATION Spec
CONSTANTS
  g1 = g1
  g2 = g2
  probe = probe
  none = none
  small = small
  large = large
  Sessions <- OneGame
  Conns <- OneGameAndProbe
  Sizes <- TwoSizes
  Persisted <- OneGame
  Probe <- probe
  None <- none
  MaxCrashes = 1
  MaxPending = 1
INVARIANTS
  TypeOK
  OneBatch
  QuiescentGeometry
CHECK_DEADLOCK FALSE
