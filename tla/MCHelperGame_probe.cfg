\* The probe of a core ends, and the running game with it.
SPECIFICATION Spec
CONSTANTS
  g1 = g1
  g2 = g2
  probe = probe
  none = none
  small = small
  large = large
  Sessions <- OneGame
  Conns <- OneGameAndProbe
  Sizes <- TwoSizes
  Persisted <- OneGame
  Probe <- probe
  None <- none
  MaxCrashes = 0
  MaxPending = 1
PROPERTIES
  ClosedByItsOwn
CHECK_DEADLOCK FALSE
