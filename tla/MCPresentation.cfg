SPECIFICATION Spec
CONSTANTS
  CoreRates = {24, 25, 30, 50, 60, 75, 120, 300, 6000}
  Refreshes = {24, 48, 50, 60, 75, 90, 100, 120, 144, 240}
  MaxVblanks = 60
INVARIANTS TypeOK SpeedIsRight EvenPacing
CHECK_DEADLOCK FALSE
