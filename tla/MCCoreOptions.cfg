\* Two options of two values each, two sessions with edits of the file before each.
SPECIFICATION Spec
CONSTANTS
  k1 = k1
  k2 = k2
  a = a
  b = b
  none = none
  Keys <- TwoKeys
  Values <- TwoValues
  None <- none
  MaxValues = 2
  MaxStrings = 3
  MaxSessions = 2
INVARIANTS
  TypeOK
  NothingStale
  NoDangling
  FreedOnce
  ChoiceAnnounced
PROPERTIES
  RetiredForAReason
  RestIsKept
CHECK_DEADLOCK FALSE
