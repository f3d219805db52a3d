SPECIFICATION Spec
CONSTANTS
  e1 = e1  e2 = e2  e3 = e3  k1 = k1  k2 = k2  srm = srm  slot1 = slot1
  None = None
  Entries = {e1, e2, e3}
  Keys = {k1, k2}
  KeyOf <- MCKeyOf
  FileOrder <- MCFileOrder
  MaxLaunches = 2
  MaxSaves = 2
INVARIANT CarriedOver
PROPERTY NewerKept
CHECK_DEADLOCK FALSE
