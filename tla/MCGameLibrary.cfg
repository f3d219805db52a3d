SPECIFICATION Spec
CONSTANTS
  None = None  abin = abin  acue = acue  bbin = bbin  bcue = bcue  cbin = cbin  s1 = s1  x = x  y = y  sheet = sheet  disc = disc  cart = cart  other = other
  Sources = {s1}
  Contents = {x, y, sheet}
  Systems = {other}
  PathOrder <- MCPathOrder
  NameOf <- MCNameOf
  ExtOf <- MCExtOf
  FolderOf <- MCFolderOf
  PathOf <- MCPathOf
  KindOf <- MCKindOf
  NamedBy <- MCNamedBy
  CoreOrder <- MCCoreOrder
  Claims <- MCClaims
  Plays <- MCPlays
  DiscOf <- MCDiscOf
  MaxChanges = 2
  MaxEvents = 2
INVARIANTS SavesFollow OneEntryPerPlay IdsUnique
PROPERTY KeepsIdentity
CHECK_DEADLOCK FALSE
