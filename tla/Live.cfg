SPECIFICATION FairSpec
CONSTANTS
  Screens = {d1, d2}
  Readings = {v1}
  None = None
  Viewers = {d1, d2}
  x = x  y = y  z = z  e1 = e1  e2 = e2
  Pages <- TwoPages
  MaxTurns = 4
  MaxLate = 2
  Rows = {0, 1}
  Ghost = Ghost
  Unknown = Unknown
  MaxAsks = 5
  MaxPauses = 1
  Stale = 1
  MaxFails = 1
  Looks = 1
  Drawings = {e1, e2}
  WordBits = {x, y, z}
  DataLeaves = {"l1", "l2"}
  LeafOf <- Decorated
  RuleOf <- OneOfTwo
  BitsOf <- Drawn
  MmsPages <- AllOrOne
  MmsTurns = 1
CHECK_DEADLOCK FALSE
INVARIANTS LiveTypeOK ParkedHasSentIt StreamIsHonest TarNeverMislabels RelaySideIsRight
PROPERTIES ReadingsAreOrdered ScreenFollows PageIsAskedFor
