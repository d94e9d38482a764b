SPECIFICATION FairSpec
CONSTANTS
  a = a  b = b  p = p  q = q  x = x  y = y
  None = None  First = First
  Discoverers = {a,b}
  Tuners = {p}
  Closers = {x,y}
  JoinMayExpire = TRUE
CHECK_DEADLOCK FALSE
INVARIANTS TypeOK OneReader ClosedIsQuiet InPlaceIsCurrent
PROPERTIES CloseReturns GiveUpIsSeen
