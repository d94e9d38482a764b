SPECIFICATION Spec
CONSTANTS
  a = a  b = b  p = p  q = q  x = x  y = y
  None = None  First = First
  Discoverers = {a, b}
  Tuners = {p, q}
  Closers = {x, y}
  JoinMayExpire = FALSE
CHECK_DEADLOCK FALSE
SYMMETRY Calls
INVARIANTS OneTalker ShownIsRead
