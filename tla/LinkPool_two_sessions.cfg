SPECIFICATION Spec
CONSTANTS
  d1 = d1  d2 = d2  d3 = d3  r1 = r1  r2 = r2  o1 = o1  o2 = o2  o3 = o3
  None = None
  Diagrams = {d1, d2}
  Relays = {r1, r2}
  Mms = {}
  Owners = {o1, o2}
  RelayOf <- OneRelay
  OwnerOf <- SameId
  MaxLinks = 2
  MaxGen = 2
  Requests <- Both2
  EarlyReconnect = FALSE
  RelayMayHang = FALSE
CHECK_DEADLOCK FALSE
INVARIANT NoCloseUnderDiagram
