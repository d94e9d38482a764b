SPECIFICATION Spec
CONSTANTS
  d1 = d1  d2 = d2  d3 = d3  r1 = r1  r2 = r2  o1 = o1  o2 = o2  o3 = o3
  None = None
  Diagrams = {d1, d2, d3}
  Relays = {r1, r2}
  Mms = {r1}
  Owners = {o1, o2, o3}
  RelayOf <- Rivals
  OwnerOf <- Own3
  MaxLinks = 1
  MaxGen = 3
  Requests <- Three11
  EarlyReconnect = FALSE
  RelayMayHang = FALSE
CHECK_DEADLOCK FALSE
INVARIANTS NoCloseUnderDiagram AttachedIsPooled
