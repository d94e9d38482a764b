SPECIFICATION OutputsSpec
CONSTANTS
  x1 = x1  x2 = x2  x3 = x3
  Exports = {x1, x2, x3}
  OutPaths = {"rdb", "xlsx"}
  PathOf <- OutNames
  ToolOf <- OneTool
  MaxChosen = 2
CHECK_DEADLOCK FALSE
INVARIANT KeyIsContent
