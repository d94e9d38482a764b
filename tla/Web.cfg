SPECIFICATION FairSpec
CONSTANTS
  Stale = Stale
  NoSid = NoSid
  Browsers = {b1, b2}
  Requests = {q1}
  Sids = {s1, s2}
  Ttl = 1
  MaxClock = 4
  Contents = {c1, c2}
  Rdbs = {c2}
  Posts = {p1, p2}
  Gets = {g1}
  MaxTries = 2
  w1 = w1  w2 = w2  w3 = w3
  Workers = {w1, w2, w3}
  Connecting = {w1, w2}
  JobOf <- Jobs
  Stages = 2
  JobTtl = 1
  Limit = 1
  MaxTime = 3
  Calls = {t1, t2}
  MaxOpen = 2
  MaxBatch = 2
  MaxCounter = 4
  x1 = x1  x2 = x2  x3 = x3
  Exports = {x1, x2, x3}
  OutPaths = {"rdb", "xlsx"}
  PathOf <- OutNames
  ToolOf <- Tools
  MaxChosen = 2
  sh1 = sh1  sh2 = sh2  sh3 = sh3
  rdb1 = rdb1  rdb2 = rdb2  m1 = m1  m2 = m2  tq1 = tq1  tq2 = tq2
  Sheets = {sh1, sh2, sh3}
  RdbOf <- SheetRdb
  ModelOf <- SheetModel
  Points = {0, 1}
  Scaled <- ModelScaled
  Quantities = {tq1, tq2}
  InFile <- Files
  MaxTyped = 1
  NoModel = NoModel
  v1 = v1  v2 = v2
  Vbs = {v1, v2}
  VbOfRef <- TwoAndOne
  VbOfSymbol <- TwoAndOne
  Subscribed = {1}
  Health = {v2}
  Wordings = {"first", "second"}
  MaxCells = 1
CHECK_DEADLOCK FALSE
INVARIANTS
  WebTypeOK SessionsAreApart ExpiredIsReleased ListedIsOnDisk TabsAreTrue
  OutputIsWhole SettingsAreKept
PROPERTIES
  SweepsTheIdle ProgressIsTrue
