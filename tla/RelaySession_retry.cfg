SPECIFICATION SessionSpec
CONSTANTS
  Stale = 0
  MaxFails = 4
  Looks = 1
CHECK_DEADLOCK FALSE
INVARIANT AttemptsAreLimited
