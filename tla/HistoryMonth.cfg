CONSTANTS
  Users = {u1}
  None = None
  Interval = 2
  Day = 5
  Month = 2
  Loads <- MCLoads
  Waits = {0, 2, 3, 5}
  MaxTime = 11
  MaxBytes = 5
  MaxPasses = 4
SPECIFICATION Spec
CHECK_DEADLOCK FALSE
PROPERTY ChartKeepsItsDays
