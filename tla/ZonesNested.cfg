CONSTANTS
  Threads = {"t1", "t2"}
  Owners = {"t1"}
  Reminders = {"daily", "once", "nested"}
  Parsed = {}
  Asked = {}
  REM <- REM_
  LastDay = 3
  HoursInDay = 4
  DaysInYear = 2
  LocalTimeZone = 0
  Files <- TwoFiles
  Paths <- TwoPaths
  Programs = {"remind"}
  BootDay = 1
  BootTime = 3
  Horizon = 2
  MaxCalls <- Calls
SPECIFICATION Spec
CHECK_DEADLOCK FALSE
INVARIANTS
  NeverAborts
