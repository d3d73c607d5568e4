CONSTANTS
  BASE = 4
  DaysInWeek = 3
  MonthDays <- ShortYear
  LeapMonth = 1
  LeapEvery = 2
  NotEvery = 4
  ButEvery = 8
  Triggers <- LateInMonth
  OmitContexts <- NoOmitContext
  FirstDay = 11
  LastDay = 46
  Horizon = 85
  TRIG_ATTEMPTS = 30
  MaxSatIter = 10
  YR_RANGE = 10
  MINUTES_PER_DAY = 24
  DefaultPrio = 5
  Commands = {}
SPECIFICATION RunSpec
CHECK_DEADLOCK FALSE
INVARIANTS
  DateIsNext
