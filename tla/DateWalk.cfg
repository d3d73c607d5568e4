CONSTANTS
  BASE = 1990
  YR_RANGE = 4000
  DaysInWeek = 7
  MonthDays <- Gregorian
  LeapMonth = 1
  LeapEvery = 4
  NotEvery = 100
  ButEvery = 400
  LastYears = {2013, 2103}
SPECIFICATION Walk
CHECK_DEADLOCK FALSE
INVARIANTS
  GregorianDates
  HebrewDates
  WeeksAndEasters
