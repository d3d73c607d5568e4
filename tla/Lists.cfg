CONSTANTS
  BASE = 4
  DaysInWeek = 3
  MonthDays <- ShortYear
  LeapMonth = 1
  LeapEvery = 2
  NotEvery = 4
  ButEvery = 8
  Jobs <- AllJobs
  Triggered <- Few
  Settings <- FewSettings
  MaxLines = 3
  MaxIterations = 2
SPECIFICATION ListsSpec
CHECK_DEADLOCK FALSE
INVARIANTS
  SortedAsAsked
  IssuedOnce
  BannersInPlace
  CalendarShowsEveryDay
  TextsReadable
