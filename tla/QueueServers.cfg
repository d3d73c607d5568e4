SPECIFICATION Servers
CONSTANTS
  SecPerMin = 2
  MinPerDay = 6
  Daemon <- ServerMode
  MaxLateMinutes = 0
  Line <- MidnightLines
  Scripts <- AllVersions
  SchedOutcomes <- NoOutcome
  RunDurations = {0}
  StartDurations = {0}
  SuspendLengths = {}
  TouchesMtime = TRUE
  EnvBudget <- Commanded
  StartTime = 0
  MaxTime = 17
INVARIANTS
  PointerValid
  IssuedInOrder
  NothingIsMissed
  OnTime
  Heeded
PROPERTIES
  ProcessEnds
