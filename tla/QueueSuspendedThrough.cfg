SPECIFICATION OneServer
CONSTANTS
  SecPerMin = 2
  MinPerDay = 6
  Daemon <- ServerMode
  MaxLateMinutes = 0
  Line <- SuspendLines
  Scripts <- AllLines
  SchedOutcomes <- NoOutcome
  RunDurations = {0}
  StartDurations = {0}
  SuspendLengths = {3, 5, 7}
  TouchesMtime = TRUE
  EnvBudget <- OneSuspend
  StartTime = 0
  MaxTime = 24
INVARIANTS
  NotDroppedEarly
