SPECIFICATION Apart
CONSTANTS
  BASE = 5
  DaysInWeek = 3
  MonthDays <- ShortYear
  LeapMonth = 1
  LeapEvery = 2
  NotEvery = 4
  ButEvery = 8
  OmitLines <- Lines
  OtherLines <- Others
  AddedDays <- Added
  NO_YR <- Never
  NO_MON <- Never
  NO_DAY <- Never
  MAX_FULL_OMITS = 5
  MAX_PARTIAL_OMITS = 10
  MaxOmitPushes = 1
  VarNames = {"x", "y"}
  SysVarNames = {"MinsFromUTC", "EndSent", "April", "Daemon", "TimeSep", "Latitude", "OnceFile", "ExpressionTimeLimit"}
  SysVarArr <- SysVarsOf
  InitialSys <- InitialValues
  SetLines <- SomeSets
  SetSysLines <- SysSets
  NameLists <- SomeLists
  Translate <- EntryOf
  LastDay = 1
  DateOf <- FromDSE
  UNSET = UNSET
  MaxVarPushes = 2
  FuncNames <- AllLower
  strtolower <- ToLower
  Builtin = {"abs"}
  Definitions <- Fsets
  FuncLists <- Lists
  UNDEFINED = UNDEFINED
  MaxFuncPushes = 2
  bucket_choices <- Buckets
  Originals <- Words
  Translations <- Targets
  LANGID <- Language
  en <- English
  HashVal_preservecase <- Hash
  Reminders <- Issues
  NO_TIME <- NoTime
  NULL = NULL
INVARIANTS
  OmitMeansItsDays
  StateSound
  TablesSound
PROPERTIES
  ContextsRestored
  OnlyTheseOutlive
  ShowsDictionary
