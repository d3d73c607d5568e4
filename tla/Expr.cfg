CONSTANTS
  INT_MAX = 15
  HOURS_PER_DAY = 4
  MINUTES_PER_HOUR = 3
  LastDSE = 7
  MaxStringLen = 8
  MAX_PARSE_LEVEL = 40
  Func <- Table
  NO_MAX_ARGS <- NoMax
  SysVarTable <- SystemVars
  MAX_RECURSION_LEVEL = 4
  ExpressionNodeLimitPerLine = 12
  FuncTexts <- Functions_
  OmitFunc <- Omitted
  Sentences <- AllSentences
  Cases <- AllCases
  Again <- After
  Envs <- Worlds
  MaxLines = 2
  StartNumbers <- Numbers
  StartStrings <- Strings
SPECIFICATION EitherSpec
INVARIANTS
  ParsedAsWritten
  WorldKept
  NoShellInside
  ConstantMeansConstant
  ArithmeticHolds
CHECK_DEADLOCK FALSE
