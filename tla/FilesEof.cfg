SPECIFICATION Spec
CONSTANTS
  Names <- AllNames
  NoName <- None
  Setups <- EofSetups
  IF_NEST = 4
  INCLUDE_NEST = 3
INVARIANTS
  EofEndsScript
CHECK_DEADLOCK FALSE
