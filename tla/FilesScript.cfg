SPECIFICATION FairSpec
CONSTANTS
  Names <- AllNames
  NoName <- None
  Setups <- AllSetups
  IF_NEST = 6
  INCLUDE_NEST = 3
INVARIANTS
  BlocksKept
  Located
  NothingLost
PROPERTIES
  KeepsPromise
CHECK_DEADLOCK FALSE
