SPECIFICATION FairSpec
CONSTANTS
  MaxThreads = 3
  Slots = 2
  VmaLimit = 5
  Values <- OneValue
  MapMayFail = TRUE
  CloneMayFail = FALSE
CHECK_DEADLOCK FALSE
INVARIANT TypeOK
INVARIANT RegionsExclusive
INVARIANT RunningKeepsTls
INVARIANT VmasAccounted
INVARIANT ExitFindsItself
INVARIANT JoinTargetStays
INVARIANT JoinGetsValue
PROPERTY JoinReturns
