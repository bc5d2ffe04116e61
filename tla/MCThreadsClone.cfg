SPECIFICATION FairSpec
CONSTANTS
  MaxThreads = 2
  Slots = 2
  VmaLimit = 6
  Values <- OneValue
  MapMayFail = FALSE
  CloneMayFail = TRUE
CHECK_DEADLOCK FALSE
PROPERTY JoinReturns
