CONSTANTS
  Threads = {t1, t2, t3}
  Counts = {1, 2, 3}
  MaxInits = 2
  MaxCalls = 2
  EarlyDestroy = TRUE
SPECIFICATION FairSpec
INVARIANTS
  TypeOK
  RoundsAreWhole
  WaitingCounted
  BusyUntilReleased
PROPERTIES
  EveryoneLeaves
