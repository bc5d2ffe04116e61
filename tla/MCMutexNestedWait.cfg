CONSTANTS
  Threads = {t1, t2}
  NoThread = NoThread
  MaxCalls = 3
  WaitDepth = 2
SPECIFICATION Spec
INVARIANTS
  BookkeepingMirrors
CHECK_DEADLOCK FALSE
