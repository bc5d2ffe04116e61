CONSTANTS
  Threads = {t1, t2, t3}
  Counts = {2}
  MaxInits = 1
  MaxCalls = 1
  EarlyDestroy = TRUE
SPECIFICATION Spec
INVARIANTS
  OthersGetZero
