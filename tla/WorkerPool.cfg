CONSTANTS
  Callers = {c1, c2}
  N = 2
  MaxCalls = 3
  SpawnMayStop = FALSE
SPECIFICATION Spec
CHECK_DEADLOCK FALSE
INVARIANTS
  TypeOK
  InOnePlace
  NoLostWakeup
  StickyWorker
  RoutedToWorker
PROPERTIES
  EveryCallReturns
  StopReturns
