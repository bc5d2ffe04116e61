CONSTANTS
  Callers = {c1, c2}
  N = 2
  MaxCalls = 3
  SpawnMayStop = TRUE
SPECIFICATION Spec
CHECK_DEADLOCK FALSE
INVARIANTS
  RoutedToWorker
