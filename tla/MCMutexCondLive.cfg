CONSTANTS
  Threads = {t1, t2}
  NoThread = NoThread
  MaxCalls = 3
  WaitDepth = 1
SPECIFICATION FairSpec
PROPERTIES
  EveryCallReturns
