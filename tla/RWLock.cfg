CONSTANTS
  Threads = {t1, t2, t3}
  NoThread = NoThread
  MaxCalls = 3
SPECIFICATION FairSpec
INVARIANTS
  TypeOK
  ReadersCounted
  WritersCounted
  Exclusion
  NoMissedWakeup
PROPERTIES
  WriterPreference
  ImplementsReadersWriter
  EveryCallReturns
