CONSTANTS
  Threads = {t1, t2, t3}
  NoThread = NoThread
  MaxCalls = 2
  WaitDepth = 1
SPECIFICATION Spec
INVARIANTS
  TypeOK
  MutualExclusion
  HolderIsKnown
  BookkeepingMirrors
  BoostsBalanced
SYMMETRY ThreadSymmetry
