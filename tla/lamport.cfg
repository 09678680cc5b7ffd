SPECIFICATION FairSpec
CONSTANTS
  N = 3
  Iterations <- MCUneven
  mutexl = TRUE
  SleepCovers = TRUE
INVARIANTS
  TypeOK
  MutualExclusion
  GrantInOrder
  MutexInv
  ScanFindsTop
  ClocksIncrease
  PipeBound
PROPERTIES
  ServiceSpec
  Termination
