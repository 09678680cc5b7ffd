SPECIFICATION FairSpec
CONSTANTS
  N = 3
  Iterations <- MCUneven
  mutexl = TRUE
  SleepCovers = TRUE
INVARIANTS
  PipeBound
PROPERTIES
  Termination
