SPECIFICATION FairSpec
CONSTANTS
  N = 3
  Iterations <- MCProgram
  mutexl = FALSE
  SleepCovers = FALSE
PROPERTIES
  ParentGetsAllDone
CHECK_DEADLOCK FALSE
