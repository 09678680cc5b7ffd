SPECIFICATION FairSpec
CONSTANTS
  N = 2
  Iterations <- MCProgram
  mutexl = FALSE
  SleepCovers = FALSE
PROPERTIES
  EveryChildLogsDone
CHECK_DEADLOCK FALSE
