SPECIFICATION FairSpec
CONSTANTS
  N = 2
  StartBalances <- MCBalances
PROPERTIES
  Termination
CHECK_DEADLOCK FALSE
