SPECIFICATION FairSpec
CONSTANTS
  N = 3
  StartBalances <- MCBalances
INVARIANTS
  NoFailure
  Conservation
PROPERTIES
  LedgerSpec
  TerminationUnlessDoneLost
CHECK_DEADLOCK FALSE
