SPECIFICATION FairSpec
CONSTANTS
  N = 3
  StartBalances <- MCBalances
INVARIANTS
  TypeOK
  NoFailure
  Conservation
  ClockBound
PROPERTIES
  LedgerSpec
  TerminationUnlessDoneLost
CHECK_DEADLOCK FALSE
