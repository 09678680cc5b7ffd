SPECIFICATION Spec
CONSTANTS
  N = 3
  Iterations <- MCOnce
  mutexl = TRUE
  SleepCovers = FALSE
INVARIANTS
  TypeOK
  GrantInOrder
  ReplyAccounting
  DeferredIsCurrent
  ShortSleepHarmless
PROPERTIES
  ServiceSpec
CHECK_DEADLOCK FALSE
