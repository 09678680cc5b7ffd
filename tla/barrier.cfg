SPECIFICATION FairSpec
CONSTANT
  N = 3
INVARIANTS
  TypeOK
PROPERTIES
  BarriersSpec
  Termination
