SPECIFICATION Spec
CONSTANTS
  MaxRestores = 2
  MaxFaults = 2
  CrossDevice <- NoPart
  MayCrash = TRUE
INVARIANTS
  TypeOK
  LossIsReported
  NeverMixed
PROPERTIES
  ImplementsAtomicRestore
CHECK_DEADLOCK FALSE
