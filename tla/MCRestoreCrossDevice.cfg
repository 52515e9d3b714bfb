SPECIFICATION Spec
CONSTANTS
  MaxRestores = 2
  MaxFaults = 1
  CrossDevice <- ExtensionsOnly
  MayCrash = TRUE
INVARIANTS
  LossIsReported
  OkMeansReplaced
CHECK_DEADLOCK FALSE
