SPECIFICATION Spec
CONSTANTS
  MaxRestores = 1
  MaxFaults = 1
  CrossDevice <- DataOnly
  MayCrash = FALSE
INVARIANTS
  FullReplacement
CHECK_DEADLOCK FALSE
