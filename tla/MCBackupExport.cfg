SPECIFICATION ExportSpec
CONSTANTS
  MaxRestores = 1
  MaxFaults = 1
  MaxExports = 1
  CrossDevice <- DataOnly
  MayCrash = FALSE
INVARIANTS
  ExportTypeOK
  LossIsReported
  OkMeansReplaced
  ShortMeansReplaced
  NothingOlderLater
  HalfMeansFailure
CHECK_DEADLOCK FALSE
