SPECIFICATION FairSpec
CONSTANTS
  server = server
  web = web
  Packages <- TwoPackages
  Releases = 4
  Manifest <- Forward
  Assets <- ForwardAssets
  MaxFaults = 3
  Lossy = FALSE
INVARIANTS
  TypeOK
  OnlyVerified
  UpdatedMeansInstalled
  BrokenIsReplaced
PROPERTIES
  RetriesSucceed
