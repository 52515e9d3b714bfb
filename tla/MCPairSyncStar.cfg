SPECIFICATION FairSpec
CONSTANTS
  a = a
  b = b
  hub = hub
  ca = ca
  cb = cb
  Devices <- ThreeDevices
  Clients <- TwoClients
  Home <- StarHome
  Target <- StarTarget
  Kinds <- AllKinds
  MaxFaults = 2
INVARIANTS
  TypeOK
  TrustIsMutual
  NothingForgotten
  PulledMeansPaired
PROPERTIES
  RetriesSucceed
