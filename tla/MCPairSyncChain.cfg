SPECIFICATION Spec
CONSTANTS
  a = a
  b = b
  hub = hub
  ca = ca
  cb = cb
  Devices <- ThreeDevices
  Clients <- TwoClients
  Home <- ChainHome
  Target <- ChainTarget
  Kinds <- OnlyRemembers
  MaxFaults = 0
INVARIANTS
  PairsIfNeeded
