SPECIFICATION CommandFairSpec
CONSTANTS
  main = main
  other = other
  c1 = c1
  c2 = c2
  none = none
  Callers <- TwoCallers
  Owner <- main
  Clients <- TwoClients
  NoClient <- none
  Advertise = TRUE
INVARIANTS
  TypeOK
  JoinedMeansReleased
  AdvertisedIsOpen
  AtMostOneMore
  CommandTypeOK
  NoInterruptLost
  NeverUnexpected
PROPERTIES
  StateMovesForward
  StopEnds
  InterruptEnds
CHECK_DEADLOCK FALSE
