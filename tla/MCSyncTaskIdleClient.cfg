SPECIFICATION FairSpec
CONSTANTS
  main = main
  other = other
  c1 = c1
  none = none
  Callers <- TwoCallers
  Owner <- main
  Clients <- OneClient
  NoClient <- none
  Advertise = TRUE
PROPERTIES
  StopShutsDown
CHECK_DEADLOCK FALSE
