SPECIFICATION Spec
CONSTANTS
  main = main
  other = other
  c1 = c1
  none = none
  Callers <- TwoCallers
  Owner <- main
  Clients <- OneClient
  NoClient <- none
  Advertise = TRUE
INVARIANTS
  WaitReturnsFinalStatus
CHECK_DEADLOCK FALSE
