CONSTANTS
  N <- MCLeakHeaders
  MaxProcs <- MCLeakProcs
  FullFake = FALSE
  AbortUsed = TRUE
SPECIFICATION Spec
PROPERTY WorkersExit
CHECK_DEADLOCK FALSE
