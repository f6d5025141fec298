CONSTANTS
  N <- MCHeaders
  MaxProcs <- MCProcs
  FullFake = FALSE
  AbortUsed = FALSE
SPECIFICATION Spec
\* VerifyHeaders ends: once every goroutine of the batch has returned no
\* step is left, and WorkersExit, not the deadlock check, says when that
\* must happen.
CHECK_DEADLOCK FALSE
INVARIANT TypeOK
INVARIANT OrderedDelivery
PROPERTY WorkersExit
