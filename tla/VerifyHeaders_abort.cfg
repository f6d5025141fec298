CONSTANTS
  N <- MCHeaders
  MaxProcs <- MCProcs
  FullFake = FALSE
  AbortUsed = TRUE
SPECIFICATION Spec
INVARIANT OrderedDelivery
PROPERTY Refines
\* After an abort a worker may stay blocked on done for good: the batch
\* really can stop short of Terminated (see VerifyHeaders_leak.cfg).
CHECK_DEADLOCK FALSE
