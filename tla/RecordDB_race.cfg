\* The importer and the miner each finalise one block while the database
\* is not yet open.  The process stops when its calls are done or when
\* log.Fatal ends it, so the final states have no successor: deadlock is
\* not checked.
SPECIFICATION Spec
CONSTANTS
  importer = importer
  miner = miner
  r1 = r1
  r2 = r2
  Nil = Nil
  Callers <- MCCallers
  Keys = {1}
  Values = {r1}
  MaxCalls = 1
INVARIANT OpenedOnce
CHECK_DEADLOCK FALSE
