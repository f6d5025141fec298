\* One goroutine (the block importer) saving and reading records, three
\* calls: the first call opens the database, the later ones must reuse it.
\* The process stops when its calls are done or when log.Fatal ends it, so
\* the final states have no successor: deadlock is not checked.
SPECIFICATION Spec
CONSTANTS
  importer = importer
  miner = miner
  r1 = r1
  r2 = r2
  Nil = Nil
  Callers = {importer}
  Keys = {1, 2}
  Values <- MCValues
  MaxCalls = 3
INVARIANT OpenedOnce
CHECK_DEADLOCK FALSE
