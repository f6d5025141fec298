\* Header checks over every field a peer may choose, on chains of three headers.
\* The run ends when the database is full: the bound, not the code.
CONSTANTS
  c1 = c1
  c2 = c2
  Genesis <- MCGenesis
  MaxBlocks = 3
  MaxTime = 2
  Coinbases = {c1, c2}
  TimeSteps = {1, 2, 3}
  GasLimits = {5, 6, 7, 10}
  GasUsed = {0, 9}
  ExtraLens = {0, 2}
  NucDifficulties = {0, 4}
  Results = {0, 5}
  UncleWindow = 3
  MaxUncles = 1
  AllowedFuture = 1
  MaximumExtraDataSize = 1
  GasCap = 9
  GasLimitBoundDivisor = 4
  MinGasLimit = 6
  DurationLimit = 2
  MinimumDifficulty = 2
  DifficultyBoundDivisor = 2
  ExpDiffPeriod = 1
  Two256 = 16
  FakePow = FALSE
  FakeFail = 0
SPECIFICATION Spec
INVARIANT HeaderRules
CHECK_DEADLOCK FALSE
