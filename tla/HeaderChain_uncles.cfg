\* Uncle admission over a block tree of five headers.  The run ends when
\* the tree is full: the deadlock there is the bound, not the code.  The seal
\* is fake, as in the tests, and refuses block 4: uncle admission does not
\* depend on the seal, which the rules run checks.
CONSTANTS
  c1 = c1
  c2 = c2
  Genesis <- MCGenesis
  MaxBlocks = 5
  MaxTime = 0
  Coinbases = {c1, c2}
  TimeSteps = {1}
  GasLimits = {8}
  GasUsed = {0}
  ExtraLens = {0}
  NucDifficulties = {4}
  Results = {0}
  UncleWindow = 3
  MaxUncles = 1
  AllowedFuture = 60
  MaximumExtraDataSize = 1
  GasCap = 9
  GasLimitBoundDivisor = 4
  MinGasLimit = 6
  DurationLimit = 2
  MinimumDifficulty = 2
  DifficultyBoundDivisor = 2
  ExpDiffPeriod = 2
  Two256 = 16
  FakePow = TRUE
  FakeFail = 4
SPECIFICATION Spec
INVARIANT TypeOK
INVARIANT UnclesOnce
CHECK_DEADLOCK FALSE
