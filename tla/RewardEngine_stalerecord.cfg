\* StaleRecord: the side database's record of imported blocks, with every Put succeeding.
CONSTANTS
  u1 = u1
  u2 = u2
  zero = zero
  Users <- MCUsers
  Zero <- zero
  ByteBase = 2
  FieldBytes = 8
  FrontierBlockReward = 120
  PocBlockReward = 100
  PowBlockReward = 20
  PageSize <- MCPageSize
  StartNumber = 1
  MaxBlocks = 2
  Registries <- BlockRegistries
  UncleLists <- MCUncleLists
  TxFeeLists <- MCTxFeeLists
  SaveMayFail = FALSE
SPECIFICATION Spec
INVARIANT RecordOfCanonical
