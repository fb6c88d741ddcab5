SPECIFICATION PassSpec
CHECK_DEADLOCK FALSE
CONSTANTS
  Batches <- MCBatches
  SeqLen = 7
  PackResults = TRUE
  CpSize = 2
  AttentionBlock = 2
  MinChainPrefix = 2
  MinChainCompletion = 2
  MinPerRank = 1
  RankIdleCost = 1
  ParentStatePenalty = 1
  ChunkSize = 2
INVARIANT TransferredStatesWhole
