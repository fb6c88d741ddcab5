\* One training call over rows and others without, in all three modes; the
\* service may be closed and started again once.  Calls are bounded, so a
\* behaviour may end.
SPECIFICATION LocalSpec
CHECK_DEADLOCK FALSE
CONSTANTS
  Modes = {"shared", "dedicated", "merged"}
  WorldSize = 2
  MaxCalls = 2
  MaxRestarts = 1
  MaxKills = 0
  JobsOf <- MCJobsOf
  Configs <- MCConfigs
  DpSize = 1
  Layers = 2
  Stack <- MCStack
  Batches <- MCBatches
  SeqLen = 7
  PackResults = TRUE
  CpSize = 2
  AttentionBlock = 2
  MinChainPrefix = 2
  MinChainCompletion = 2
  MinPerRank = 1
  RankIdleCost = 1
  ParentStatePenalty = 1
  ChunkSize = 2
  Setups = {"shared", "dedicated", "merged"}
  CallBound = 2
  StartBound = 1
  MaxRows = 1
INVARIANTS
  RowsAccepted
  ResultsReadBack
  OutputsRight
  LayersGetTheirRows
  RowsContributeOnce
  RoutesOwn
  GpuExclusive
  TrainsOnOwnRows
  MergesOwnShards
  ServedIsLatest
  TrainingKept
  GpuHandedOver
  OneResultPerRow
  ServesItsSteps
  TokensSeeOwnTrajectory
PROPERTY EveryCallEnds
