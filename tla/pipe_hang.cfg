SPECIFICATION FairSpec
CONSTANTS
  w1 = w1
  Workers = {w1}
  NumScenarios = 2
  MinBatch = 1
  MaxBatch = 1
  MaxOffPolicy = 1
  QueueMax = 1
  MaxSteps = 1
  DiscardLimit = 4
  HasEval = FALSE
  EvalAtStart = FALSE
  EvalEvery = 0
  Outcomes = {"ok"}
  Environment = {}
  StepBound = 4
PROPERTIES TrainReturnsEventually
CHECK_DEADLOCK FALSE
