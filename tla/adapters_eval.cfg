\* A queued eval whose adapter is pruned before the eval runs.
SPECIFICATION AdaptersSpec
CONSTANTS
  w1 = w1
  Workers = {w1}
  NumScenarios = 3
  MinBatch = 1
  MaxBatch = 1
  MaxOffPolicy = 0
  QueueMax = 2
  MaxSteps <- Unlimited
  DiscardLimit = 4
  HasEval = TRUE
  EvalAtStart = FALSE
  EvalEvery = 1
  Outcomes = {"ok"}
  Environment = {}
  StepBound = 4
  RetentionInterval = 1
INVARIANTS EvalAdapterServed
