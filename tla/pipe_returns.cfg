SPECIFICATION FairSpec
CONSTANTS
  w1 = w1
  w2 = w2
  Workers = {w1, w2}
  NumScenarios = 3
  MinBatch = 1
  MaxBatch = 2
  MaxOffPolicy = 0
  QueueMax = 1
  MaxSteps <- Unlimited
  DiscardLimit = 4
  HasEval = TRUE
  EvalAtStart = TRUE
  EvalEvery = 1
  Outcomes = {"ok"}
  Environment = {"stop", "eval_fails"}
  StepBound = 4
INVARIANTS PendingEvalsScheduled
PROPERTIES TrainReturnsEventually
