\* Two workers, three steps, evals that may queue up, stop at any time.
SPECIFICATION AdaptersSpec
CONSTANTS
  w1 = w1
  w2 = w2
  Workers = {w1, w2}
  NumScenarios = 3
  MinBatch = 1
  MaxBatch = 1
  MaxOffPolicy = 1
  QueueMax = 2
  MaxSteps <- Unlimited
  DiscardLimit = 4
  HasEval = TRUE
  EvalAtStart = TRUE
  EvalEvery = 1
  Outcomes = {"ok"}
  Environment = {"stop"}
  StepBound = 4
  RetentionInterval = 1
SYMMETRY WorkerSymmetry
INVARIANTS NamedAdaptersServed NeededCheckpointsKept
