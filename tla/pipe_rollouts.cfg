SPECIFICATION Spec
CONSTANTS
  w1 = w1
  w2 = w2
  Workers = {w1, w2}
  NumScenarios = 3
  MinBatch = 1
  MaxBatch = 2
  MaxOffPolicy = 0
  QueueMax = 2
  MaxSteps <- Unlimited
  DiscardLimit = 2
  HasEval = FALSE
  EvalAtStart = TRUE
  EvalEvery = 1
  Outcomes = {"ok", "zero", "empty", "failed"}
  Environment = {"stop", "train_raises", "rollout_fails", "same_step"}
  StepBound = 5
SYMMETRY WorkerSymmetry
INVARIANTS OffPolicyBound LeasesMatchUse ScenariosAccountedFor NoLostWakeup
CHECK_DEADLOCK FALSE
PROPERTIES ImplementsOffPolicyTraining
