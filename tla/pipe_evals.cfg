\* One worker, an eval after every second step and at the start, and a process
\* that dies at any point and is started again once, or goes on with an eval of
\* the run that failed and may then be started again from what that eval stored.
\* No stop request: every scheduled eval is to be run.
SPECIFICATION ResumeSpec
CONSTANTS
  w1 = w1
  Workers = {w1}
  NumScenarios = 5
  MinBatch = 1
  MaxBatch = 1
  MaxOffPolicy = 1
  QueueMax = 1
  MaxSteps <- Unlimited
  DiscardLimit = 4
  HasEval = TRUE
  EvalAtStart = TRUE
  EvalEvery = 2
  Outcomes = {"ok"}
  Environment = {"train_raises"}
  StepBound = 7
  MaxRestarts = 2
  BesideBound = 2
  Backends = {"local", "native"}
CONSTRAINT Explored
INVARIANTS
  ScheduledEvalsRun
  StepsAgree RetrainingBounded LossBounded EvalsRemembered
