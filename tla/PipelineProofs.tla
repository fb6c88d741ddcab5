--------------------------- MODULE PipelineProofs ---------------------------
(* Theorems about PipelineTrainer, for every value of its constants: type    *)
(* correctness, the safety invariants, the evals it schedules, what becomes  *)
(* of a scenario, and that it implements OffPolicyTraining.  Then the        *)
(* trainer with its backends: PipelineAdapters, the adapters and checkpoints *)
(* of one run, and PipelineResume, what holds over any number of processes.  *)
EXTENDS PipelineRefinement, PipelineAdapters, PipelineResume,
        FiniteSetTheorems, WellFoundedInduction, TLAPS

USE DEF Unlimited

-----------------------------------------------------------------------------
(* Type correctness. *)

LEMMA InitType == Init => TypeOK
<1> SUFFICES ASSUME Init PROVE TypeOK
  OBVIOUS
<1> USE PipelineAssumption
<1>0. 0 \in Steps /\ 0 \in 0..NumScenarios
  BY DEF Steps
<1>a. FreshState = [scenario_offset |-> 0, training_step |-> 0,
                    last_eval_step |-> 0, completed_eval_steps |-> {}]
  BY DEF FreshState, Persisted
<1>b. /\ done = FALSE /\ policy_version = 0 /\ next_training_step = 0
      /\ scenario_offset = 0 /\ last_eval_step = 0
      /\ completed_eval_steps = {}
      /\ persisted = FreshState
  <2>1. CASE HasEval /\ EvalAtStart
    <3>1. /\ done = FALSE /\ policy_version = 0 /\ next_training_step = 0
          /\ scenario_offset = 0 /\ last_eval_step = 0
          /\ completed_eval_steps = {}
          /\ persisted = Persisted(0, scenario_offset, last_eval_step,
                                   completed_eval_steps)
      BY <1>a, <2>1 DEF Init, StartFrom
    <3> QED
      BY <3>1 DEF FreshState
  <2>2. CASE ~(HasEval /\ EvalAtStart)
    BY <1>a, <2>2 DEF Init, StartFrom
  <2> QED
    BY <2>1, <2>2
<1>c. /\ output_queue = <<>> /\ eval_queue \in {<<>>, <<0>>}
      /\ scheduled_eval_steps \in {{}, {0}}
      /\ discard_count = 0 /\ lease_counts = [s \in Steps |-> 0]
      /\ worker = [w \in Workers |-> WorkerAt("fetch")]
      /\ rstage = "working" /\ stop_tasks = {}
      /\ tpc = "loop" /\ current_step = 0 /\ batch = <<>>
      /\ stop_at_step \in Nat \cup {Unlimited}
      /\ saw_sentinel = FALSE /\ should_eval = FALSE
      /\ epc \in {"poll", "done"} /\ eval_next = 0
      /\ etask = [pc |-> "none", step |-> 0]
      /\ fate = [s \in Scenarios |-> "none"]
  BY DEF Init, StartFrom, NoEval
<1>1. StateTypeOK
  BY <1>0, <1>a, <1>b DEF StateTypeOK
<1>2. QueueTypeOK
  BY <1>c DEF QueueTypeOK
<1>3. RolloutTypeOK
  BY <1>0, <1>c DEF RolloutTypeOK, WorkerAt, Worker, WorkerPc, GroupKinds
<1>4. TrainTypeOK
  <2>1. <<>> \in Seq(Group)
    OBVIOUS
  <2> QED
    BY <1>0, <1>c, <2>1 DEF TrainTypeOK, TrainPc
<1>5. EvalTypeOK
  <2>1. <<>> \in Seq(Steps) /\ <<0>> \in Seq(Steps)
    BY <1>0
  <2> QED
    BY <1>0, <1>c, <2>1 DEF EvalTypeOK
<1>6. fate \in [Scenarios -> Fates]
  BY <1>c DEF Fates
<1> QED
  BY <1>1, <1>2, <1>3, <1>4, <1>5, <1>6 DEF TypeOK

(* A part of the state that a step leaves alone keeps its type. *)
LEMMA TypeUnchanged ==
  /\ StateTypeOK /\ UNCHANGED stateVars => StateTypeOK'
  /\ QueueTypeOK /\ UNCHANGED queueVars => QueueTypeOK'
  /\ RolloutTypeOK /\ UNCHANGED rolloutVars => RolloutTypeOK'
  /\ TrainTypeOK /\ UNCHANGED trainVars => TrainTypeOK'
  /\ EvalTypeOK /\ UNCHANGED evalVars => EvalTypeOK'
<1>1. StateTypeOK /\ UNCHANGED stateVars => StateTypeOK'
  BY DEF StateTypeOK, stateVars
<1>2. QueueTypeOK /\ UNCHANGED queueVars => QueueTypeOK'
  BY DEF QueueTypeOK, queueVars
<1>3. RolloutTypeOK /\ UNCHANGED rolloutVars => RolloutTypeOK'
  BY DEF RolloutTypeOK, rolloutVars
<1>4. TrainTypeOK /\ UNCHANGED trainVars => TrainTypeOK'
  BY DEF TrainTypeOK, trainVars
<1>5. EvalTypeOK /\ UNCHANGED evalVars => EvalTypeOK'
  BY DEF EvalTypeOK, evalVars
<1> QED
  BY <1>1, <1>2, <1>3, <1>4, <1>5

(* What goes into the queue is a group, and HasRoom keeps the bound. *)
LEMMA EnqueueType ==
  ASSUME QueueTypeOK, NEW g \in Group, HasRoom,
         output_queue' = Append(output_queue, g)
  PROVE  output_queue' \in Seq(Group) /\ Len(output_queue') <= QueueMax
<1>1. output_queue \in Seq(Group)
  BY DEF QueueTypeOK
<1>2. Len(output_queue') = Len(output_queue) + 1
  BY <1>1
<1>3. output_queue' \in Seq(Group)
  BY <1>1
<1> QED
  BY <1>1, <1>2, <1>3, PipelineAssumption DEF HasRoom

(* What comes out of it is a group. *)
LEMMA DequeueType ==
  ASSUME QueueTypeOK, Dequeue, UNCHANGED lease_counts
  PROVE  QueueTypeOK' /\ Item \in Group
<1>1. output_queue \in Seq(Group) /\ output_queue # <<>>
  BY DEF QueueTypeOK, Dequeue
<1>2. output_queue' = Tail(output_queue)
  BY DEF Dequeue
<1>3. output_queue' \in Seq(Group) /\ Len(output_queue') = Len(output_queue) - 1
  BY <1>1, <1>2
<1>4. Item \in Group
  BY <1>1 DEF Item
<1> QED
  BY <1>1, <1>3, <1>4, PipelineAssumption DEF QueueTypeOK

(* The values the actions build have the types of their variables. *)
LEMMA EmptyType == <<>> \in Seq(Group)
  OBVIOUS

LEMMA SentinelType == Sentinel \in Group
  BY PipelineAssumption DEF Sentinel, Group, Steps

LEMMA WorkerAtType ==
  ASSUME NEW pc \in WorkerPc
  PROVE  WorkerAt(pc) \in Worker
  BY PipelineAssumption DEF WorkerAt, Worker, Steps, GroupKinds

LEMMA WokenType == RolloutTypeOK => Woken \in [Workers -> Worker]
  BY DEF RolloutTypeOK, Woken, Worker, WorkerPc

LEMMA GroupOfType ==
  ASSUME RolloutTypeOK, NEW w \in Workers, NEW outcome \in GroupKinds
  PROVE  GroupOf(w, outcome) \in Group
  BY DEF RolloutTypeOK, Worker, GroupOf, Group

LEMMA LeaseType ==
  ASSUME QueueTypeOK, NEW step \in Steps
  PROVE  Lease(step) \in [Steps -> Int] /\ Release(step) \in [Steps -> Int]
  BY DEF QueueTypeOK, Lease, Release

LEMMA BatchFateType ==
  ASSUME fate \in [Scenarios -> Fates], NEW end \in Fates
  PROVE  BatchFate(end) \in [Scenarios -> Fates]
  BY DEF BatchFate

LEMMA StopType ==
  ASSUME TypeOK, RequestStop \/ StopNotifies \/ StopPuts
  PROVE  TypeOK'
<1>1. CASE RequestStop
  <2>1. StateTypeOK'
    BY <1>1 DEF TypeOK, StateTypeOK, RequestStop
  <2>2. QueueTypeOK'
    BY <1>1, SentinelType, EnqueueType
       DEF TypeOK, QueueTypeOK, RequestStop
  <2>3. RolloutTypeOK'
    BY <1>1 DEF TypeOK, RolloutTypeOK, RequestStop
  <2> QED
    BY <1>1, <2>1, <2>2, <2>3, TypeUnchanged DEF TypeOK, RequestStop
<1>2. CASE StopNotifies
  <2>1. RolloutTypeOK'
    BY <1>2, WokenType DEF TypeOK, RolloutTypeOK, StopNotifies
  <2> QED
    BY <1>2, <2>1, TypeUnchanged DEF TypeOK, StopNotifies
<1>3. CASE StopPuts
  <2>1. QueueTypeOK'
    BY <1>3, SentinelType, EnqueueType DEF TypeOK, QueueTypeOK, StopPuts
  <2>2. RolloutTypeOK'
    BY <1>3 DEF TypeOK, RolloutTypeOK, StopPuts
  <2> QED
    BY <1>3, <2>1, <2>2, TypeUnchanged DEF TypeOK, StopPuts
<1> QED
  BY <1>1, <1>2, <1>3

LEMMA WorkerType ==
  ASSUME TypeOK, NEW w \in Workers, WorkerStep(w)
  PROVE  TypeOK'
<1> USE DEF TypeOK
<1>0. worker[w] \in Worker /\ worker[w].version \in Steps
  BY DEF RolloutTypeOK, Worker
<1>1. CASE TakeScenario(w)
  <2>1. StateTypeOK'
    BY <1>1, PipelineAssumption DEF StateTypeOK, TakeScenario
  <2>2. RolloutTypeOK'
    <3>1. scenario_offset + 1 \in 0..NumScenarios
      BY <1>1, PipelineAssumption DEF StateTypeOK, TakeScenario
    <3>2. [worker[w] EXCEPT !.pc = "check", !.scenario = scenario_offset + 1]
            \in Worker
      BY <1>0, <3>1 DEF Worker, WorkerPc
    <3> QED
      BY <1>1, <3>2 DEF RolloutTypeOK, TakeScenario
  <2> QED
    BY <1>1, <2>1, <2>2, TypeUnchanged DEF TakeScenario
<1>2. CASE ScenariosExhausted(w)
  <2>1. RolloutTypeOK'
    BY <1>2, WorkerAtType DEF RolloutTypeOK, ScenariosExhausted, WorkerPc
  <2> QED
    BY <1>2, <2>1, TypeUnchanged DEF ScenariosExhausted
<1>3. CASE WaitForPolicy(w)
  <2>1. RolloutTypeOK'
    BY <1>3 DEF RolloutTypeOK, WaitForPolicy, Worker, WorkerPc
  <2> QED
    BY <1>3, <2>1, TypeUnchanged DEF WaitForPolicy
<1>4. CASE GiveUpScenario(w)
  <2>1. RolloutTypeOK'
    BY <1>4, WorkerAtType DEF RolloutTypeOK, GiveUpScenario, WorkerPc
  <2>2. fate' \in [Scenarios -> Fates]
    BY <1>4 DEF GiveUpScenario, Fates
  <2> QED
    BY <1>4, <2>1, <2>2, TypeUnchanged DEF GiveUpScenario
<1>5. CASE StartRollout(w)
  <2>1. QueueTypeOK'
    BY <1>5, LeaseType DEF QueueTypeOK, StateTypeOK, StartRollout
  <2>2. RolloutTypeOK'
    <3>1. worker[w] \in Worker /\ policy_version \in Steps
      BY DEF RolloutTypeOK, StateTypeOK
    <3>2. [worker[w] EXCEPT !.pc = "rollout", !.version = policy_version]
            \in Worker
      BY <3>1 DEF Worker, WorkerPc
    <3>3. worker' = [worker EXCEPT ![w] =
             [worker[w] EXCEPT !.pc = "rollout", !.version = policy_version]]
      BY <1>5, <3>1 DEF StartRollout, RolloutTypeOK, Worker
    <3> QED
      BY <1>5, <3>2, <3>3 DEF StartRollout, RolloutTypeOK
  <2> QED
    BY <1>5, <2>1, <2>2, TypeUnchanged DEF StartRollout
<1>6. CASE RolloutFails(w)
  <2>1. QueueTypeOK'
    BY <1>6, <1>0, LeaseType DEF QueueTypeOK, RolloutFails
  <2>2. NextIteration \in Worker
    BY WorkerAtType DEF NextIteration, WorkerPc
  <2>3. RolloutTypeOK'
    BY <1>6, <2>2 DEF RolloutTypeOK, RolloutFails
  <2>4. fate' \in [Scenarios -> Fates]
    BY <1>6 DEF RolloutFails, Fates
  <2> QED
    BY <1>6, <2>1, <2>3, <2>4, TypeUnchanged DEF RolloutFails
<1>7. ASSUME NEW outcome \in Outcomes, RolloutReturns(w, outcome) PROVE TypeOK'
  <2>1. outcome \in GroupKinds /\ GroupOf(w, outcome) \in Group
    BY PipelineAssumption, GroupOfType
  <2>2. QueueTypeOK'
    <3>1. lease_counts' \in [Steps -> Int]
      BY <1>7, <1>0, LeaseType DEF RolloutReturns
    <3>2. \/ output_queue' = output_queue
          \/ HasRoom /\ output_queue' = Append(output_queue, GroupOf(w, outcome))
      BY <1>7 DEF RolloutReturns
    <3>3. output_queue' \in Seq(Group) /\ Len(output_queue') <= QueueMax
      BY <2>1, <3>2, EnqueueType DEF QueueTypeOK
    <3> QED
      BY <3>1, <3>3 DEF QueueTypeOK
  <2>3. RolloutTypeOK'
    <3>1. WorkerAt("stopped") \in Worker /\ WorkerAt("fetch") \in Worker
      BY WorkerAtType DEF WorkerPc
    <3>2. [worker[w] EXCEPT !.pc = "put", !.kind = outcome] \in Worker
      BY <1>0, <2>1 DEF Worker, WorkerPc
    <3>3. worker' \in [Workers -> Worker]
      BY <1>7, <3>1, <3>2 DEF RolloutReturns, RolloutTypeOK
    <3> QED
      BY <1>7, <3>3 DEF RolloutReturns, RolloutTypeOK
  <2>4. fate' \in [Scenarios -> Fates]
    BY <1>7 DEF RolloutReturns, Fates
  <2> QED
    BY <1>7, <2>2, <2>3, <2>4, TypeUnchanged DEF RolloutReturns
<1>8. CASE PutGroup(w)
  <2>1. GroupOf(w, worker[w].kind) \in Group
    BY <1>0, GroupOfType DEF Worker
  <2>2. QueueTypeOK'
    BY <1>8, <2>1, EnqueueType DEF QueueTypeOK, PutGroup
  <2>3. NextIteration \in Worker
    BY WorkerAtType DEF NextIteration, WorkerPc
  <2>4. RolloutTypeOK'
    BY <1>8, <2>3 DEF RolloutTypeOK, PutGroup
  <2> QED
    BY <1>8, <2>2, <2>4, TypeUnchanged DEF PutGroup
<1>9. CASE PutTimesOut(w)
  <2>1. RolloutTypeOK'
    BY <1>9, WorkerAtType DEF RolloutTypeOK, PutTimesOut, WorkerPc
  <2>2. fate' \in [Scenarios -> Fates]
    BY <1>9 DEF PutTimesOut, Fates
  <2> QED
    BY <1>9, <2>1, <2>2, TypeUnchanged DEF PutTimesOut
<1> QED
  BY <1>1, <1>2, <1>3, <1>4, <1>5, <1>6, <1>7, <1>8, <1>9 DEF WorkerStep

LEMMA RolloutStageType ==
  ASSUME TypeOK, RolloutStageJoins \/ RolloutStagePuts
  PROVE  TypeOK'
<1> USE DEF TypeOK
<1>1. CASE RolloutStageJoins
  <2>1. QueueTypeOK'
    BY <1>1, SentinelType, EnqueueType DEF QueueTypeOK, RolloutStageJoins
  <2>2. RolloutTypeOK'
    BY <1>1 DEF RolloutTypeOK, RolloutStageJoins
  <2> QED
    BY <1>1, <2>1, <2>2, TypeUnchanged DEF RolloutStageJoins
<1>2. CASE RolloutStagePuts
  <2>1. QueueTypeOK'
    BY <1>2, SentinelType, EnqueueType DEF QueueTypeOK, RolloutStagePuts
  <2>2. RolloutTypeOK'
    BY <1>2 DEF RolloutTypeOK, RolloutStagePuts
  <2> QED
    BY <1>2, <2>1, <2>2, TypeUnchanged DEF RolloutStagePuts
<1> QED
  BY <1>1, <1>2

LEMMA CollectType ==
  ASSUME TypeOK, CollectStep
  PROVE  TypeOK'
<1> USE DEF TypeOK
<1>1. CASE CollectSentinel
  <2>1. QueueTypeOK'
    BY <1>1, DequeueType DEF CollectSentinel
  <2>2. TrainTypeOK'
    BY <1>1 DEF TrainTypeOK, CollectSentinel, TrainPc
  <2> QED
    BY <1>1, <2>1, <2>2, TypeUnchanged DEF CollectSentinel
<1>2. CASE CollectAllFailed
  <2>1. QueueTypeOK'
    BY <1>2, DequeueType DEF CollectAllFailed
  <2>2. TrainTypeOK'
    BY <1>2 DEF TrainTypeOK, CollectAllFailed, TrainPc
  <2>3. BatchFate("dropped") \in [Scenarios -> Fates]
    BY BatchFateType DEF Fates
  <2>4. fate' \in [Scenarios -> Fates]
    BY <1>2, <2>3 DEF CollectAllFailed, Fates
  <2> QED
    BY <1>2, <2>1, <2>2, <2>4, TypeUnchanged DEF CollectAllFailed
<1>3. CASE CollectStale
  <2>1. QueueTypeOK'
    BY <1>3, DequeueType DEF CollectStale
  <2>2. TrainTypeOK'
    BY <1>3 DEF TrainTypeOK, CollectStale, TrainPc
  <2>3. fate' \in [Scenarios -> Fates]
    BY <1>3 DEF CollectStale, Fates
  <2> QED
    BY <1>3, <2>1, <2>2, <2>3, TypeUnchanged DEF CollectStale
<1>4. CASE CollectZeroVariance
  <2>1. QueueTypeOK'
    BY <1>4, DequeueType DEF CollectZeroVariance
  <2>2. TrainTypeOK'
    <3>1. batch' \in {batch, <<>>} /\ tpc' \in {"drain", "finish"}
      BY <1>4 DEF CollectZeroVariance
    <3>2. batch' \in Seq(Group)
      BY <3>1, EmptyType DEF TrainTypeOK
    <3> QED
      BY <1>4, <3>1, <3>2 DEF TrainTypeOK, CollectZeroVariance, TrainPc
  <2>3. StateTypeOK'
    BY <1>4 DEF StateTypeOK, CollectZeroVariance
  <2>4. fate' \in [Scenarios -> Fates]
    <3>1. BatchFate("dropped") \in [Scenarios -> Fates]
      BY BatchFateType DEF Fates
    <3> QED
      BY <1>4, <3>1 DEF CollectZeroVariance, Fates
  <2> QED
    BY <1>4, <2>1, <2>2, <2>3, <2>4, TypeUnchanged DEF CollectZeroVariance
<1>5. CASE CollectGroup
  <2>1. QueueTypeOK' /\ Item \in Group
    BY <1>5, DequeueType DEF CollectGroup
  <2>2. TrainTypeOK'
    BY <1>5, <2>1 DEF TrainTypeOK, CollectGroup, TrainPc
  <2> QED
    BY <1>5, <2>1, <2>2, TypeUnchanged DEF CollectGroup
<1>6. CASE CollectSuspends
  <2>1. TrainTypeOK'
    BY <1>6 DEF TrainTypeOK, CollectSuspends, TrainPc
  <2> QED
    BY <1>6, <2>1, TypeUnchanged DEF CollectSuspends
<1> QED
  BY <1>1, <1>2, <1>3, <1>4, <1>5, <1>6 DEF CollectStep

LEMMA PersistedType ==
  ASSUME NEW step \in Steps, NEW offset \in 0..NumScenarios,
         NEW last \in Steps, NEW completed \in SUBSET Steps
  PROVE  Persisted(step, offset, last, completed) \in
           [scenario_offset : 0..NumScenarios, training_step : Steps,
            last_eval_step : Steps, completed_eval_steps : SUBSET Steps]
  BY DEF Persisted

LEMMA TrainingType ==
  ASSUME TypeOK, TrainingStep \/ BackendStep
  PROVE  TypeOK'
<1> USE DEF TypeOK
<1>1. CASE BeginCollect
  <2>1. TrainTypeOK'
    BY <1>1 DEF TrainTypeOK, BeginCollect, TrainPc
  <2> QED
    BY <1>1, <2>1, TypeUnchanged DEF BeginCollect
<1>2. CASE CollectStep
  BY <1>2, CollectType
<1>3. CASE BeginTrain
  <2>1. current_step + 1 \in Steps
    BY <1>3, PipelineAssumption DEF TrainTypeOK, BeginTrain, Steps
  <2>2. StateTypeOK'
    BY <1>3, <2>1 DEF StateTypeOK, BeginTrain
  <2>3. RolloutTypeOK'
    BY <1>3, WokenType DEF RolloutTypeOK, BeginTrain
  <2>4. ShouldEvalStep(current_step + 1) \in BOOLEAN
    BY DEF ShouldEvalStep
  <2>5. TrainTypeOK'
    BY <1>3, <2>4 DEF TrainTypeOK, BeginTrain, TrainPc
  <2> QED
    BY <1>3, <2>2, <2>3, <2>5, TypeUnchanged DEF BeginTrain
<1>4. CASE StepLogged
  <2>1. last_eval_step' \in Steps /\ EvalTypeOK'
    <3>1. Append(eval_queue, current_step) \in Seq(Steps)
      BY DEF TrainTypeOK, EvalTypeOK
    <3>2. CASE HasEval /\ should_eval
      BY <1>4, <3>1, <3>2 DEF TrainTypeOK, EvalTypeOK, StepLogged
    <3>3. CASE ~(HasEval /\ should_eval)
      BY <1>4, <3>3 DEF StateTypeOK, EvalTypeOK, StepLogged
    <3> QED
      BY <3>2, <3>3
  <2>2. persisted' \in [scenario_offset : 0..NumScenarios,
                        training_step : Steps, last_eval_step : Steps,
                        completed_eval_steps : SUBSET Steps]
    BY <1>4, <2>1, PersistedType DEF StateTypeOK, TrainTypeOK, StepLogged
  <2>3. StateTypeOK'
    BY <1>4, <2>1, <2>2 DEF StateTypeOK, StepLogged
  <2>4. RolloutTypeOK'
    BY <1>4, WokenType DEF RolloutTypeOK, StepLogged
  <2>5. TrainTypeOK'
    BY <1>4, EmptyType DEF TrainTypeOK, StepLogged, TrainPc
  <2> QED
    BY <1>4, <2>1, <2>3, <2>4, <2>5, TypeUnchanged DEF StepLogged
<1>5. CASE TrainingRaises
  <2>1. TrainTypeOK'
    BY <1>5 DEF TrainTypeOK, TrainingRaises, TrainPc
  <2>2. BatchFate("dropped") \in [Scenarios -> Fates]
    BY BatchFateType DEF Fates
  <2> QED
    BY <1>5, <2>1, <2>2, TypeUnchanged DEF TrainingRaises
<1>6. CASE FinishTraining
  <2>1. persisted' \in [scenario_offset : 0..NumScenarios,
                        training_step : Steps, last_eval_step : Steps,
                        completed_eval_steps : SUBSET Steps]
    BY <1>6, PersistedType DEF StateTypeOK, TrainTypeOK, FinishTraining
  <2>2. StateTypeOK'
    BY <1>6, <2>1 DEF StateTypeOK, FinishTraining
  <2>3. RolloutTypeOK'
    BY <1>6, WokenType DEF RolloutTypeOK, FinishTraining
  <2>4. TrainTypeOK'
    BY <1>6 DEF TrainTypeOK, FinishTraining, TrainPc
  <2> QED
    BY <1>6, <2>2, <2>3, <2>4, TypeUnchanged DEF FinishTraining
<1>7. ASSUME NEW step \in Steps, TrainReturns(step) PROVE TypeOK'
  <2>1. StateTypeOK'
    BY <1>7 DEF StateTypeOK, TrainReturns
  <2>2. TrainTypeOK'
    BY <1>7 DEF TrainTypeOK, TrainReturns, TrainPc
  <2>3. fate' \in [Scenarios -> Fates]
    BY <1>7, BatchFateType DEF TrainReturns, Fates
  <2> QED
    BY <1>7, <2>1, <2>2, <2>3, TypeUnchanged DEF TrainReturns
<1>8. CASE AdaptersPruned \/ RetentionRan
  <2>1. TrainTypeOK'
    BY <1>8 DEF TrainTypeOK, AdaptersPruned, RetentionRan, TrainPc
  <2> QED
    BY <1>8, <2>1, TypeUnchanged DEF AdaptersPruned, RetentionRan
<1> QED
  BY <1>1, <1>2, <1>3, <1>4, <1>5, <1>6, <1>7, <1>8
     DEF TrainingStep, BackendStep

LEMMA NoEvalType ==
  NoEval \in [pc : {"none", "created", "running", "logging"}, step : Steps]
  BY PipelineAssumption DEF NoEval, Steps

LEMMA EvalType ==
  ASSUME TypeOK, EvalStep
  PROVE  TypeOK'
<1> USE DEF TypeOK
<1>1. CASE EvalStageTakes
  <2>1. Head(eval_queue) \in Steps /\ Tail(eval_queue) \in Seq(Steps)
    BY <1>1 DEF EvalTypeOK, EvalStageTakes
  <2>2. EvalTypeOK'
    BY <1>1, <2>1 DEF EvalTypeOK, EvalStageTakes, Task
  <2> QED
    BY <1>1, <2>2, TypeUnchanged DEF EvalStageTakes
<1>2. CASE EvalStageCreates
  <2>1. EvalTypeOK'
    BY <1>2 DEF EvalTypeOK, EvalStageCreates, Task
  <2> QED
    BY <1>2, <2>1, TypeUnchanged DEF EvalStageCreates
<1>3. CASE EvalStageLeaves \/ EvalStageEnds
  <2>1. EvalTypeOK'
    BY <1>3 DEF EvalTypeOK, EvalStageLeaves, EvalStageEnds
  <2> QED
    BY <1>3, <2>1, TypeUnchanged DEF EvalStageLeaves, EvalStageEnds
<1>4. CASE EvalStarts \/ EvalReturns
  <2>1. EvalTypeOK'
    BY <1>4 DEF EvalTypeOK, EvalStarts, EvalReturns
  <2>2. lease_counts' \in [Steps -> Int]
    BY <1>4, LeaseType DEF EvalTypeOK, EvalStarts, EvalReturns
  <2>3. QueueTypeOK'
    BY <1>4, <2>2 DEF QueueTypeOK, EvalStarts, EvalReturns
  <2> QED
    BY <1>4, <2>1, <2>3, TypeUnchanged DEF EvalStarts, EvalReturns
<1>5. CASE EvalCompletes
  <2>1. completed_eval_steps' \in SUBSET Steps
    BY <1>5 DEF StateTypeOK, EvalTypeOK, EvalCompletes
  <2>2. persisted' \in [scenario_offset : 0..NumScenarios,
                        training_step : Steps, last_eval_step : Steps,
                        completed_eval_steps : SUBSET Steps]
    BY <1>5, <2>1, PersistedType DEF StateTypeOK, EvalCompletes
  <2>3. StateTypeOK'
    BY <1>5, <2>1, <2>2 DEF StateTypeOK, EvalCompletes
  <2>4. EvalTypeOK'
    BY <1>5, NoEvalType DEF EvalTypeOK, EvalCompletes
  <2> QED
    BY <1>5, <2>3, <2>4, TypeUnchanged DEF EvalCompletes
<1>6. CASE EvalFails
  <2>1. lease_counts' \in [Steps -> Int]
    BY <1>6, LeaseType DEF QueueTypeOK, EvalTypeOK, EvalFails
  <2>2. QueueTypeOK'
    BY <1>6, <2>1 DEF QueueTypeOK, EvalFails
  <2>3. EvalTypeOK'
    BY <1>6, NoEvalType DEF EvalTypeOK, EvalFails
  <2> QED
    BY <1>6, <2>2, <2>3, TypeUnchanged DEF EvalFails
<1> QED
  BY <1>1, <1>2, <1>3, <1>4, <1>5, <1>6 DEF EvalStep

LEMMA NextType == TypeOK /\ [Next]_vars => TypeOK'
<1> SUFFICES ASSUME TypeOK, [Next]_vars PROVE TypeOK'
  OBVIOUS
<1>1. CASE UNCHANGED vars
  BY <1>1, TypeUnchanged DEF vars, TypeOK
<1>2. CASE Next
  BY <1>1, <1>2, StopType, WorkerType, RolloutStageType, TrainingType, EvalType
     DEF Next, System, TaskStep, Returned
<1> QED
  BY <1>1, <1>2

(* The variables keep their types, and the queue its bound, in every run of  *)
(* the trainer (PipelineTrainer.train).                                      *)
THEOREM TypeCorrect == Spec => []TypeOK
  BY InitType, NextType, PTL DEF Spec

-----------------------------------------------------------------------------
(* Off-policy bound.  OffPolicyBound alone is not inductive: that a group is *)
(* never newer than the policy must hold where the group comes from, in the  *)
(* workers and the queue, and a batch must be empty when collecting starts.  *)

VersionsPublished ==
  /\ policy_version = current_step
  /\ \A w \in Workers : worker[w].version <= current_step
  /\ \A i \in DOMAIN output_queue : output_queue[i].version <= current_step

LoopStartsEmpty == tpc = "loop" => batch = <<>>

OffPolicyInv == TypeOK /\ VersionsPublished /\ LoopStartsEmpty /\ OffPolicyBound

LEMMA OffPolicyInit == Init => OffPolicyInv
<1> SUFFICES ASSUME Init PROVE OffPolicyInv
  OBVIOUS
<1>1. /\ TypeOK
      /\ policy_version = 0 /\ current_step = 0 /\ tpc = "loop"
      /\ batch = <<>> /\ output_queue = <<>>
      /\ \A w \in Workers : worker[w].version = 0
  BY InitType DEF Init, StartFrom, WorkerAt
<1> QED
  BY <1>1 DEF OffPolicyInv, VersionsPublished, LoopStartsEmpty, OffPolicyBound

(* A step that does not train only has to keep old what it moves. *)
LEMMA OffPolicyElsewhere ==
  ASSUME OffPolicyInv, TypeOK', UNCHANGED <<trainVars, policy_version>>,
         \A w \in Workers : worker'[w].version <= current_step,
         \A i \in DOMAIN output_queue' : output_queue'[i].version <= current_step
  PROVE  OffPolicyInv'
  BY DEF OffPolicyInv, VersionsPublished, LoopStartsEmpty, OffPolicyBound,
         TrainedPolicyLag, trainVars

LEMMA AppendVersions ==
  ASSUME QueueTypeOK, NEW g \in Group, NEW bound,
         \A i \in DOMAIN output_queue : output_queue[i].version <= bound,
         g.version <= bound, output_queue' = Append(output_queue, g)
  PROVE  \A i \in DOMAIN output_queue' : output_queue'[i].version <= bound
<1>1. output_queue \in Seq(Group)
  BY DEF QueueTypeOK
<1> QED
  BY <1>1

LEMMA WokenVersions ==
  ASSUME RolloutTypeOK
  PROVE  \A w \in Workers : Woken[w].version = worker[w].version
  BY DEF RolloutTypeOK, Woken, Worker

LEMMA SentinelVersion ==
  ASSUME TypeOK PROVE Sentinel.version <= current_step
  BY DEF Sentinel, TypeOK, TrainTypeOK, Steps

LEMMA OffPolicyStop ==
  ASSUME OffPolicyInv, RequestStop \/ StopNotifies \/ StopPuts
  PROVE  OffPolicyInv'
<1>1. TypeOK /\ TypeOK'
  BY StopType DEF OffPolicyInv
<1>2. \A w \in Workers : worker'[w].version <= current_step
  BY <1>1, WokenVersions
     DEF OffPolicyInv, VersionsPublished, TypeOK, RequestStop, StopNotifies,
         StopPuts
<1>3. \/ output_queue' = output_queue
      \/ output_queue' = Append(output_queue, Sentinel)
  BY DEF RequestStop, StopNotifies, StopPuts, queueVars
<1>4. \A i \in DOMAIN output_queue' : output_queue'[i].version <= current_step
  BY <1>1, <1>3, AppendVersions, SentinelType, SentinelVersion
     DEF OffPolicyInv, VersionsPublished, TypeOK
<1>5. UNCHANGED <<trainVars, policy_version>>
  BY DEF RequestStop, StopNotifies, StopPuts, stateVars
<1> QED
  BY <1>1, <1>2, <1>4, <1>5, OffPolicyElsewhere

LEMMA OffPolicyWorker ==
  ASSUME OffPolicyInv, NEW w \in Workers, WorkerStep(w)
  PROVE  OffPolicyInv'
<1>1. TypeOK /\ TypeOK'
  BY WorkerType DEF OffPolicyInv
<1>0. /\ worker \in [Workers -> Worker] /\ current_step \in Nat
      /\ worker[w].version <= current_step
      /\ policy_version = current_step
  BY <1>1 DEF OffPolicyInv, VersionsPublished, TypeOK, RolloutTypeOK,
              TrainTypeOK, Steps
<1>2. worker'[w].version <= current_step
      /\ \A v \in Workers \ {w} : worker'[v] = worker[v]
  BY <1>0 DEF WorkerStep, TakeScenario, ScenariosExhausted, WaitForPolicy,
              GiveUpScenario, StartRollout, RolloutFails, RolloutReturns,
              PutGroup, PutTimesOut, WorkerAt, NextIteration, Worker
<1>3. \/ output_queue' = output_queue
      \/ \E outcome \in GroupKinds :
           output_queue' = Append(output_queue, GroupOf(w, outcome))
  BY <1>0, PipelineAssumption
     DEF WorkerStep, TakeScenario, ScenariosExhausted, WaitForPolicy,
         GiveUpScenario, StartRollout, RolloutFails, RolloutReturns, PutGroup,
         PutTimesOut, Worker, queueVars
<1>4. \A i \in DOMAIN output_queue' : output_queue'[i].version <= current_step
  <2>1. CASE output_queue' = output_queue
    BY <2>1 DEF OffPolicyInv, VersionsPublished
  <2>2. ASSUME NEW outcome \in GroupKinds,
               output_queue' = Append(output_queue, GroupOf(w, outcome))
        PROVE  \A i \in DOMAIN output_queue' :
                 output_queue'[i].version <= current_step
    <3>1. GroupOf(w, outcome) \in Group /\ GroupOf(w, outcome).version <= current_step
      BY <1>0, <1>1, GroupOfType DEF TypeOK, GroupOf
    <3> QED
      BY <1>1, <2>2, <3>1, AppendVersions
         DEF OffPolicyInv, VersionsPublished, TypeOK
  <2> QED
    BY <1>3, <2>1, <2>2
<1>5. UNCHANGED <<trainVars, policy_version>>
  BY DEF WorkerStep, TakeScenario, ScenariosExhausted, WaitForPolicy,
         GiveUpScenario, StartRollout, RolloutFails, RolloutReturns, PutGroup,
         PutTimesOut, stateVars
<1>6. \A v \in Workers : worker'[v].version <= current_step
  BY <1>2 DEF OffPolicyInv, VersionsPublished
<1> QED
  BY <1>1, <1>4, <1>5, <1>6, OffPolicyElsewhere

LEMMA OffPolicyRolloutStage ==
  ASSUME OffPolicyInv, RolloutStageJoins \/ RolloutStagePuts
  PROVE  OffPolicyInv'
<1>1. TypeOK /\ TypeOK'
  BY RolloutStageType DEF OffPolicyInv
<1>2. \/ output_queue' = output_queue
      \/ output_queue' = Append(output_queue, Sentinel)
  BY DEF RolloutStageJoins, RolloutStagePuts
<1>3. \A i \in DOMAIN output_queue' : output_queue'[i].version <= current_step
  BY <1>1, <1>2, AppendVersions, SentinelType, SentinelVersion
     DEF OffPolicyInv, VersionsPublished, TypeOK
<1>4. UNCHANGED <<trainVars, policy_version, worker>>
  BY DEF RolloutStageJoins, RolloutStagePuts, stateVars
<1> QED
  BY <1>1, <1>3, <1>4, OffPolicyElsewhere DEF OffPolicyInv, VersionsPublished

LEMMA OffPolicyEval ==
  ASSUME OffPolicyInv, EvalStep
  PROVE  OffPolicyInv'
<1>1. TypeOK /\ TypeOK'
  BY EvalType DEF OffPolicyInv
<1>2. UNCHANGED <<trainVars, policy_version, worker, output_queue>>
  BY DEF EvalStep, EvalStageTakes, EvalStageCreates, EvalStageLeaves,
         EvalStageEnds, EvalStarts, EvalReturns, EvalCompletes, EvalFails,
         stateVars, queueVars, rolloutVars
<1> QED
  BY <1>1, <1>2, OffPolicyElsewhere DEF OffPolicyInv, VersionsPublished

(* Dequeuing leaves only groups that were there. *)
LEMMA DequeueVersions ==
  ASSUME OffPolicyInv, Dequeue
  PROVE  /\ \A i \in DOMAIN output_queue' :
              output_queue'[i].version <= current_step
         /\ Item \in Group /\ Item.version <= current_step
<1>1. output_queue \in Seq(Group) /\ output_queue # <<>>
      /\ output_queue' = Tail(output_queue)
  BY DEF OffPolicyInv, TypeOK, QueueTypeOK, Dequeue
<1>2. \A i \in DOMAIN output_queue : output_queue[i].version <= current_step
  BY DEF OffPolicyInv, VersionsPublished
<1>3. 1 \in DOMAIN output_queue /\ Item = output_queue[1] /\ Item \in Group
  BY <1>1 DEF Item
<1>4. \A i \in DOMAIN output_queue' :
        i + 1 \in DOMAIN output_queue /\ output_queue'[i] = output_queue[i + 1]
  BY <1>1
<1> QED
  BY <1>2, <1>3, <1>4

LEMMA OffPolicyCollect ==
  ASSUME OffPolicyInv, CollectStep
  PROVE  OffPolicyInv'
<1>1. TypeOK /\ TypeOK'
  BY CollectType DEF OffPolicyInv
<1>2. UNCHANGED <<worker, policy_version, current_step>>
  BY DEF CollectStep, CollectSentinel, CollectAllFailed, CollectStale,
         CollectZeroVariance, CollectGroup, CollectSuspends, stateVars,
         rolloutVars
<1>3. \A i \in DOMAIN output_queue' : output_queue'[i].version <= current_step
  <2>1. CASE CollectSuspends
    BY <2>1 DEF CollectSuspends, queueVars, OffPolicyInv, VersionsPublished
  <2>2. CASE ~CollectSuspends
    <3>1. Dequeue
      BY <2>2 DEF CollectStep, CollectSentinel, CollectAllFailed,
                  CollectStale, CollectZeroVariance, CollectGroup
    <3> QED
      BY <3>1, DequeueVersions
  <2> QED
    BY <2>1, <2>2
<1>4. VersionsPublished'
  BY <1>2, <1>3 DEF OffPolicyInv, VersionsPublished
<1>5. LoopStartsEmpty'
  BY DEF CollectStep, CollectSentinel, CollectAllFailed, CollectStale,
         CollectZeroVariance, CollectGroup, CollectSuspends, LoopStartsEmpty
<1>6. tpc \in {"collect", "drain"}
  BY DEF CollectStep, CollectSentinel, CollectAllFailed, CollectStale,
         CollectZeroVariance, CollectGroup, CollectSuspends, Dequeue
<1>7. \A i \in DOMAIN batch :
        batch[i].kind = "ok"
        /\ batch[i].version \in (current_step - MaxOffPolicy)..current_step
  BY <1>6 DEF OffPolicyInv, OffPolicyBound, TrainedPolicyLag
<1>8. OffPolicyBound'
  <2>1. CASE batch' \in {batch, <<>>}
    <3>1. \A i \in DOMAIN batch' :
            batch'[i].kind = "ok"
            /\ batch'[i].version \in (current_step - MaxOffPolicy)..current_step
      BY <1>7, <2>1
    <3>2. current_step \in Nat /\ MaxOffPolicy \in Nat /\ current_step' = current_step
      BY <1>1, <1>2, PipelineAssumption DEF TypeOK, TrainTypeOK, Steps
    <3>3. TrainedPolicyLag' \in {MaxOffPolicy, MaxOffPolicy + 1}
      BY DEF TrainedPolicyLag
    <3>4. PICK lag \in {MaxOffPolicy, MaxOffPolicy + 1} : lag = TrainedPolicyLag'
      BY <3>3
    <3>5. lag \in Int /\ lag >= MaxOffPolicy
      BY <3>2, <3>4
    <3>6. \A v \in (current_step - MaxOffPolicy)..current_step :
            v \in (current_step - lag)..current_step
      BY <3>2, <3>5
    <3> QED
      BY <3>1, <3>2, <3>4, <3>6 DEF OffPolicyBound
  <2>2. CASE CollectGroup
    <3>1. /\ Item \in Group /\ Item.kind = "ok"
          /\ Item.version \in (current_step - MaxOffPolicy)..current_step
      BY <1>1, <2>2, DequeueVersions, PipelineAssumption
         DEF CollectGroup, IsStale, Group, TypeOK, TrainTypeOK, Steps
    <3>2. batch \in Seq(Group) /\ batch' = Append(batch, Item)
      BY <1>1, <2>2 DEF CollectGroup, TypeOK, TrainTypeOK
    <3>3. \A i \in DOMAIN batch' :
            batch'[i].kind = "ok"
            /\ batch'[i].version \in (current_step - MaxOffPolicy)..current_step
      BY <1>7, <3>1, <3>2
    <3>4. tpc' = "drain"
      BY <2>2 DEF CollectGroup
    <3> QED
      BY <1>2, <3>3, <3>4 DEF OffPolicyBound, TrainedPolicyLag
  <2> QED
    BY <2>1, <2>2
       DEF CollectStep, CollectSentinel, CollectAllFailed, CollectStale,
           CollectZeroVariance, CollectSuspends
<1> QED
  BY <1>1, <1>4, <1>5, <1>8 DEF OffPolicyInv

LEMMA OffPolicyTraining ==
  ASSUME OffPolicyInv, TrainingStep \/ BackendStep
  PROVE  OffPolicyInv'
<1>1. TypeOK /\ TypeOK'
  BY TrainingType DEF OffPolicyInv
<1>0. /\ current_step \in Nat /\ MaxOffPolicy \in Nat
      /\ \A i \in DOMAIN batch : batch[i] \in Group
      /\ \A w \in Workers : worker[w].version \in Nat
      /\ \A i \in DOMAIN output_queue : output_queue[i].version \in Nat
  <2>1. current_step \in Nat /\ batch \in Seq(Group)
        /\ output_queue \in Seq(Group)
    BY <1>1 DEF TypeOK, TrainTypeOK, QueueTypeOK, Steps
  <2>2. \A g \in Group : g.version \in Nat
    BY DEF Group, Steps
  <2>3. \A i \in DOMAIN output_queue : output_queue[i] \in Group
    BY <2>1
  <2>4. \A w \in Workers : worker[w].version \in Nat
    BY <1>1 DEF TypeOK, RolloutTypeOK, Worker, Steps
  <2> QED
    BY <2>1, <2>2, <2>3, <2>4, PipelineAssumption
<1>2. CASE CollectStep
  BY <1>2, OffPolicyCollect
<1>3. CASE BeginCollect
  <2>1. batch' = <<>> /\ tpc' = "drain" /\ UNCHANGED current_step
    BY <1>3 DEF BeginCollect, OffPolicyInv, LoopStartsEmpty
  <2>2. VersionsPublished'
    BY <1>3 DEF BeginCollect, OffPolicyInv, VersionsPublished, stateVars,
                queueVars, rolloutVars
  <2> QED
    BY <1>1, <2>1, <2>2 DEF OffPolicyInv, LoopStartsEmpty, OffPolicyBound
<1>4. CASE BeginTrain
  <2>1. tpc = "drain" /\ tpc' = "train"
        /\ UNCHANGED <<batch, current_step, policy_version, output_queue>>
    BY <1>4 DEF BeginTrain, BatchCollected, queueVars
  <2>2. worker' = Woken
    BY <1>4 DEF BeginTrain
  <2>3. VersionsPublished'
    BY <1>1, <2>1, <2>2, WokenVersions
       DEF OffPolicyInv, VersionsPublished, TypeOK
  <2>4. OffPolicyBound'
    BY <2>1 DEF OffPolicyInv, OffPolicyBound, TrainedPolicyLag
  <2> QED
    BY <1>1, <2>1, <2>3, <2>4 DEF OffPolicyInv, LoopStartsEmpty
<1>5. CASE StepLogged
  <2>1. batch' = <<>>
        /\ UNCHANGED <<current_step, policy_version, output_queue>>
    BY <1>5 DEF StepLogged, queueVars
  <2>2. worker' = Woken
    BY <1>5 DEF StepLogged
  <2>3. VersionsPublished'
    BY <1>1, <2>1, <2>2, WokenVersions
       DEF OffPolicyInv, VersionsPublished, TypeOK
  <2> QED
    BY <1>1, <2>1, <2>3 DEF OffPolicyInv, LoopStartsEmpty, OffPolicyBound
<1>6. CASE TrainingRaises \/ AdaptersPruned \/ RetentionRan
  <2>1. tpc' \in {"failed", "retain", "log"}
        /\ UNCHANGED <<batch, current_step, policy_version, output_queue,
                       worker>>
    BY <1>6 DEF TrainingRaises, AdaptersPruned, RetentionRan, stateVars,
                queueVars, rolloutVars
  <2>2. OffPolicyBound'
    BY <1>0, <2>1 DEF OffPolicyInv, OffPolicyBound, TrainedPolicyLag, Group, Steps
  <2> QED
    BY <1>1, <2>1, <2>2 DEF OffPolicyInv, LoopStartsEmpty, VersionsPublished
<1>7. CASE FinishTraining
  <2>1. tpc' = "finished"
        /\ UNCHANGED <<batch, current_step, policy_version, output_queue>>
    BY <1>7 DEF FinishTraining, queueVars
  <2>2. worker' = Woken
    BY <1>7 DEF FinishTraining
  <2>3. VersionsPublished'
    BY <1>1, <2>1, <2>2, WokenVersions
       DEF OffPolicyInv, VersionsPublished, TypeOK
  <2>4. OffPolicyBound'
    BY <1>0, <2>1 DEF OffPolicyInv, OffPolicyBound, TrainedPolicyLag, Group, Steps
  <2> QED
    BY <1>1, <2>1, <2>3, <2>4 DEF OffPolicyInv, LoopStartsEmpty
<1>8. ASSUME NEW step \in Steps, TrainReturns(step) PROVE OffPolicyInv'
  <2>1. /\ tpc = "train" /\ tpc' = "prune"
        /\ current_step' = step /\ policy_version' = step
        /\ step \in {current_step, current_step + 1}
        /\ UNCHANGED <<batch, worker, output_queue>>
    BY <1>8 DEF TrainReturns, queueVars, rolloutVars
  <2>2. VersionsPublished'
    BY <1>0, <2>1 DEF OffPolicyInv, VersionsPublished
  <2>3. OffPolicyBound'
    BY <1>0, <2>1 DEF OffPolicyInv, OffPolicyBound, TrainedPolicyLag, Group, Steps
  <2> QED
    BY <1>1, <2>1, <2>2, <2>3 DEF OffPolicyInv, LoopStartsEmpty
<1> QED
  BY <1>2, <1>3, <1>4, <1>5, <1>6, <1>7, <1>8 DEF TrainingStep, BackendStep

LEMMA OffPolicyNext == OffPolicyInv /\ [Next]_vars => OffPolicyInv'
<1> SUFFICES ASSUME OffPolicyInv, [Next]_vars PROVE OffPolicyInv'
  OBVIOUS
<1>1. CASE UNCHANGED vars
  BY <1>1, NextType, OffPolicyElsewhere
     DEF vars, stateVars, queueVars, rolloutVars, OffPolicyInv,
         VersionsPublished
<1>2. CASE Next
  BY <1>1, <1>2, OffPolicyStop, OffPolicyWorker, OffPolicyRolloutStage,
     OffPolicyTraining, OffPolicyEval
     DEF Next, System, TaskStep, Returned
<1> QED
  BY <1>1, <1>2

(* No training step uses a group rolled out with a policy more than          *)
(* max_steps_off_policy versions older than the one being trained, however   *)
(* many workers there are and whatever the queue holds (_is_group_stale,     *)
(* _wait_for_policy, _apply_policy_versions).                                *)
THEOREM OffPolicyBounded == Spec => []OffPolicyBound
<1>1. OffPolicyInv => OffPolicyBound
  BY DEF OffPolicyInv
<1> QED
  BY OffPolicyInit, OffPolicyNext, <1>1, PTL DEF Spec

-----------------------------------------------------------------------------
(* Wakeups.  NoLostWakeup is inductive with the types alone. *)

LEMMA WakeupInit == Init => NoLostWakeup
  BY DEF Init, StartFrom, WorkerAt, NoLostWakeup

(* After notify_all() nobody is asleep. *)
LEMMA WokenAwake ==
  ASSUME RolloutTypeOK PROVE \A w \in Workers : Woken[w].pc # "blocked"
  BY DEF RolloutTypeOK, Woken, Worker

LEMMA WakeupNext == TypeOK /\ NoLostWakeup /\ [Next]_vars => NoLostWakeup'
<1> SUFFICES ASSUME TypeOK, NoLostWakeup, [Next]_vars PROVE NoLostWakeup'
  OBVIOUS
<1> USE DEF NoLostWakeup, PolicyTooOld
<1>0. worker \in [Workers -> Worker]
  BY DEF TypeOK, RolloutTypeOK
<1>1. CASE UNCHANGED vars
  BY <1>1 DEF vars, stateVars, rolloutVars, trainVars
<1>2. CASE RequestStop
  BY <1>2 DEF RequestStop, trainVars
<1>3. ASSUME worker' = Woken PROVE NoLostWakeup'
  BY <1>3, WokenAwake DEF TypeOK
<1>4. CASE StopPuts \/ RolloutStageJoins \/ RolloutStagePuts
  BY <1>4 DEF StopPuts, RolloutStageJoins, RolloutStagePuts, stateVars,
              trainVars
<1>5. ASSUME NEW w \in Workers, WorkerStep(w) PROVE NoLostWakeup'
  <2>1. UNCHANGED <<done, policy_version, next_training_step, tpc, stop_tasks>>
    BY <1>5 DEF WorkerStep, TakeScenario, ScenariosExhausted, WaitForPolicy,
                GiveUpScenario, StartRollout, RolloutFails, RolloutReturns,
                PutGroup, PutTimesOut, stateVars, trainVars
  <2>2. \A v \in Workers \ {w} : worker'[v] = worker[v]
    BY <1>0, <1>5
       DEF WorkerStep, TakeScenario, ScenariosExhausted, WaitForPolicy,
           GiveUpScenario, StartRollout, RolloutFails, RolloutReturns,
           PutGroup, PutTimesOut
  <2>3. CASE WaitForPolicy(w)
    BY <2>1, <2>2, <2>3 DEF WaitForPolicy
  <2>4. CASE ~WaitForPolicy(w)
    <3>1. worker'[w].pc # "blocked"
      BY <1>0, <1>5, <2>4
         DEF WorkerStep, TakeScenario, ScenariosExhausted, GiveUpScenario,
             StartRollout, RolloutFails, RolloutReturns, PutGroup,
             PutTimesOut, WorkerAt, NextIteration, Worker
    <3> QED
      BY <2>1, <2>2, <3>1
  <2> QED
    BY <2>3, <2>4
<1>6. CASE CollectStep \/ BeginCollect
  <2>1. UNCHANGED <<policy_version, next_training_step, worker, stop_tasks>>
        /\ tpc \in {"loop", "collect", "drain"}
        /\ (UNCHANGED done \/ tpc' = "finish")
    BY <1>6 DEF BeginCollect, CollectStep, CollectSentinel, CollectAllFailed,
                CollectStale, CollectZeroVariance, CollectGroup,
                CollectSuspends, Dequeue, stateVars, rolloutVars
  <2> QED
    BY <2>1
<1>7. ASSUME NEW step \in Steps, TrainReturns(step) PROVE NoLostWakeup'
  BY <1>7 DEF TrainReturns
<1>8. CASE AdaptersPruned \/ RetentionRan \/ TrainingRaises
  BY <1>8 DEF AdaptersPruned, RetentionRan, TrainingRaises
<1>9. CASE EvalStep
  BY <1>9 DEF EvalStep, EvalStageTakes, EvalStageCreates, EvalStageLeaves,
              EvalStageEnds, EvalStarts, EvalReturns, EvalCompletes,
              EvalFails, stateVars, rolloutVars, trainVars
<1> QED
  BY <1>1, <1>2, <1>3, <1>4, <1>5, <1>6, <1>7, <1>8, <1>9
     DEF Next, System, TaskStep, TrainingStep, BackendStep, Returned,
         StopNotifies, BeginTrain, StepLogged, FinishTraining

(* A worker asleep in _wait_for_policy that could go on is always about to   *)
(* be notified: the trainer publishes policy_version long before it          *)
(* notifies, and request_stop notifies in a task of its own.                 *)
THEOREM WakeupNotLost == Spec => []NoLostWakeup
  BY TypeCorrect, WakeupInit, WakeupNext, PTL DEF Spec

-----------------------------------------------------------------------------
(* Dropped scenarios. *)

LEMMA DroppedInit == Init => DroppedOnlyWhenEnding
  BY DEF Init, DroppedOnlyWhenEnding

LEMMA EndingStays ==
  ASSUME [Next]_vars
  PROVE  (done => done') /\ (tpc = "failed" => tpc' = "failed")
<1>1. CASE UNCHANGED vars
  BY <1>1 DEF vars, stateVars, trainVars
<1>2. CASE RequestStop \/ StopNotifies \/ StopPuts \/ RolloutStageJoins
           \/ RolloutStagePuts
  BY <1>2 DEF RequestStop, StopNotifies, StopPuts, RolloutStageJoins,
              RolloutStagePuts, stateVars, trainVars
<1>3. ASSUME NEW w \in Workers, WorkerStep(w)
      PROVE  UNCHANGED <<done, tpc>>
  BY <1>3 DEF WorkerStep, TakeScenario, ScenariosExhausted, WaitForPolicy,
              GiveUpScenario, StartRollout, RolloutFails, RolloutReturns,
              PutGroup, PutTimesOut, stateVars, trainVars
<1>4. CASE TrainingStep
  BY <1>4 DEF TrainingStep, BeginCollect, CollectStep, CollectSentinel,
              CollectAllFailed, CollectStale, CollectZeroVariance,
              CollectGroup, CollectSuspends, Dequeue, BeginTrain,
              BatchCollected, StepLogged, TrainingRaises, FinishTraining,
              stateVars
<1>5. CASE BackendStep
  BY <1>5 DEF BackendStep, TrainReturns, AdaptersPruned, RetentionRan,
              stateVars
<1>6. CASE EvalStep
  BY <1>6 DEF EvalStep, EvalStageTakes, EvalStageCreates, EvalStageLeaves,
              EvalStageEnds, EvalStarts, EvalReturns, EvalCompletes,
              EvalFails, stateVars, trainVars
<1> QED
  BY <1>1, <1>2, <1>3, <1>4, <1>5, <1>6
     DEF Next, System, TaskStep, Returned

(* Only a step of a run that ends, or by which it ends, drops a scenario. *)
LEMMA DropsWhenEnding ==
  ASSUME TypeOK, [Next]_vars, NEW s \in Scenarios,
         fate[s] # "dropped", fate'[s] = "dropped"
  PROVE  done' \/ tpc' = "failed"
<1>0. fate \in [Scenarios -> Fates]
  BY DEF TypeOK
<1>1. CASE UNCHANGED fate
  BY <1>1
<1>2. ASSUME NEW w \in Workers, WorkerStep(w), fate' # fate
      PROVE  done' \/ tpc' = "failed"
  <2>1. CASE RolloutFails(w)
    BY <1>0, <2>1 DEF RolloutFails
  <2>2. CASE ~RolloutFails(w)
    BY <1>2, <2>2
       DEF WorkerStep, TakeScenario, ScenariosExhausted, WaitForPolicy,
           GiveUpScenario, StartRollout, RolloutReturns, PutGroup,
           PutTimesOut, stateVars
  <2> QED
    BY <2>1, <2>2
<1>3. CASE CollectStep
  <2>1. CASE CollectStale
    BY <1>0, <2>1 DEF CollectStale
  <2>2. CASE CollectZeroVariance
    BY <1>0, <2>2 DEF CollectZeroVariance
  <2>3. CASE CollectAllFailed
    BY <2>3 DEF CollectAllFailed
  <2> QED
    BY <1>1, <1>3, <2>1, <2>2, <2>3
       DEF CollectStep, CollectSentinel, CollectGroup, CollectSuspends
<1>4. ASSUME NEW step \in Steps, TrainReturns(step)
      PROVE  done' \/ tpc' = "failed"
  BY <1>0, <1>4 DEF TrainReturns, BatchFate
<1>5. CASE TrainingRaises
  BY <1>5 DEF TrainingRaises
<1>6. CASE BeginCollect \/ BeginTrain \/ StepLogged \/ FinishTraining
           \/ AdaptersPruned \/ RetentionRan
  BY <1>1, <1>6 DEF BeginCollect, BeginTrain, StepLogged, FinishTraining,
                    AdaptersPruned, RetentionRan
<1>7. CASE EvalStep
  BY <1>1, <1>7
     DEF EvalStep, EvalStageTakes, EvalStageCreates, EvalStageLeaves,
         EvalStageEnds, EvalStarts, EvalReturns, EvalCompletes, EvalFails
<1>8. CASE RequestStop \/ StopNotifies \/ StopPuts \/ RolloutStageJoins
           \/ RolloutStagePuts \/ UNCHANGED vars
  BY <1>1, <1>8 DEF RequestStop, StopNotifies, StopPuts, RolloutStageJoins,
                    RolloutStagePuts, vars
<1> QED
  BY <1>1, <1>2, <1>3, <1>4, <1>5, <1>6, <1>7, <1>8
     DEF Next, System, TaskStep, TrainingStep, BackendStep, Returned

LEMMA DroppedNext ==
  TypeOK /\ DroppedOnlyWhenEnding /\ [Next]_vars => DroppedOnlyWhenEnding'
<1> SUFFICES ASSUME TypeOK, DroppedOnlyWhenEnding, [Next]_vars,
                    NEW s \in Scenarios, fate'[s] = "dropped"
             PROVE  done' \/ tpc' = "failed"
  BY DEF DroppedOnlyWhenEnding
<1> QED
  BY EndingStays, DropsWhenEnding DEF DroppedOnlyWhenEnding

(* No scenario is given up in normal operation: only after done was set or   *)
(* after a stage failed (_rollout_worker, _put_output_group, _collect_batch).*)
THEOREM DropsOnlyAtEnd == Spec => []DroppedOnlyWhenEnding
  BY TypeCorrect, DroppedInit, DroppedNext, PTL DEF Spec

-----------------------------------------------------------------------------
(* Leases.  LeasesMatchUse is inductive with the types. *)

LEMMA RolloutsUsingFinite ==
  \A s : IsFiniteSet(RolloutsUsing(s)) /\ Cardinality(RolloutsUsing(s)) \in Nat
  BY FS_Subset, FS_CardinalityType, PipelineAssumption DEF RolloutsUsing

LEMMA LeaseInit == Init => LeasesMatchUse
<1> SUFFICES ASSUME Init, NEW s \in Steps
             PROVE  lease_counts[s] = Cardinality(RolloutsUsing(s)) + EvalsUsing(s)
  BY DEF LeasesMatchUse
<1>1. lease_counts[s] = 0
  BY DEF Init, StartFrom
<1>2. RolloutsUsing(s) = {}
  BY DEF Init, StartFrom, WorkerAt, RolloutsUsing
<1>3. EvalsUsing(s) = 0
  BY DEF Init, StartFrom, NoEval, EvalsUsing
<1> QED
  BY <1>1, <1>2, <1>3, FS_EmptySet

(* The steps that neither start nor end a rollout or an eval. *)
LEMMA LeaseElsewhere ==
  ASSUME LeasesMatchUse, UNCHANGED <<lease_counts, etask>>,
         \A w \in Workers :
           /\ worker'[w].pc = "rollout" <=> worker[w].pc = "rollout"
           /\ worker[w].pc = "rollout" => worker'[w].version = worker[w].version
  PROVE  LeasesMatchUse'
<1>1. \A s : RolloutsUsing(s)' = RolloutsUsing(s)
  BY DEF RolloutsUsing
<1>2. \A s : EvalsUsing(s)' = EvalsUsing(s)
  BY DEF EvalsUsing
<1> QED
  BY <1>1, <1>2 DEF LeasesMatchUse

(* The start and the end of a rollout. *)
LEMMA LeaseStart ==
  ASSUME TypeOK, LeasesMatchUse, NEW w \in Workers, StartRollout(w)
  PROVE  LeasesMatchUse'
<1>0. PICK v \in Steps : v = policy_version
  BY DEF TypeOK, StateTypeOK
<1>1. worker \in [Workers -> Worker] /\ lease_counts \in [Steps -> Int]
  BY DEF TypeOK, RolloutTypeOK, QueueTypeOK
<1>2. RolloutsUsing(v)' = RolloutsUsing(v) \cup {w} /\ w \notin RolloutsUsing(v)
  BY <1>0, <1>1 DEF StartRollout, RolloutsUsing, Worker
<1>3. \A s \in Steps \ {v} : RolloutsUsing(s)' = RolloutsUsing(s)
  BY <1>0, <1>1 DEF StartRollout, RolloutsUsing, Worker
<1>4. Cardinality(RolloutsUsing(v)') = Cardinality(RolloutsUsing(v)) + 1
  BY <1>2, RolloutsUsingFinite, FS_AddElement
<1>5. \A s : EvalsUsing(s)' = EvalsUsing(s) /\ EvalsUsing(s) \in {0, 1}
  BY DEF StartRollout, EvalsUsing, evalVars
<1>6. /\ lease_counts'[v] = lease_counts[v] + 1
      /\ \A s \in Steps \ {v} : lease_counts'[s] = lease_counts[s]
  BY <1>0, <1>1 DEF StartRollout, Lease
<1>7. \A s : Cardinality(RolloutsUsing(s)) \in Nat
  BY RolloutsUsingFinite
<1> SUFFICES ASSUME NEW s \in Steps
             PROVE  lease_counts'[s] =
                      Cardinality(RolloutsUsing(s)') + EvalsUsing(s)'
  BY DEF LeasesMatchUse
<1>8. lease_counts[s] = Cardinality(RolloutsUsing(s)) + EvalsUsing(s)
  BY DEF LeasesMatchUse
<1>9. CASE s = v
  BY <1>4, <1>5, <1>6, <1>7, <1>8, <1>9
<1>10. CASE s # v
  BY <1>3, <1>5, <1>6, <1>8, <1>10
<1> QED
  BY <1>9, <1>10

LEMMA LeaseEnd ==
  ASSUME TypeOK, LeasesMatchUse, NEW w \in Workers,
         worker[w].pc = "rollout", worker'[w].pc # "rollout",
         \A u \in Workers \ {w} : worker'[u] = worker[u],
         lease_counts' = Release(worker[w].version), UNCHANGED etask
  PROVE  LeasesMatchUse'
<1>0. PICK v \in Steps : v = worker[w].version
  BY DEF TypeOK, RolloutTypeOK, Worker
<1>1. lease_counts \in [Steps -> Int]
  BY DEF TypeOK, QueueTypeOK
<1>2. RolloutsUsing(v)' = RolloutsUsing(v) \ {w} /\ w \in RolloutsUsing(v)
  BY <1>0 DEF RolloutsUsing
<1>3. \A s \in Steps \ {v} : RolloutsUsing(s)' = RolloutsUsing(s)
  BY <1>0 DEF RolloutsUsing
<1>4. Cardinality(RolloutsUsing(v)') = Cardinality(RolloutsUsing(v)) - 1
  BY <1>2, RolloutsUsingFinite, FS_RemoveElement
<1>5. \A s : EvalsUsing(s)' = EvalsUsing(s) /\ EvalsUsing(s) \in {0, 1}
  BY DEF EvalsUsing
<1>6. /\ lease_counts'[v] = lease_counts[v] - 1
      /\ \A s \in Steps \ {v} : lease_counts'[s] = lease_counts[s]
  BY <1>0, <1>1 DEF Release
<1>7. \A s : Cardinality(RolloutsUsing(s)) \in Nat
  BY RolloutsUsingFinite
<1> SUFFICES ASSUME NEW s \in Steps
             PROVE  lease_counts'[s] =
                      Cardinality(RolloutsUsing(s)') + EvalsUsing(s)'
  BY DEF LeasesMatchUse
<1>8. lease_counts[s] = Cardinality(RolloutsUsing(s)) + EvalsUsing(s)
  BY DEF LeasesMatchUse
<1>9. CASE s = v
  BY <1>4, <1>5, <1>6, <1>7, <1>8, <1>9
<1>10. CASE s # v
  BY <1>3, <1>5, <1>6, <1>8, <1>10
<1> QED
  BY <1>9, <1>10

LEMMA LeaseWorker ==
  ASSUME TypeOK, LeasesMatchUse, NEW w \in Workers, WorkerStep(w)
  PROVE  LeasesMatchUse'
<1>1. worker \in [Workers -> Worker]
  BY DEF TypeOK, RolloutTypeOK
<1>2. CASE StartRollout(w)
  BY <1>2, LeaseStart
<1>3. ASSUME NEW outcome \in Outcomes, RolloutReturns(w, outcome)
      PROVE  LeasesMatchUse'
  <2>1. /\ worker[w].pc = "rollout" /\ worker'[w].pc # "rollout"
        /\ \A u \in Workers \ {w} : worker'[u] = worker[u]
        /\ lease_counts' = Release(worker[w].version) /\ UNCHANGED etask
    BY <1>1, <1>3 DEF RolloutReturns, WorkerAt, Worker, evalVars
  <2> QED
    BY <2>1, LeaseEnd
<1>4. CASE RolloutFails(w)
  <2>1. /\ worker[w].pc = "rollout" /\ worker'[w].pc # "rollout"
        /\ \A u \in Workers \ {w} : worker'[u] = worker[u]
        /\ lease_counts' = Release(worker[w].version) /\ UNCHANGED etask
    BY <1>1, <1>4 DEF RolloutFails, WorkerAt, NextIteration, Worker, evalVars
  <2> QED
    BY <2>1, LeaseEnd
<1>5. CASE TakeScenario(w) \/ ScenariosExhausted(w) \/ WaitForPolicy(w)
           \/ GiveUpScenario(w) \/ PutGroup(w) \/ PutTimesOut(w)
  <2>1. /\ worker[w].pc # "rollout" /\ worker'[w].pc # "rollout"
        /\ \A u \in Workers \ {w} : worker'[u] = worker[u]
        /\ UNCHANGED <<lease_counts, etask>>
    BY <1>1, <1>5 DEF TakeScenario, ScenariosExhausted, WaitForPolicy,
                      GiveUpScenario, PutGroup, PutTimesOut, WorkerAt,
                      NextIteration, Worker, queueVars, evalVars
  <2> QED
    BY <2>1, LeaseElsewhere
<1> QED
  BY <1>2, <1>3, <1>4, <1>5 DEF WorkerStep

(* The start and the end of an eval. *)
LEMMA LeaseEval ==
  ASSUME TypeOK, LeasesMatchUse, EvalStep
  PROVE  LeasesMatchUse'
<1>1. etask.step \in Steps /\ lease_counts \in [Steps -> Int]
  BY DEF TypeOK, EvalTypeOK, QueueTypeOK
<1>2. UNCHANGED worker /\ \A s : RolloutsUsing(s)' = RolloutsUsing(s)
  BY DEF EvalStep, EvalStageTakes, EvalStageCreates, EvalStageLeaves,
         EvalStageEnds, EvalStarts, EvalReturns, EvalCompletes, EvalFails,
         rolloutVars, RolloutsUsing
<1>3. \A s : Cardinality(RolloutsUsing(s)) \in Nat
  BY RolloutsUsingFinite
<1>4. CASE EvalStarts
  <2>1. \A s \in Steps : EvalsUsing(s) = 0
                         /\ EvalsUsing(s)' = IF s = etask.step THEN 1 ELSE 0
    BY <1>4 DEF EvalStarts, EvalsUsing, TypeOK, EvalTypeOK
  <2>2. \A s \in Steps : lease_counts'[s] =
          IF s = etask.step THEN lease_counts[s] + 1 ELSE lease_counts[s]
    BY <1>1, <1>4 DEF EvalStarts, Lease
  <2> QED
    BY <1>2, <1>3, <2>1, <2>2 DEF LeasesMatchUse
<1>5. CASE EvalReturns \/ (EvalFails /\ etask.pc = "running")
  <2>1. \A s \in Steps : /\ EvalsUsing(s)' = 0
                         /\ EvalsUsing(s) = IF s = etask.step THEN 1 ELSE 0
    BY <1>5 DEF EvalReturns, EvalFails, EvalsUsing, NoEval, TypeOK, EvalTypeOK
  <2>2. \A s \in Steps : lease_counts'[s] =
          IF s = etask.step THEN lease_counts[s] - 1 ELSE lease_counts[s]
    BY <1>1, <1>5 DEF EvalReturns, EvalFails, Release
  <2> QED
    BY <1>2, <1>3, <2>1, <2>2 DEF LeasesMatchUse
<1>6. CASE ~EvalStarts /\ ~EvalReturns /\ ~(EvalFails /\ etask.pc = "running")
  <2>1. \/ /\ UNCHANGED lease_counts
           /\ etask.pc # "running" /\ etask'.pc # "running"
        \/ UNCHANGED <<lease_counts, etask>>
    BY <1>6 DEF EvalStep, EvalStageTakes, EvalStageCreates, EvalStageLeaves,
                EvalStageEnds, EvalCompletes, EvalFails, Task, NoEval,
                queueVars
  <2>2. \A s \in Steps : EvalsUsing(s)' = EvalsUsing(s)
    BY <2>1 DEF EvalsUsing
  <2> QED
    BY <1>2, <2>1, <2>2 DEF LeasesMatchUse
<1> QED
  BY <1>4, <1>5, <1>6

LEMMA LeaseNext == TypeOK /\ LeasesMatchUse /\ [Next]_vars => LeasesMatchUse'
<1> SUFFICES ASSUME TypeOK, LeasesMatchUse, [Next]_vars PROVE LeasesMatchUse'
  OBVIOUS
<1>1. CASE UNCHANGED vars
  BY <1>1, LeaseElsewhere DEF vars, queueVars, rolloutVars, evalVars
<1>2. CASE RequestStop \/ StopNotifies \/ StopPuts \/ RolloutStageJoins
           \/ RolloutStagePuts \/ TrainingStep \/ BackendStep
  <2>1. UNCHANGED <<lease_counts, etask>> /\ (UNCHANGED worker \/ worker' = Woken)
    BY <1>2 DEF RequestStop, StopNotifies, StopPuts, RolloutStageJoins,
                RolloutStagePuts, TrainingStep, BackendStep, BeginCollect,
                CollectStep, CollectSentinel, CollectAllFailed, CollectStale,
                CollectZeroVariance, CollectGroup, CollectSuspends,
                BeginTrain, StepLogged, TrainingRaises, FinishTraining,
                TrainReturns, AdaptersPruned, RetentionRan, queueVars,
                rolloutVars, evalVars
  <2>2. \A w \in Workers :
          /\ Woken[w].pc = "rollout" <=> worker[w].pc = "rollout"
          /\ Woken[w].version = worker[w].version
    BY DEF TypeOK, RolloutTypeOK, Woken, Worker
  <2> QED
    BY <2>1, <2>2, LeaseElsewhere
<1> QED
  BY <1>1, <1>2, LeaseWorker, LeaseEval DEF Next, System, TaskStep, Returned

(* The lease counts are exactly the rollouts and the eval under way, for any *)
(* number of workers: no path through a rollout or an eval, failing or not,  *)
(* leaks or doubles a lease (_adapter_lease, _release_checkpoint_lease).     *)
THEOREM LeasesExact == Spec => []LeasesMatchUse
  BY TypeCorrect, LeaseInit, LeaseNext, PTL DEF Spec

-----------------------------------------------------------------------------
(* The evals. *)

QueuedEvals == {eval_queue[i] : i \in DOMAIN eval_queue}

AfterStep == {"prune", "retain", "log"}

(* A step that schedules no eval, runs none and leaves current_step alone.  *)
Quiet ==
  /\ UNCHANGED <<evalVars, current_step>>
  /\ tpc' \in AfterStep => tpc \in AfterStep

LEMMA EvalsSteps ==
  ASSUME [Next]_vars
  PROVE  \/ Quiet
         \/ EvalStep
         \/ StepLogged
         \/ \E step \in Steps : TrainReturns(step)
<1>1. CASE UNCHANGED vars \/ Returned
  BY <1>1 DEF Quiet, Returned, vars, trainVars
<1>2. ASSUME NEW w \in Workers, WorkerStep(w) PROVE Quiet
  <2>1. UNCHANGED <<trainVars, evalVars>>
    BY <1>2 DEF WorkerStep, TakeScenario, ScenariosExhausted, WaitForPolicy,
         GiveUpScenario, StartRollout, RolloutFails, RolloutReturns, PutGroup,
         PutTimesOut
  <2> QED
    BY <2>1 DEF Quiet, trainVars
<1>3. CASE RequestStop \/ StopNotifies \/ StopPuts \/ RolloutStageJoins
           \/ RolloutStagePuts
  <2>1. UNCHANGED <<trainVars, evalVars>>
    BY <1>3 DEF RequestStop, StopNotifies, StopPuts, RolloutStageJoins,
         RolloutStagePuts
  <2> QED
    BY <2>1 DEF Quiet, trainVars
<1>4. CASE TrainingStep /\ ~StepLogged
  BY <1>4 DEF Quiet, AfterStep, TrainingStep, BeginCollect, CollectStep,
       CollectSentinel, CollectAllFailed, CollectStale, CollectZeroVariance,
       CollectGroup, CollectSuspends, BeginTrain, TrainingRaises, FinishTraining
<1>5. CASE AdaptersPruned \/ RetentionRan
  BY <1>5 DEF Quiet, AfterStep, AdaptersPruned, RetentionRan
<1> QED
  BY <1>1, <1>2, <1>3, <1>4, <1>5
     DEF Next, System, TaskStep, TrainingStep, BackendStep

-----------------------------------------------------------------------------
(* What is scheduled is pending: it is queued, taken or running.             *)

ScheduledPending == scheduled_eval_steps \subseteq PendingEvals

(* The queue's steps when one is added and when the first is taken.          *)
LEMMA QueueGrows ==
  ASSUME EvalTypeOK, NEW x \in Steps, eval_queue' = Append(eval_queue, x)
  PROVE  QueuedEvals' = QueuedEvals \cup {x}
<1>1. eval_queue \in Seq(Steps)
  BY DEF EvalTypeOK
<1>2. DOMAIN eval_queue = 1..Len(eval_queue) /\ Len(eval_queue) \in Nat
  BY <1>1
<1>3. DOMAIN eval_queue' = 1..(Len(eval_queue) + 1)
  BY <1>1
<1>4. /\ \A i \in 1..Len(eval_queue) : eval_queue'[i] = eval_queue[i]
      /\ eval_queue'[Len(eval_queue) + 1] = x
  BY <1>1
<1>5. DOMAIN eval_queue' = DOMAIN eval_queue \cup {Len(eval_queue) + 1}
  BY <1>2, <1>3
<1> QED
  BY <1>2, <1>4, <1>5 DEF QueuedEvals

LEMMA QueueShrinks ==
  ASSUME EvalTypeOK, eval_queue # <<>>, eval_queue' = Tail(eval_queue)
  PROVE  /\ QueuedEvals = QueuedEvals' \cup {Head(eval_queue)}
         /\ DOMAIN eval_queue' = 1..(Len(eval_queue) - 1)
         /\ \A i \in DOMAIN eval_queue' :
              i + 1 \in DOMAIN eval_queue /\ eval_queue'[i] = eval_queue[i + 1]
         /\ 1 \in DOMAIN eval_queue /\ Head(eval_queue) = eval_queue[1]
<1>1. eval_queue \in Seq(Steps) /\ Len(eval_queue) \in Nat \ {0}
  BY DEF EvalTypeOK
<1>2. DOMAIN eval_queue = 1..Len(eval_queue)
  BY <1>1
<1>3. DOMAIN eval_queue' = 1..(Len(eval_queue) - 1)
  BY <1>1
<1>4. \A i \in 1..(Len(eval_queue) - 1) : eval_queue'[i] = eval_queue[i + 1]
  BY <1>1
<1>5. Head(eval_queue) = eval_queue[1]
  BY <1>1
<1>6. \A i \in DOMAIN eval_queue' : i + 1 \in DOMAIN eval_queue
  BY <1>1, <1>2, <1>3
<1>7. \A i \in DOMAIN eval_queue : i = 1 \/ (i - 1 \in DOMAIN eval_queue' /\ (i - 1) + 1 = i)
  BY <1>1, <1>2, <1>3
<1>8. 1 \in DOMAIN eval_queue
  BY <1>1, <1>2
<1>9. QueuedEvals \subseteq QueuedEvals' \cup {Head(eval_queue)}
  BY <1>3, <1>4, <1>5, <1>7 DEF QueuedEvals
<1>10. QueuedEvals' \cup {Head(eval_queue)} \subseteq QueuedEvals
  BY <1>3, <1>4, <1>5, <1>6, <1>8 DEF QueuedEvals
<1> QED
  BY <1>3, <1>4, <1>5, <1>6, <1>8, <1>9, <1>10

LEMMA PendingQueued ==
  PendingEvals = QueuedEvals \cup (IF epc = "wait" THEN {eval_next} ELSE {})
                   \cup (IF etask = NoEval THEN {} ELSE {etask.step})
  BY DEF PendingEvals, QueuedEvals

LEMMA NextPending ==
  PendingEvals' = QueuedEvals' \cup (IF epc' = "wait" THEN {eval_next'} ELSE {})
                    \cup (IF etask' = NoEval THEN {} ELSE {etask'.step})
  BY DEF PendingEvals, QueuedEvals

(* What a step of the eval stage or of an eval does to the pending evals.    *)
LEMMA EvalPending ==
  ASSUME TypeOK, EvalStep
  PROVE  \/ /\ UNCHANGED scheduled_eval_steps
            /\ PendingEvals' = PendingEvals
         \/ /\ etask # NoEval /\ etask' = NoEval
            /\ UNCHANGED <<eval_queue, epc, eval_next>>
            /\ scheduled_eval_steps' = scheduled_eval_steps \ {etask.step}
<1>t. EvalTypeOK
  BY DEF TypeOK
<1>1. CASE EvalStageTakes
  <2>1. /\ QueuedEvals = QueuedEvals' \cup {Head(eval_queue)}
        /\ UNCHANGED scheduled_eval_steps /\ epc = "poll"
    BY <1>1, <1>t, QueueShrinks DEF EvalStageTakes
  <2>2. CASE etask = NoEval
    <3>1. etask' = Task(Head(eval_queue)) /\ epc' = "poll"
      BY <1>1, <2>2 DEF EvalStageTakes
    <3>2. etask' # NoEval /\ etask'.step = Head(eval_queue)
      BY <3>1 DEF Task, NoEval
    <3> QED
      BY <2>1, <2>2, <3>1, <3>2, PendingQueued, NextPending
  <2>3. CASE etask # NoEval
    <3>1. etask' = etask /\ epc' = "wait" /\ eval_next' = Head(eval_queue)
      BY <1>1, <2>3 DEF EvalStageTakes
    <3> QED
      BY <2>1, <2>3, <3>1, PendingQueued, NextPending
  <2> QED BY <2>2, <2>3
<1>2. CASE EvalStageCreates
  <2>1. /\ epc = "wait" /\ epc' = "poll" /\ etask = NoEval
        /\ etask' = Task(eval_next) /\ QueuedEvals' = QueuedEvals
        /\ UNCHANGED scheduled_eval_steps
    BY <1>2 DEF EvalStageCreates, QueuedEvals
  <2>2. etask' # NoEval /\ etask'.step = eval_next
    BY <2>1 DEF Task, NoEval
  <2> QED
    BY <2>1, <2>2, PendingQueued, NextPending
<1>3. CASE EvalStageLeaves \/ EvalStageEnds
  <2>1. /\ epc # "wait" /\ epc' # "wait" /\ UNCHANGED <<etask, scheduled_eval_steps>>
        /\ QueuedEvals' = QueuedEvals
    BY <1>3 DEF EvalStageLeaves, EvalStageEnds, QueuedEvals
  <2> QED
    BY <2>1, PendingQueued, NextPending
<1>4. CASE EvalStarts \/ EvalReturns
  <2>1. /\ etask # NoEval /\ etask' # NoEval /\ etask'.step = etask.step
        /\ UNCHANGED <<epc, eval_next, scheduled_eval_steps>>
        /\ QueuedEvals' = QueuedEvals
    BY <1>4, <1>t DEF EvalStarts, EvalReturns, QueuedEvals, NoEval, EvalTypeOK
  <2> QED
    BY <2>1, PendingQueued, NextPending
<1>5. CASE EvalCompletes \/ EvalFails
  BY <1>5 DEF EvalCompletes, EvalFails, NoEval
<1> QED
  BY <1>1, <1>2, <1>3, <1>4, <1>5 DEF EvalStep

LEMMA LoggedPending ==
  ASSUME TypeOK, StepLogged
  PROVE  /\ UNCHANGED <<epc, eval_next, etask, current_step>>
         /\ tpc = "log" /\ tpc' = "loop"
         /\ \/ UNCHANGED <<eval_queue, scheduled_eval_steps>>
            \/ /\ HasEval /\ eval_queue' = Append(eval_queue, current_step)
               /\ QueuedEvals' = QueuedEvals \cup {current_step}
               /\ scheduled_eval_steps' = scheduled_eval_steps \cup {current_step}
<1>1. /\ UNCHANGED <<epc, eval_next, etask, current_step>>
      /\ tpc = "log" /\ tpc' = "loop"
      /\ \/ UNCHANGED <<eval_queue, scheduled_eval_steps>>
         \/ /\ HasEval /\ eval_queue' = Append(eval_queue, current_step)
            /\ scheduled_eval_steps' = scheduled_eval_steps \cup {current_step}
  BY DEF StepLogged
<1>2. EvalTypeOK /\ current_step \in Steps
  BY DEF TypeOK, TrainTypeOK
<1>3. eval_queue' = Append(eval_queue, current_step)
        => QueuedEvals' = QueuedEvals \cup {current_step}
  BY <1>2, QueueGrows
<1> QED
  BY <1>1, <1>3

LEMMA PendingInit ==
  ASSUME Init
  PROVE  /\ ScheduledPending /\ PendingEvals = scheduled_eval_steps
         /\ eval_queue \in {<<>>, <<0>>} /\ PendingEvals \subseteq {0}
<1>1. /\ \/ eval_queue = <<>> /\ scheduled_eval_steps = {}
         \/ eval_queue = <<0>> /\ scheduled_eval_steps = {0}
      /\ epc # "wait" /\ etask = NoEval
  BY DEF Init, StartFrom
<1>2. QueuedEvals = scheduled_eval_steps
  BY <1>1 DEF QueuedEvals
<1> QED
  BY <1>1, <1>2, PendingQueued DEF ScheduledPending

LEMMA SchedNext ==
  ASSUME TypeOK, ScheduledPending, [Next]_vars
  PROVE  ScheduledPending'
<1> USE DEF ScheduledPending
<1>1. CASE Quiet \/ \E step \in Steps : TrainReturns(step)
  <2>1. UNCHANGED evalVars
    BY <1>1 DEF Quiet, TrainReturns
  <2> QED
    BY <2>1, PendingQueued, NextPending DEF evalVars, QueuedEvals
<1>2. CASE EvalStep
  BY <1>2, EvalPending, PendingQueued, NextPending DEF QueuedEvals
<1>3. CASE StepLogged
  BY <1>3, LoggedPending, PendingQueued, NextPending DEF QueuedEvals
<1> QED
  BY <1>1, <1>2, <1>3, EvalsSteps

-----------------------------------------------------------------------------
(* No eval is left when train() returns: unless a stop was requested, the    *)
(* eval stage sees done only after training has finished.                    *)

StageInv ==
  /\ "stop" \notin Environment /\ done => tpc \in {"finish", "finished"}
  /\ HasEval /\ epc \in {"final", "done"} => done
  /\ "stop" \notin Environment /\ epc \in {"final", "done"} => eval_queue = <<>>
  /\ epc = "done" => etask = NoEval

LEMMA StageInit == Init => StageInv
  BY DEF Init, StartFrom, StageInv

LEMMA DoneKept ==
  ASSUME TypeOK, StageInv, [Next]_vars
  PROVE  /\ done => done'
         /\ "stop" \notin Environment /\ done' => tpc' \in {"finish", "finished"}
<1> USE DEF StageInv
<1>1. CASE UNCHANGED vars \/ Returned
  BY <1>1 DEF Returned, vars, stateVars, trainVars
<1>2. ASSUME NEW w \in Workers, WorkerStep(w)
      PROVE  UNCHANGED <<done, tpc>>
  BY <1>2 DEF WorkerStep, TakeScenario, ScenariosExhausted, WaitForPolicy,
       GiveUpScenario, StartRollout, RolloutFails, RolloutReturns, PutGroup,
       PutTimesOut, stateVars, trainVars
<1>3. CASE StopNotifies \/ StopPuts \/ RolloutStageJoins \/ RolloutStagePuts
           \/ EvalStep
  <2>1. UNCHANGED <<done, tpc>>
    BY <1>3 DEF StopNotifies, StopPuts, RolloutStageJoins,
         RolloutStagePuts, EvalStep, EvalStageTakes, EvalStageCreates,
         EvalStageLeaves, EvalStageEnds, EvalStarts, EvalReturns,
         EvalCompletes, EvalFails, stateVars, trainVars
  <2> QED BY <2>1
<1>4. CASE RequestStop
  BY <1>4 DEF RequestStop
<1>5. CASE TrainingStep
  BY <1>5 DEF TrainingStep, BeginCollect, CollectStep,
       CollectSentinel, CollectAllFailed, CollectStale, CollectZeroVariance,
       CollectGroup, CollectSuspends, Dequeue, BatchCollected, BeginTrain,
       TrainingRaises, FinishTraining, StepLogged, stateVars
<1>6. CASE BackendStep
  BY <1>6 DEF BackendStep, TrainReturns, AdaptersPruned, RetentionRan, stateVars
<1> QED
  BY <1>1, <1>2, <1>3, <1>4, <1>5, <1>6 DEF Next, System, TaskStep

LEMMA StageNext ==
  ASSUME TypeOK, StageInv, [Next]_vars
  PROVE  StageInv'
<1>d. /\ done => done'
      /\ "stop" \notin Environment /\ done' => tpc' \in {"finish", "finished"}
  BY DoneKept
<1>1. CASE Quiet \/ \E step \in Steps : TrainReturns(step)
  <2>1. UNCHANGED evalVars
    BY <1>1 DEF Quiet, TrainReturns
  <2> QED
    BY <1>d, <2>1 DEF StageInv, evalVars
<1>2. CASE EvalStep
  BY <1>d, <1>2 DEF StageInv, EvalStep, EvalStageTakes, EvalStageCreates,
     EvalStageLeaves, EvalStageEnds, EvalStarts, EvalReturns, EvalCompletes,
     EvalFails, NoEval
<1>3. CASE StepLogged
  BY <1>d, <1>3 DEF StageInv, StepLogged
<1> QED
  BY <1>1, <1>2, <1>3, EvalsSteps

(* When train() returns without a request to stop, every eval it scheduled   *)
(* was run, whatever failed in between (_eval_stage).                        *)
THEOREM EvalsRunAtEnd == Spec => []("stop" \notin Environment => ScheduledEvalsRun)
<1>1. Init => ScheduledPending /\ StageInv
  BY PendingInit, StageInit
<1>2. TypeOK /\ ScheduledPending /\ StageInv /\ [Next]_vars
        => (ScheduledPending /\ StageInv)'
  BY SchedNext, StageNext
<1>3. ScheduledPending /\ StageInv => ("stop" \notin Environment => ScheduledEvalsRun)
  <2> SUFFICES ASSUME ScheduledPending, StageInv, "stop" \notin Environment,
                      TrainReturned, tpc = "finished"
               PROVE  scheduled_eval_steps = {}
    BY DEF ScheduledEvalsRun
  <2>1. eval_queue = <<>> /\ etask = NoEval /\ epc = "done"
    BY DEF TrainReturned, StageInv
  <2>2. PendingEvals = {}
    BY <2>1 DEF PendingEvals
  <2> QED
    BY <2>2 DEF ScheduledPending
<1> QED
  BY <1>1, <1>2, <1>3, TypeCorrect, PTL DEF Spec

-----------------------------------------------------------------------------
(* What is pending is scheduled: an eval's end takes away its own step only, *)
(* as no step is pending twice.  That is so when every training step makes a *)
(* new step: pending evals are of different steps, in order.                 *)

EvalsOrdered ==
  /\ \A i, j \in DOMAIN eval_queue : i < j => eval_queue[i] < eval_queue[j]
  /\ epc = "wait" => \A x \in QueuedEvals : eval_next < x
  /\ etask # NoEval => \A x \in QueuedEvals : etask.step < x
  /\ epc = "wait" /\ etask # NoEval => etask.step < eval_next
  /\ \A x \in PendingEvals : x <= current_step
  /\ tpc \in AfterStep => \A x \in PendingEvals : x < current_step
  /\ PendingEvals = scheduled_eval_steps

LEMMA OrderedInit == Init => EvalsOrdered
<1> SUFFICES ASSUME Init PROVE EvalsOrdered
  OBVIOUS
<1>1. /\ eval_queue \in {<<>>, <<0>>} /\ PendingEvals \subseteq {0}
      /\ PendingEvals = scheduled_eval_steps
  BY PendingInit
<1>2. epc # "wait" /\ etask = NoEval /\ current_step = 0 /\ tpc = "loop"
  BY DEF Init, StartFrom
<1>3. \A i, j \in DOMAIN eval_queue : ~(i < j)
  BY <1>1
<1> QED
  BY <1>1, <1>2, <1>3 DEF EvalsOrdered, AfterStep

LEMMA PendingType == TypeOK => PendingEvals \subseteq Steps /\ QueuedEvals \subseteq Steps
  BY DEF TypeOK, EvalTypeOK, PendingEvals, QueuedEvals, NoEval

LEMMA OrderedNext ==
  ASSUME TypeOK, EvalsOrdered, [Next]_vars,
         tpc = "train" /\ tpc' = "prune" => current_step' = current_step + 1
  PROVE  EvalsOrdered'
<1>t. /\ PendingEvals \subseteq Int /\ QueuedEvals \subseteq Int
      /\ current_step \in Int /\ eval_next \in Int /\ EvalTypeOK /\ current_step \in Steps
  BY PendingType, PipelineAssumption DEF TypeOK, TrainTypeOK, EvalTypeOK, Steps
<1>1. CASE Quiet
  <2>1. UNCHANGED <<evalVars, current_step>> /\ (tpc' \in AfterStep => tpc \in AfterStep)
        /\ PendingEvals' = PendingEvals /\ QueuedEvals' = QueuedEvals
    BY <1>1 DEF Quiet, evalVars, PendingEvals, QueuedEvals
  <2> QED
    BY <2>1 DEF EvalsOrdered, evalVars
<1>2. ASSUME NEW step \in Steps, TrainReturns(step) PROVE EvalsOrdered'
  <2>1. UNCHANGED evalVars /\ current_step' = current_step + 1
        /\ PendingEvals' = PendingEvals /\ QueuedEvals' = QueuedEvals
    BY <1>2 DEF TrainReturns, evalVars, PendingEvals, QueuedEvals
  <2>2. \A x \in PendingEvals : x < current_step + 1
    BY <1>t DEF EvalsOrdered
  <2>3. \A x \in PendingEvals : x <= current_step + 1
    BY <1>t, <2>2
  <2> QED
    BY <2>1, <2>2, <2>3 DEF EvalsOrdered, evalVars
<1>3. CASE StepLogged
  <2>0. /\ UNCHANGED <<epc, eval_next, etask, current_step>>
        /\ tpc = "log" /\ tpc' = "loop"
    BY <1>3, LoggedPending
  <2>1. CASE UNCHANGED <<eval_queue, scheduled_eval_steps>>
    <3>1. PendingEvals' = PendingEvals /\ QueuedEvals' = QueuedEvals
      BY <2>0, <2>1 DEF PendingEvals, QueuedEvals
    <3> QED
      BY <2>0, <2>1, <3>1 DEF EvalsOrdered, AfterStep
  <2>2. CASE /\ eval_queue' = Append(eval_queue, current_step)
             /\ QueuedEvals' = QueuedEvals \cup {current_step}
             /\ scheduled_eval_steps' = scheduled_eval_steps \cup {current_step}
    <3>1. PendingEvals' = PendingEvals \cup {current_step}
      BY <2>0, <2>2, PendingQueued, NextPending
    <3>2. \A x \in PendingEvals : x < current_step
      BY <2>0 DEF EvalsOrdered, AfterStep
    <3>3. QueuedEvals \subseteq PendingEvals
          /\ (epc = "wait" => eval_next \in PendingEvals)
          /\ (etask # NoEval => etask.step \in PendingEvals)
      BY PendingQueued
    <3>4. /\ DOMAIN eval_queue' = DOMAIN eval_queue \cup {Len(eval_queue) + 1}
          /\ \A i \in DOMAIN eval_queue :
               i < Len(eval_queue) + 1 /\ eval_queue'[i] = eval_queue[i]
          /\ eval_queue'[Len(eval_queue) + 1] = current_step
          /\ DOMAIN eval_queue \subseteq Nat /\ Len(eval_queue) + 1 \in Nat
      <4>1. eval_queue \in Seq(Steps)
        BY <1>t DEF EvalTypeOK
      <4>2. Len(eval_queue) \in Nat /\ DOMAIN eval_queue = 1..Len(eval_queue)
        BY <4>1
      <4>3. DOMAIN eval_queue' = 1..(Len(eval_queue) + 1)
        BY <2>2, <4>1
      <4>4. \A i \in 1..Len(eval_queue) : eval_queue'[i] = eval_queue[i]
        BY <2>2, <4>1
      <4>5. eval_queue'[Len(eval_queue) + 1] = current_step
        BY <2>2, <4>1
      <4> QED
        BY <4>2, <4>3, <4>4, <4>5
    <3>5. \A i \in DOMAIN eval_queue : eval_queue[i] < current_step
      BY <3>2, <3>3 DEF QueuedEvals
    <3>6. \A i, j \in DOMAIN eval_queue' : i < j => eval_queue'[i] < eval_queue'[j]
      <4> SUFFICES ASSUME NEW i \in DOMAIN eval_queue', NEW j \in DOMAIN eval_queue', i < j
                   PROVE  eval_queue'[i] < eval_queue'[j]
        OBVIOUS
      <4>1. i \in DOMAIN eval_queue
        BY <3>4
      <4>2. CASE j \in DOMAIN eval_queue
        BY <3>4, <4>1, <4>2 DEF EvalsOrdered
      <4>3. CASE j = Len(eval_queue) + 1
        BY <3>4, <3>5, <4>1, <4>3
      <4> QED BY <3>4, <4>2, <4>3
    <3>7. /\ epc = "wait" => \A x \in QueuedEvals' : eval_next < x
          /\ etask # NoEval => \A x \in QueuedEvals' : etask.step < x
      BY <2>2, <3>2, <3>3 DEF EvalsOrdered
    <3>8. \A x \in PendingEvals' : x <= current_step
      BY <1>t, <3>1 DEF EvalsOrdered
    <3>9. PendingEvals' = scheduled_eval_steps'
      BY <2>2, <3>1 DEF EvalsOrdered
    <3> QED
      BY <2>0, <3>6, <3>7, <3>8, <3>9 DEF EvalsOrdered, AfterStep
  <2> QED
    BY <1>3, <2>1, <2>2, LoggedPending
<1>4. CASE EvalStep
  <2>0. UNCHANGED trainVars
    BY <1>4 DEF EvalStep, EvalStageTakes, EvalStageCreates, EvalStageLeaves,
       EvalStageEnds, EvalStarts, EvalReturns, EvalCompletes, EvalFails
  <2>1. CASE EvalCompletes \/ EvalFails
    <3>1. /\ etask # NoEval /\ etask' = NoEval
          /\ UNCHANGED <<eval_queue, epc, eval_next>> /\ QueuedEvals' = QueuedEvals
          /\ scheduled_eval_steps' = scheduled_eval_steps \ {etask.step}
      BY <2>1 DEF EvalCompletes, EvalFails, NoEval, QueuedEvals
    <3>2. PendingEvals = PendingEvals' \cup {etask.step}
      BY <3>1, PendingQueued, NextPending
    <3>3. etask.step \notin PendingEvals'
      <4>1. PendingEvals' = QueuedEvals \cup (IF epc = "wait" THEN {eval_next} ELSE {})
        BY <3>1, NextPending
      <4>2. etask.step \in Int
        BY <3>1, <1>t, PendingQueued
      <4>3. \A x \in QueuedEvals : etask.step < x
        BY <3>1 DEF EvalsOrdered
      <4>4. epc = "wait" => etask.step < eval_next
        BY <3>1 DEF EvalsOrdered
      <4> QED
        BY <1>t, <4>1, <4>2, <4>3, <4>4
    <3> QED
      BY <2>0, <3>1, <3>2, <3>3 DEF EvalsOrdered, trainVars
  <2>2. CASE ~(EvalCompletes \/ EvalFails)
    <3>1. UNCHANGED scheduled_eval_steps
      BY <1>4, <2>2 DEF EvalStep, EvalStageTakes, EvalStageCreates, EvalStageLeaves,
         EvalStageEnds, EvalStarts, EvalReturns
    <3>2. PendingEvals' = PendingEvals
      BY <1>4, <3>1, EvalPending, <2>2
         DEF EvalStep, EvalStageTakes, EvalStageCreates, EvalStageLeaves,
         EvalStageEnds, EvalStarts, EvalReturns, Task, NoEval
    <3>3. CASE EvalStageTakes
      <4>1. /\ QueuedEvals = QueuedEvals' \cup {Head(eval_queue)}
            /\ \A i \in DOMAIN eval_queue' :
                 i + 1 \in DOMAIN eval_queue /\ eval_queue'[i] = eval_queue[i + 1]
            /\ 1 \in DOMAIN eval_queue /\ Head(eval_queue) = eval_queue[1]
            /\ DOMAIN eval_queue' = 1..(Len(eval_queue) - 1)
        BY <1>t, <3>3, QueueShrinks DEF EvalStageTakes
      <4>2. \A x \in QueuedEvals' : Head(eval_queue) < x
        <5> SUFFICES ASSUME NEW i \in DOMAIN eval_queue' PROVE Head(eval_queue) < eval_queue'[i]
          BY DEF QueuedEvals
        <5>1. i \in Nat /\ i >= 1
          BY <4>1
        <5>2. 1 < i + 1
          BY <5>1
        <5> QED
          BY <4>1, <5>2 DEF EvalsOrdered
      <4>3. \A i, j \in DOMAIN eval_queue' : i < j => eval_queue'[i] < eval_queue'[j]
        <5> SUFFICES ASSUME NEW i \in DOMAIN eval_queue', NEW j \in DOMAIN eval_queue', i < j
                     PROVE  eval_queue'[i] < eval_queue'[j]
          OBVIOUS
        <5>1. i \in Nat /\ j \in Nat /\ i + 1 < j + 1
          BY <4>1
        <5> QED
          BY <4>1, <5>1 DEF EvalsOrdered
      <4>4. epc = "poll" /\ QueuedEvals' \subseteq QueuedEvals /\ Head(eval_queue) \in QueuedEvals
        BY <3>3, <4>1 DEF EvalStageTakes
      <4>5. CASE etask = NoEval
        <5>1. etask' = Task(Head(eval_queue)) /\ epc' = "poll"
          BY <3>3, <4>5 DEF EvalStageTakes
        <5>2. etask'.step = Head(eval_queue)
          BY <5>1 DEF Task
        <5> QED
          BY <2>0, <3>1, <3>2, <4>2, <4>3, <5>1, <5>2 DEF EvalsOrdered, trainVars
      <4>6. CASE etask # NoEval
        <5>1. etask' = etask /\ epc' = "wait" /\ eval_next' = Head(eval_queue)
          BY <3>3, <4>6 DEF EvalStageTakes
        <5> QED
          BY <2>0, <3>1, <3>2, <4>2, <4>3, <4>4, <4>6, <5>1 DEF EvalsOrdered, trainVars
      <4> QED BY <4>5, <4>6
    <3>4. CASE EvalStageCreates
      <4>1. /\ epc = "wait" /\ epc' = "poll" /\ UNCHANGED eval_queue
            /\ etask' = Task(eval_next) /\ QueuedEvals' = QueuedEvals
        BY <3>4 DEF EvalStageCreates, QueuedEvals
      <4>2. etask'.step = eval_next
        BY <4>1 DEF Task
      <4> QED
        BY <2>0, <3>1, <3>2, <4>1, <4>2 DEF EvalsOrdered, trainVars
    <3>5. CASE EvalStageLeaves \/ EvalStageEnds
      <4>1. /\ epc # "wait" /\ epc' # "wait" /\ UNCHANGED <<eval_queue, etask>>
            /\ QueuedEvals' = QueuedEvals
        BY <3>5 DEF EvalStageLeaves, EvalStageEnds, QueuedEvals
      <4> QED
        BY <2>0, <3>1, <3>2, <4>1 DEF EvalsOrdered, trainVars
    <3>6. CASE EvalStarts \/ EvalReturns
      <4>1. /\ etask # NoEval /\ etask'.step = etask.step
            /\ UNCHANGED <<eval_queue, epc, eval_next>> /\ QueuedEvals' = QueuedEvals
        BY <1>t, <3>6 DEF EvalStarts, EvalReturns, QueuedEvals, NoEval, EvalTypeOK
      <4> QED
        BY <2>0, <3>1, <3>2, <4>1 DEF EvalsOrdered, trainVars
    <3> QED
      BY <1>4, <2>2, <3>3, <3>4, <3>5, <3>6 DEF EvalStep
  <2> QED BY <2>1, <2>2
<1> QED
  BY <1>1, <1>2, <1>3, <1>4, EvalsSteps

(* The steps whose checkpoints are protected for evals are exactly those     *)
(* queued, taken or running, when backend.train always makes a new step      *)
(* (_scheduled_eval_steps, _run_eval).                                       *)
THEOREM PendingScheduled ==
  Spec => []("same_step" \notin Environment => PendingEvalsScheduled)
<1> DEFINE Inv == "same_step" \notin Environment => EvalsOrdered
<1>1. Init => Inv
  BY OrderedInit
<1>2. TypeOK /\ Inv /\ [Next]_vars => Inv'
  <2> SUFFICES ASSUME TypeOK, EvalsOrdered, [Next]_vars, "same_step" \notin Environment
               PROVE  EvalsOrdered'
    OBVIOUS
  <2>1. tpc = "train" /\ tpc' = "prune" => current_step' = current_step + 1
    <3> SUFFICES ASSUME tpc = "train", tpc' = "prune" PROVE current_step' = current_step + 1
      OBVIOUS
    <3>1. ~Quiet /\ ~StepLogged /\ ~EvalStep
      BY DEF Quiet, AfterStep, StepLogged, EvalStep, EvalStageTakes, EvalStageCreates,
         EvalStageLeaves, EvalStageEnds, EvalStarts, EvalReturns, EvalCompletes,
         EvalFails, trainVars
    <3> QED
      BY <3>1, EvalsSteps DEF TrainReturns
  <2> QED
    BY <2>1, OrderedNext
<1>3. Inv => ("same_step" \notin Environment => PendingEvalsScheduled)
  BY DEF EvalsOrdered, PendingEvalsScheduled
<1> QED
  BY <1>1, <1>2, <1>3, TypeCorrect, PTL DEF Spec

-----------------------------------------------------------------------------
(* The invariant: until its fate is sealed a scenario that was taken is in   *)
(* one place, and in none before and after.  It speaks of the places as sets *)
(* with at most one element, which a step either moves or leaves.            *)

HeldPc == {"check", "blocked", "rollout", "put"}

AtMostOne(S) == \A a, b \in S : a = b

\* Taken, and nothing became of it yet.
Live(s) == s <= scenario_offset /\ fate[s] = "none"

OnePlace(s) ==
  /\ AtMostOne(HeldByWorkers(s)) /\ AtMostOne(Queued(s))
  /\ AtMostOne(InBatchAt(s))
  /\ HeldByWorkers(s) = {} \/ Queued(s) = {}
  /\ HeldByWorkers(s) = {} \/ InBatchAt(s) = {}
  /\ Queued(s) = {} \/ InBatchAt(s) = {}
  /\ Live(s) <=> \/ HeldByWorkers(s) # {}
                 \/ Queued(s) # {} \/ InBatchAt(s) # {}

LaterUntouched == \A s \in Scenarios : s > scenario_offset => fate[s] = "none"

\* Only the sentinel stands for no scenario.
RealScenarios ==
  /\ \A w \in Workers : worker[w].pc \in HeldPc => worker[w].scenario # 0
  /\ \A i \in DOMAIN output_queue :
       output_queue[i].kind # "sentinel" => output_queue[i].scenario # 0
  /\ \A i \in DOMAIN batch : batch[i].scenario # 0

TrainsSomething == tpc = "train" => batch # <<>>

PlacesInv ==
  /\ OffPolicyInv
  /\ \A s \in Scenarios : OnePlace(s)
  /\ LaterUntouched /\ RealScenarios /\ TrainsSomething

LEMMA PlacesInit == Init => PlacesInv
<1> SUFFICES ASSUME Init PROVE PlacesInv
  OBVIOUS
<1>1. /\ output_queue = <<>> /\ batch = <<>> /\ tpc = "loop"
      /\ \A w \in Workers : worker[w].pc = "fetch"
      /\ fate = [s \in Scenarios |-> "none"]
  BY DEF Init, StartFrom, WorkerAt
<1>2. scenario_offset = 0
  BY PipelineAssumption DEF Init, StartFrom, FreshState, Persisted
<1>3. ASSUME NEW s \in Scenarios PROVE OnePlace(s)
  <2>1. HeldByWorkers(s) = {} /\ Queued(s) = {} /\ InBatchAt(s) = {}
    BY <1>1 DEF HeldByWorkers, Queued, InBatchAt
  <2>2. ~Live(s)
    BY <1>2, PipelineAssumption DEF Live, Scenarios
  <2> QED
    BY <2>1, <2>2 DEF OnePlace, AtMostOne
<1>4. LaterUntouched /\ RealScenarios /\ TrainsSomething
  BY <1>1 DEF LaterUntouched, RealScenarios, TrainsSomething, HeldPc
<1> QED
  BY <1>3, <1>4, OffPolicyInit DEF PlacesInv

-----------------------------------------------------------------------------
(* How the places change. *)

LEMMA QueuedAppended ==
  ASSUME QueueTypeOK, NEW g \in Group, output_queue' = Append(output_queue, g),
         NEW s \in Scenarios
  PROVE  Queued(s)' = Queued(s) \cup
           (IF g.scenario = s THEN {Len(output_queue) + 1} ELSE {})
<1>1. output_queue \in Seq(Group)
  BY DEF QueueTypeOK
<1>2. /\ DOMAIN output_queue = 1..Len(output_queue) /\ Len(output_queue) \in Nat
      /\ DOMAIN output_queue' = 1..(Len(output_queue) + 1)
      /\ \A i \in DOMAIN output_queue : output_queue'[i] = output_queue[i]
      /\ output_queue'[Len(output_queue) + 1] = g
  BY <1>1
<1>3. DOMAIN output_queue' = DOMAIN output_queue \cup {Len(output_queue) + 1}
  BY <1>2
<1> QED
  BY <1>2, <1>3 DEF Queued

(* The queue without its first item. *)
LEMMA QueuedShifted ==
  ASSUME QueueTypeOK, Dequeue, NEW s \in Scenarios, AtMostOne(Queued(s))
  PROVE  /\ AtMostOne(Queued(s)')
         /\ Item.scenario = s => Queued(s) # {} /\ Queued(s)' = {}
         /\ Item.scenario # s => (Queued(s)' = {} <=> Queued(s) = {})
<1>1. output_queue \in Seq(Group) /\ output_queue # <<>>
      /\ output_queue' = Tail(output_queue)
  BY DEF QueueTypeOK, Dequeue
<1>2. /\ DOMAIN output_queue = 1..Len(output_queue)
      /\ Len(output_queue) \in Nat \ {0}
      /\ DOMAIN output_queue' = 1..(Len(output_queue) - 1)
      /\ \A i \in DOMAIN output_queue' : output_queue'[i] = output_queue[i + 1]
      /\ Item = output_queue[1]
  BY <1>1 DEF Item
<1>3. 1 \in Queued(s) <=> Item.scenario = s
  BY <1>2 DEF Queued
<1>4. \A i \in Queued(s)' : i + 1 \in Queued(s) /\ i \in Nat \ {0}
  BY <1>2 DEF Queued
<1>5. \A i \in Queued(s) : i # 1 => i - 1 \in Queued(s)'
  BY <1>2 DEF Queued
<1>6. \A i \in Queued(s) : i \in Nat
  BY <1>2 DEF Queued
<1>7. AtMostOne(Queued(s)')
  BY <1>4, <1>6 DEF AtMostOne
<1>8. ASSUME Item.scenario = s PROVE Queued(s)' = {}
  BY <1>3, <1>4, <1>8 DEF AtMostOne
<1> QED
  BY <1>3, <1>4, <1>5, <1>7, <1>8

LEMMA BatchAppended ==
  ASSUME batch \in Seq(Group), NEW g \in Group, batch' = Append(batch, g),
         tpc \in {"collect", "drain"}, tpc' = "drain", NEW s \in Scenarios
  PROVE  InBatchAt(s)' = InBatchAt(s) \cup
           (IF g.scenario = s THEN {Len(batch) + 1} ELSE {})
<1>1. /\ DOMAIN batch = 1..Len(batch) /\ Len(batch) \in Nat
      /\ DOMAIN batch' = 1..(Len(batch) + 1)
      /\ \A i \in DOMAIN batch : batch'[i] = batch[i]
      /\ batch'[Len(batch) + 1] = g
  OBVIOUS
<1>2. DOMAIN batch' = DOMAIN batch \cup {Len(batch) + 1}
  BY <1>1
<1> QED
  BY <1>1, <1>2 DEF InBatchAt

(* What one worker does to the scenarios held by the workers. *)
LEMMA HeldChanged ==
  ASSUME NEW w \in Workers, \A v \in Workers \ {w} : worker'[v] = worker[v],
         NEW s \in Scenarios
  PROVE  HeldByWorkers(s)' =
           (HeldByWorkers(s) \ {w}) \cup
           (IF worker'[w].pc \in HeldPc /\ worker'[w].scenario = s
            THEN {w} ELSE {})
  BY DEF HeldByWorkers, HeldPc

LEMMA QueueScenarios ==
  ASSUME TypeOK, RealScenarios, NEW g \in Group,
         \/ output_queue' = output_queue
         \/ output_queue' = Append(output_queue, g)
            /\ (g.kind # "sentinel" => g.scenario # 0)
  PROVE  \A i \in DOMAIN output_queue' :
           output_queue'[i].kind # "sentinel" => output_queue'[i].scenario # 0
<1>1. output_queue \in Seq(Group)
  BY DEF TypeOK, QueueTypeOK
<1>2. \A i \in DOMAIN output_queue :
        output_queue[i].kind # "sentinel" => output_queue[i].scenario # 0
  BY DEF RealScenarios
<1> QED
  BY <1>1, <1>2

-----------------------------------------------------------------------------
(* The steps that move no scenario. *)

LEMMA PlacesElsewhere ==
  ASSUME PlacesInv, OffPolicyInv', UNCHANGED <<scenario_offset, fate>>,
         \A w \in Workers :
           /\ worker'[w].scenario = worker[w].scenario \/ worker[w].pc \notin HeldPc
           /\ worker'[w].pc \in HeldPc <=> worker[w].pc \in HeldPc,
         \/ output_queue' = output_queue
         \/ output_queue' = Append(output_queue, Sentinel),
         \A s \in Scenarios : InBatchAt(s)' = InBatchAt(s),
         \A i \in DOMAIN batch' : batch'[i].scenario # 0,
         TrainsSomething'
  PROVE  PlacesInv'
<1>1. ASSUME NEW s \in Scenarios PROVE OnePlace(s)'
  <2>1. HeldByWorkers(s)' = HeldByWorkers(s)
    BY DEF HeldByWorkers, HeldPc
  <2>2. Queued(s)' = Queued(s)
    <3>1. CASE output_queue' = output_queue
      BY <3>1 DEF Queued
    <3>2. CASE output_queue' = Append(output_queue, Sentinel)
      <4>1. Sentinel.scenario # s
        BY PipelineAssumption DEF Sentinel, Scenarios
      <4> QED
        BY <3>2, <4>1, QueuedAppended, SentinelType
           DEF PlacesInv, OffPolicyInv, TypeOK
    <3> QED
      BY <3>1, <3>2
  <2> QED
    BY <2>1, <2>2 DEF PlacesInv, OnePlace, Live, AtMostOne
<1>2. RealScenarios'
  <2>1. Sentinel.kind = "sentinel"
    BY DEF Sentinel
  <2> QED
    BY <2>1, QueueScenarios, SentinelType
       DEF PlacesInv, OffPolicyInv, RealScenarios
<1> QED
  BY <1>1, <1>2 DEF PlacesInv, LaterUntouched

(* request_stop's tasks, the rollout stage, the evals, and the trainer where *)
(* it neither takes from the queue nor ends the life of a batch.             *)
Shuffles ==
  \/ RequestStop \/ StopNotifies \/ StopPuts
  \/ RolloutStageJoins \/ RolloutStagePuts
  \/ EvalStep
  \/ BeginCollect \/ CollectSuspends \/ BeginTrain \/ StepLogged
  \/ TrainingRaises /\ tpc # "train"
  \/ AdaptersPruned \/ RetentionRan \/ FinishTraining

LEMMA WokenPlaces ==
  ASSUME TypeOK
  PROVE  \A w \in Workers :
           /\ Woken[w].scenario = worker[w].scenario
           /\ Woken[w].version = worker[w].version
           /\ Woken[w].pc \in HeldPc <=> worker[w].pc \in HeldPc
           /\ Woken[w].pc \in {"rollout", "put"} <=> worker[w].pc \in {"rollout", "put"}
  BY DEF TypeOK, RolloutTypeOK, Woken, Worker, WorkerPc, HeldPc

LEMMA ShufflesKeep ==
  ASSUME PlacesInv, Shuffles
  PROVE  /\ UNCHANGED <<policy_version, scenario_offset, fate>>
         /\ worker' = worker \/ worker' = Woken
         /\ \/ output_queue' = output_queue
            \/ output_queue' = Append(output_queue, Sentinel)
         /\ \A s \in Scenarios : InBatchAt(s)' = InBatchAt(s)
         /\ \A s \in Scenarios : \A i \in InBatchAt(s) : batch'[i] = batch[i]
         /\ batch' = batch \/ batch' = <<>>
         /\ TrainsSomething'
<1>1. CASE RequestStop \/ StopNotifies \/ StopPuts \/ RolloutStageJoins
           \/ RolloutStagePuts \/ EvalStep
  <2>1. UNCHANGED <<policy_version, scenario_offset, fate, trainVars>>
        /\ (worker' = worker \/ worker' = Woken)
        /\ \/ output_queue' = output_queue
           \/ output_queue' = Append(output_queue, Sentinel)
    BY <1>1 DEF RequestStop, StopNotifies, StopPuts, RolloutStageJoins,
       RolloutStagePuts, EvalStep, EvalStageTakes, EvalStageCreates,
       EvalStageLeaves, EvalStageEnds, EvalStarts, EvalReturns, EvalCompletes,
       EvalFails, stateVars, queueVars, rolloutVars
  <2> QED
    BY <2>1 DEF trainVars, InBatchAt, PlacesInv, TrainsSomething
<1>2. CASE BeginCollect
  <2>1. batch = <<>>
    BY <1>2 DEF BeginCollect, PlacesInv, OffPolicyInv, LoopStartsEmpty
  <2> QED
    BY <1>2, <2>1 DEF BeginCollect, stateVars, queueVars, rolloutVars,
                      InBatchAt, TrainsSomething
<1>3. CASE CollectSuspends \/ BeginTrain
  BY <1>3 DEF CollectSuspends, BeginTrain, BatchCollected, stateVars, queueVars,
              rolloutVars, InBatchAt, TrainsSomething
<1>4. CASE StepLogged
  BY <1>4 DEF StepLogged, queueVars, InBatchAt, TrainsSomething
<1>5. CASE (TrainingRaises /\ tpc # "train") \/ AdaptersPruned \/ RetentionRan
  BY <1>5 DEF TrainingRaises, AdaptersPruned, RetentionRan, stateVars,
              queueVars, rolloutVars, InBatchAt, TrainsSomething
<1>6. CASE FinishTraining
  <2>1. tpc = "drain" => batch = <<>>
    BY <1>6 DEF FinishTraining, BatchCollected
  <2>2. tpc = "loop" => batch = <<>>
    BY DEF PlacesInv, OffPolicyInv, LoopStartsEmpty
  <2>3. tpc \in {"loop", "drain", "finish"} /\ tpc' = "finished"
    BY <1>6 DEF FinishTraining, BatchCollected
  <2> QED
    BY <1>6, <2>1, <2>2, <2>3
       DEF FinishTraining, queueVars, InBatchAt, TrainsSomething
<1> QED
  BY <1>1, <1>2, <1>3, <1>4, <1>5, <1>6 DEF Shuffles

LEMMA PlacesShuffled ==
  ASSUME PlacesInv, OffPolicyInv', Shuffles
  PROVE  PlacesInv'
<1>1. \A w \in Workers :
        /\ worker'[w].scenario = worker[w].scenario
        /\ worker'[w].pc \in HeldPc <=> worker[w].pc \in HeldPc
  BY ShufflesKeep, WokenPlaces DEF PlacesInv, OffPolicyInv
<1>2. \A i \in DOMAIN batch' : batch'[i].scenario # 0
  BY ShufflesKeep DEF PlacesInv, RealScenarios
<1> QED
  BY <1>1, <1>2, ShufflesKeep, PlacesElsewhere

-----------------------------------------------------------------------------
(* The workers. *)

\* The scenario of a worker is given up: done was set, or the rollout failed.
Retires(w) ==
  /\ worker[w].pc \in HeldPc /\ worker'[w].pc \notin HeldPc
  /\ \A v \in Workers \ {w} : worker'[v] = worker[v]
  /\ \E end \in {"dropped", "error"} :
       fate' = [fate EXCEPT ![worker[w].scenario] = end]
  /\ UNCHANGED <<policy_version, scenario_offset, output_queue, trainVars>>

\* Its group goes into the queue.
Delivers(w) ==
  /\ worker[w].pc \in {"rollout", "put"} /\ worker'[w].pc \notin HeldPc
  /\ \A v \in Workers \ {w} : worker'[v] = worker[v]
  /\ \E outcome \in GroupKinds :
       output_queue' = Append(output_queue, GroupOf(w, outcome))
  /\ UNCHANGED <<policy_version, scenario_offset, fate, trainVars>>

\* It goes on with the scenario it has, or with none.
GoesOn(w) ==
  /\ \A v \in Workers \ {w} : worker'[v] = worker[v]
  /\ worker'[w].pc \in HeldPc <=> worker[w].pc \in HeldPc
  /\ worker[w].pc \in HeldPc => worker'[w].scenario = worker[w].scenario
  /\ \/ /\ worker'[w].pc \in {"rollout", "put"} <=> worker[w].pc \in {"rollout", "put"}
        /\ worker[w].pc \in {"rollout", "put"} => worker'[w].version = worker[w].version
     \/ StartRollout(w)
  /\ UNCHANGED <<policy_version, scenario_offset, fate, output_queue, trainVars>>

LEMMA WorkerDoes ==
  ASSUME TypeOK, NEW w \in Workers, WorkerStep(w)
  PROVE  TakeScenario(w) \/ Retires(w) \/ Delivers(w) \/ GoesOn(w)
<1>t. worker \in [Workers -> Worker]
  BY DEF TypeOK, RolloutTypeOK
<1>1. CASE ScenariosExhausted(w)
  BY <1>1, <1>t DEF ScenariosExhausted, GoesOn, WorkerAt, HeldPc, stateVars,
                    queueVars, Worker
<1>2. CASE WaitForPolicy(w)
  BY <1>2, <1>t DEF WaitForPolicy, GoesOn, HeldPc, stateVars, queueVars, Worker
<1>3. CASE StartRollout(w)
  <2>1. /\ \A v \in Workers \ {w} : worker'[v] = worker[v]
        /\ worker[w].pc = "check" /\ worker'[w].pc = "rollout"
        /\ worker'[w].scenario = worker[w].scenario
    BY <1>3, <1>t DEF StartRollout, Worker
  <2> QED
    BY <1>3, <2>1 DEF StartRollout, GoesOn, HeldPc, stateVars, queueVars
<1>4. CASE GiveUpScenario(w) \/ PutTimesOut(w) \/ RolloutFails(w)
  <2>1. /\ \A v \in Workers \ {w} : worker'[v] = worker[v]
        /\ worker[w].pc \in HeldPc /\ worker'[w].pc \notin HeldPc
    BY <1>4, <1>t DEF GiveUpScenario, PutTimesOut, RolloutFails, HeldPc,
                      WorkerAt, NextIteration, Worker
  <2> QED
    BY <1>4, <2>1 DEF GiveUpScenario, PutTimesOut, RolloutFails, Retires,
                      stateVars, queueVars
<1>5. ASSUME NEW outcome \in Outcomes, RolloutReturns(w, outcome)
      PROVE  Retires(w) \/ Delivers(w) \/ GoesOn(w)
  <2>0. worker[w].pc = "rollout" /\ UNCHANGED <<policy_version, scenario_offset, trainVars>>
    BY <1>5 DEF RolloutReturns, stateVars
  <2>1. CASE done
    BY <1>5, <1>t, <2>0, <2>1 DEF RolloutReturns, Retires, HeldPc, WorkerAt, Worker
  <2>2. CASE ~done /\ HasRoom
    BY <1>5, <1>t, <2>0, <2>2, PipelineAssumption
       DEF RolloutReturns, Delivers, HeldPc, WorkerAt, Worker
  <2>3. CASE ~done /\ ~HasRoom
    <3>1. /\ \A v \in Workers \ {w} : worker'[v] = worker[v]
          /\ worker'[w].pc = "put" /\ worker'[w].scenario = worker[w].scenario
          /\ worker'[w].version = worker[w].version
      BY <1>5, <1>t, <2>3 DEF RolloutReturns, Worker
    <3> QED
      BY <1>5, <2>0, <2>3, <3>1 DEF RolloutReturns, GoesOn, HeldPc
  <2> QED
    BY <2>1, <2>2, <2>3
<1>6. CASE PutGroup(w)
  <2>1. /\ \A v \in Workers \ {w} : worker'[v] = worker[v]
        /\ worker'[w].pc \notin HeldPc
    BY <1>6, <1>t DEF PutGroup, HeldPc, WorkerAt, NextIteration, Worker
  <2>2. worker[w].kind \in GroupKinds
    BY <1>t DEF Worker
  <2> QED
    BY <1>6, <2>1, <2>2 DEF PutGroup, Delivers, stateVars
<1> QED
  BY <1>1, <1>2, <1>3, <1>4, <1>5, <1>6 DEF WorkerStep

LEMMA PlacesWorker ==
  ASSUME PlacesInv, OffPolicyInv', NEW w \in Workers, WorkerStep(w)
  PROVE  PlacesInv'
<1>t. /\ TypeOK /\ worker \in [Workers -> Worker]
      /\ fate \in [Scenarios -> Fates] /\ scenario_offset \in 0..NumScenarios
      /\ worker[w].scenario \in 0..NumScenarios
  BY DEF PlacesInv, OffPolicyInv, TypeOK, RolloutTypeOK, StateTypeOK, Worker
<1>i. /\ \A s \in Scenarios : OnePlace(s)
      /\ LaterUntouched /\ RealScenarios /\ TrainsSomething
  BY DEF PlacesInv
<1>1. CASE TakeScenario(w)
  <2>1. /\ \A v \in Workers \ {w} : worker'[v] = worker[v]
        /\ worker[w].pc = "fetch" /\ worker'[w].pc = "check"
        /\ worker'[w].scenario = scenario_offset + 1
        /\ scenario_offset' = scenario_offset + 1
        /\ scenario_offset + 1 \in Scenarios
        /\ UNCHANGED <<fate, output_queue, tpc, batch>>
    BY <1>1, <1>t, PipelineAssumption
       DEF TakeScenario, Worker, trainVars, queueVars, Scenarios
  <2>2. ASSUME NEW s \in Scenarios PROVE OnePlace(s)'
    <3>1. Queued(s)' = Queued(s) /\ InBatchAt(s)' = InBatchAt(s)
      BY <2>1 DEF Queued, InBatchAt
    <3>2. HeldByWorkers(s)' =
            HeldByWorkers(s) \cup (IF s = scenario_offset + 1 THEN {w} ELSE {})
      BY <2>1 DEF HeldByWorkers
    <3>3. CASE s = scenario_offset + 1
      <4>1. fate[s] = "none" /\ ~Live(s) /\ Live(s)'
        BY <1>i, <1>t, <2>1, <3>3, PipelineAssumption DEF LaterUntouched, Live
      <4>2. HeldByWorkers(s) = {} /\ Queued(s) = {} /\ InBatchAt(s) = {}
        BY <1>i, <4>1 DEF OnePlace
      <4> QED
        BY <3>1, <3>2, <3>3, <4>1, <4>2 DEF OnePlace, AtMostOne
    <3>4. CASE s # scenario_offset + 1
      <4>1. Live(s)' <=> Live(s)
        BY <1>t, <2>1, <3>4, PipelineAssumption DEF Live, Scenarios
      <4> QED
        BY <1>i, <3>1, <3>2, <3>4, <4>1 DEF OnePlace, AtMostOne
    <3> QED
      BY <3>3, <3>4
  <2>3. LaterUntouched'
    BY <1>i, <1>t, <2>1, PipelineAssumption DEF LaterUntouched, Scenarios
  <2>4. RealScenarios' /\ TrainsSomething'
    BY <1>i, <1>t, <2>1 DEF RealScenarios, TrainsSomething
  <2> QED
    BY <2>2, <2>3, <2>4 DEF PlacesInv
<1>2. CASE Retires(w)
  <2>0. PICK end \in {"dropped", "error"} :
          fate' = [fate EXCEPT ![worker[w].scenario] = end]
    BY <1>2 DEF Retires
  <2>1. /\ \A v \in Workers \ {w} : worker'[v] = worker[v]
        /\ worker[w].pc \in HeldPc /\ worker'[w].pc \notin HeldPc
        /\ UNCHANGED <<scenario_offset, output_queue, tpc, batch>>
        /\ worker[w].scenario \in Scenarios
    BY <1>2, <1>t, <1>i, PipelineAssumption
       DEF Retires, trainVars, RealScenarios, Scenarios
  <2>2. ASSUME NEW s \in Scenarios PROVE OnePlace(s)'
    <3>1. Queued(s)' = Queued(s) /\ InBatchAt(s)' = InBatchAt(s)
      BY <2>1 DEF Queued, InBatchAt
    <3>2. HeldByWorkers(s)' = HeldByWorkers(s) \ {w}
          /\ (w \in HeldByWorkers(s) <=> worker[w].scenario = s)
      BY <2>1 DEF HeldByWorkers, HeldPc
    <3>3. CASE s = worker[w].scenario
      <4>1. fate'[s] # "none"
        BY <1>t, <2>0, <3>3
      <4> QED
        BY <1>i, <3>1, <3>2, <3>3, <4>1 DEF OnePlace, AtMostOne, Live
    <3>4. CASE s # worker[w].scenario
      <4>1. fate'[s] = fate[s]
        BY <1>t, <2>0, <3>4
      <4> QED
        BY <1>i, <2>1, <3>1, <3>2, <3>4, <4>1 DEF OnePlace, AtMostOne, Live
    <3> QED
      BY <3>3, <3>4
  <2>3. LaterUntouched'
    <3>1. Live(worker[w].scenario)
      <4>1. w \in HeldByWorkers(worker[w].scenario)
        BY <2>1 DEF HeldByWorkers, HeldPc
      <4> QED
        BY <1>i, <2>1, <4>1 DEF OnePlace
    <3> QED
      BY <1>i, <1>t, <2>0, <2>1, <3>1, PipelineAssumption
         DEF LaterUntouched, Live, Scenarios
  <2>4. RealScenarios' /\ TrainsSomething'
    BY <1>i, <2>1 DEF RealScenarios, TrainsSomething
  <2> QED
    BY <2>2, <2>3, <2>4 DEF PlacesInv
<1>3. CASE Delivers(w)
  <2>0. PICK outcome \in GroupKinds :
          output_queue' = Append(output_queue, GroupOf(w, outcome))
    BY <1>3 DEF Delivers
  <2>1. /\ \A v \in Workers \ {w} : worker'[v] = worker[v]
        /\ worker[w].pc \in HeldPc /\ worker'[w].pc \notin HeldPc
        /\ UNCHANGED <<scenario_offset, fate, tpc, batch>>
        /\ worker[w].scenario # 0
    BY <1>3, <1>i DEF Delivers, trainVars, RealScenarios, HeldPc
  <2>2. GroupOf(w, outcome) \in Group /\ GroupOf(w, outcome).scenario = worker[w].scenario
    BY <1>t, GroupOfType DEF TypeOK, GroupOf
  <2>3. ASSUME NEW s \in Scenarios PROVE OnePlace(s)'
    <3>1. InBatchAt(s)' = InBatchAt(s) /\ (Live(s)' <=> Live(s))
      BY <2>1 DEF InBatchAt, Live
    <3>2. HeldByWorkers(s)' = HeldByWorkers(s) \ {w}
          /\ (w \in HeldByWorkers(s) <=> worker[w].scenario = s)
      BY <2>1 DEF HeldByWorkers, HeldPc
    <3>3. Queued(s)' = Queued(s) \cup
            (IF worker[w].scenario = s THEN {Len(output_queue) + 1} ELSE {})
      BY <1>t, <2>0, <2>2, QueuedAppended DEF TypeOK
    <3> QED
      BY <1>i, <3>1, <3>2, <3>3 DEF OnePlace, AtMostOne
  <2>4. RealScenarios'
    BY <1>i, <1>t, <2>0, <2>1, <2>2, QueueScenarios DEF RealScenarios
  <2> QED
    BY <1>i, <2>1, <2>3, <2>4 DEF PlacesInv, LaterUntouched, TrainsSomething
<1>4. CASE GoesOn(w)
  <2>1. \A s \in Scenarios : InBatchAt(s)' = InBatchAt(s)
    BY <1>4 DEF GoesOn, trainVars, InBatchAt
  <2>2. TrainsSomething' /\ \A i \in DOMAIN batch' : batch'[i].scenario # 0
    BY <1>4, <1>i DEF GoesOn, trainVars, RealScenarios, TrainsSomething
  <2> QED
    BY <1>4, <2>1, <2>2, PlacesElsewhere DEF GoesOn
<1> QED
  BY <1>t, <1>1, <1>2, <1>3, <1>4, WorkerDoes

-----------------------------------------------------------------------------
(* The trainer. *)

LEMMA BatchPlaces ==
  ASSUME tpc \in {"collect", "drain", "train"}
  PROVE  \A s : InBatch(s) <=> InBatchAt(s) # {}
  BY DEF InBatch, InBatchAt

(* The item that is dequeued was all there was of its scenario. *)
LEMMA ItemAlone ==
  ASSUME PlacesInv, Dequeue, Item.kind # "sentinel"
  PROVE  /\ Item \in Group /\ Item.scenario \in Scenarios
         /\ Live(Item.scenario)
         /\ HeldByWorkers(Item.scenario) = {} /\ InBatchAt(Item.scenario) = {}
<1>1. output_queue \in Seq(Group) /\ output_queue # <<>>
  BY DEF PlacesInv, OffPolicyInv, TypeOK, QueueTypeOK, Dequeue
<1>2. 1 \in DOMAIN output_queue /\ Item = output_queue[1] /\ Item \in Group
  BY <1>1 DEF Item
<1>3. Item.scenario \in Scenarios
  BY <1>2, PipelineAssumption DEF PlacesInv, RealScenarios, Group, Scenarios
<1>4. Queued(Item.scenario) # {}
  BY <1>2 DEF Queued
<1> QED
  BY <1>2, <1>3, <1>4 DEF PlacesInv, OnePlace

LEMMA PlacesCollect ==
  ASSUME PlacesInv, OffPolicyInv', CollectStep, ~CollectSuspends
  PROVE  PlacesInv'
<1>t. /\ TypeOK /\ QueueTypeOK /\ batch \in Seq(Group)
      /\ fate \in [Scenarios -> Fates] /\ scenario_offset \in 0..NumScenarios
  BY DEF PlacesInv, OffPolicyInv, TypeOK, TrainTypeOK, StateTypeOK
<1>i. /\ \A s \in Scenarios : OnePlace(s)
      /\ LaterUntouched /\ RealScenarios
  BY DEF PlacesInv
<1>1. /\ Dequeue /\ UNCHANGED <<worker, scenario_offset>>
      /\ tpc \in {"collect", "drain"} /\ tpc' # "train"
  BY DEF CollectStep, CollectSentinel, CollectAllFailed, CollectStale,
         CollectZeroVariance, CollectGroup, Dequeue, stateVars, rolloutVars
<1>2. \A s : HeldByWorkers(s)' = HeldByWorkers(s)
  BY <1>1 DEF HeldByWorkers
<1>3. \A s \in Scenarios :
        /\ AtMostOne(Queued(s)')
        /\ Item.scenario = s => Queued(s) # {} /\ Queued(s)' = {}
        /\ Item.scenario # s => (Queued(s)' = {} <=> Queued(s) = {})
  BY <1>i, <1>1, <1>t, QueuedShifted DEF OnePlace
<1>4. \A i \in DOMAIN output_queue' :
        output_queue'[i].kind # "sentinel" => output_queue'[i].scenario # 0
  <2>1. output_queue \in Seq(Group) /\ output_queue # <<>>
        /\ output_queue' = Tail(output_queue)
    BY <1>1, <1>t DEF QueueTypeOK, Dequeue
  <2>2. \A i \in DOMAIN output_queue' :
          i + 1 \in DOMAIN output_queue /\ output_queue'[i] = output_queue[i + 1]
    BY <2>1
  <2> QED
    BY <1>i, <2>2 DEF RealScenarios
<1>b. \A s : InBatch(s) <=> InBatchAt(s) # {}
  BY <1>1, BatchPlaces
\* A scenario whose fate is sealed by this step is nowhere after it.
<1>5. ASSUME batch' \in {batch, <<>>},
             \A s \in Scenarios :
               \/ fate'[s] # "none" /\ Live(s)
                  /\ HeldByWorkers(s) = {} /\ Queued(s)' = {} /\ InBatchAt(s)' = {}
               \/ fate'[s] = fate[s] /\ Item.scenario # s
                  /\ InBatchAt(s)' = InBatchAt(s)
      PROVE  PlacesInv'
  <2>1. ASSUME NEW s \in Scenarios PROVE OnePlace(s)'
    <3>1. CASE fate'[s] # "none" /\ Live(s)
               /\ HeldByWorkers(s) = {} /\ Queued(s)' = {} /\ InBatchAt(s)' = {}
      BY <1>2, <3>1 DEF OnePlace, AtMostOne, Live
    <3>2. CASE fate'[s] = fate[s] /\ Item.scenario # s
               /\ InBatchAt(s)' = InBatchAt(s)
      BY <1>i, <1>1, <1>2, <1>3, <3>2 DEF OnePlace, AtMostOne, Live
    <3> QED
      BY <1>5, <3>1, <3>2
  <2>2. LaterUntouched'
    BY <1>5, <1>i, <1>1, <1>t, PipelineAssumption
       DEF LaterUntouched, Live, Scenarios
  <2>3. RealScenarios'
    BY <1>5, <1>i, <1>1, <1>4 DEF RealScenarios
  <2> QED
    BY <1>1, <2>1, <2>2, <2>3 DEF PlacesInv, TrainsSomething
<1>6. CASE CollectSentinel
  <2>1. \A s \in Scenarios : InBatchAt(s)' = InBatchAt(s)
    BY <1>1, <1>6 DEF CollectSentinel, InBatchAt
  <2>2. \A s \in Scenarios : Item.scenario # s
    BY <1>6, PipelineAssumption DEF CollectSentinel, Sentinel, Scenarios
  <2> QED
    BY <1>5, <1>6, <2>1, <2>2 DEF CollectSentinel
<1>7. CASE CollectStale \/ (CollectZeroVariance /\ tpc' = "drain")
  <2>1. Item.kind # "sentinel" /\ UNCHANGED batch /\ tpc' = "drain"
        /\ \E end \in {"stale", "zero"} :
             fate' = [fate EXCEPT ![Item.scenario] = end]
    BY <1>7 DEF CollectStale, CollectZeroVariance
  <2>2. \A s \in Scenarios : InBatchAt(s)' = InBatchAt(s)
    BY <1>1, <2>1 DEF InBatchAt
  <2>3. \A s \in Scenarios :
          \/ fate'[s] # "none" /\ Live(s)
             /\ HeldByWorkers(s) = {} /\ Queued(s)' = {} /\ InBatchAt(s)' = {}
          \/ fate'[s] = fate[s] /\ Item.scenario # s
             /\ InBatchAt(s)' = InBatchAt(s)
    BY <1>1, <1>3, <1>t, <2>1, <2>2, ItemAlone
  <2> QED
    BY <1>5, <2>1, <2>3
<1>8. CASE CollectAllFailed \/ (CollectZeroVariance /\ tpc' = "finish")
  <2>1. Item.kind # "sentinel" /\ batch' \in {batch, <<>>}
        /\ tpc' \in {"failed", "finish"}
        /\ \E end \in {"error", "zero"} :
             fate' = [BatchFate("dropped") EXCEPT ![Item.scenario] = end]
    BY <1>8 DEF CollectAllFailed, CollectZeroVariance
  <2>2. \A s \in Scenarios : InBatchAt(s)' = {}
    BY <2>1 DEF InBatchAt
  <2>3. \A s \in Scenarios \ {Item.scenario} :
          fate'[s] = IF InBatch(s) THEN "dropped" ELSE fate[s]
    BY <2>1 DEF BatchFate
  <2>4. Item.scenario \in Scenarios /\ fate'[Item.scenario] # "none"
    BY <1>1, <2>1, ItemAlone DEF BatchFate
  <2>5. \A s \in Scenarios :
          \/ fate'[s] # "none" /\ Live(s)
             /\ HeldByWorkers(s) = {} /\ Queued(s)' = {} /\ InBatchAt(s)' = {}
          \/ fate'[s] = fate[s] /\ Item.scenario # s
             /\ InBatchAt(s)' = InBatchAt(s)
    <3> TAKE s \in Scenarios
    <3>1. CASE s = Item.scenario
      BY <1>1, <1>3, <2>1, <2>2, <2>4, <3>1, ItemAlone
    <3>2. CASE s # Item.scenario /\ InBatch(s)
      <4>1. Live(s) /\ HeldByWorkers(s) = {} /\ Queued(s) = {}
        BY <1>b, <1>i, <3>2 DEF OnePlace
      <4> QED
        BY <1>3, <2>2, <2>3, <3>2, <4>1
    <3>3. CASE s # Item.scenario /\ ~InBatch(s)
      BY <1>b, <2>2, <2>3, <3>3
    <3> QED
      BY <3>1, <3>2, <3>3
  <2> QED
    BY <1>5, <2>1, <2>5
<1>9. CASE CollectGroup
  <2>1. /\ Item.kind # "sentinel" /\ batch' = Append(batch, Item)
        /\ tpc' = "drain" /\ UNCHANGED fate
    BY <1>9 DEF CollectGroup
  <2>2. /\ Item \in Group /\ Item.scenario \in Scenarios
        /\ Live(Item.scenario)
        /\ HeldByWorkers(Item.scenario) = {} /\ InBatchAt(Item.scenario) = {}
    BY <1>1, <2>1, ItemAlone
  <2>3. \A s \in Scenarios : InBatchAt(s)' = InBatchAt(s) \cup
          (IF Item.scenario = s THEN {Len(batch) + 1} ELSE {})
    BY <1>1, <1>t, <2>1, <2>2, BatchAppended
  <2>4. ASSUME NEW s \in Scenarios PROVE OnePlace(s)'
    <3>1. Live(s)' <=> Live(s)
      BY <1>1, <2>1 DEF Live
    <3>2. CASE s = Item.scenario
      BY <1>2, <1>3, <2>2, <2>3, <3>1, <3>2 DEF OnePlace, AtMostOne
    <3>3. CASE s # Item.scenario
      BY <1>i, <1>2, <1>3, <2>3, <3>1, <3>3 DEF OnePlace, AtMostOne
    <3> QED
      BY <3>2, <3>3
  <2>5. \A i \in DOMAIN batch' : batch'[i].scenario # 0
    <3>1. \A i \in DOMAIN batch : batch[i].scenario # 0
      BY <1>i DEF RealScenarios
    <3>2. Item.scenario # 0
      BY <2>2, PipelineAssumption DEF Scenarios
    <3> QED
      BY <1>t, <2>1, <2>2, <3>1, <3>2
  <2>6. RealScenarios'
    BY <1>i, <1>1, <1>4, <2>5 DEF RealScenarios
  <2> QED
    BY <1>i, <1>1, <2>1, <2>4, <2>6 DEF PlacesInv, LaterUntouched, TrainsSomething
<1> QED
  BY <1>6, <1>7, <1>8, <1>9 DEF CollectStep, CollectZeroVariance

(* The batch meets its end: it was trained on, or the training raised. *)
LEMMA PlacesTrained ==
  ASSUME PlacesInv, OffPolicyInv', NEW end \in {"trained", "dropped"},
         tpc = "train", tpc' \in {"prune", "failed"}, fate' = BatchFate(end),
         UNCHANGED <<worker, output_queue, scenario_offset, batch>>
  PROVE  PlacesInv'
<1>i. /\ \A s \in Scenarios : OnePlace(s)
      /\ LaterUntouched /\ RealScenarios /\ scenario_offset \in 0..NumScenarios
  BY DEF PlacesInv, OffPolicyInv, TypeOK, StateTypeOK
<1>1. \A s \in Scenarios :
        /\ HeldByWorkers(s)' = HeldByWorkers(s) /\ Queued(s)' = Queued(s)
        /\ InBatchAt(s)' = {}
  BY DEF HeldByWorkers, Queued, InBatchAt
<1>2. \A s \in Scenarios : fate'[s] = IF InBatch(s) THEN end ELSE fate[s]
  BY DEF BatchFate
<1>3. \A s : InBatch(s) <=> InBatchAt(s) # {}
  BY BatchPlaces
<1>4. ASSUME NEW s \in Scenarios PROVE OnePlace(s)'
  BY <1>i, <1>1, <1>2, <1>3 DEF OnePlace, AtMostOne, Live
<1>5. LaterUntouched'
  BY <1>i, <1>2, <1>3, PipelineAssumption
     DEF LaterUntouched, OnePlace, Live, Scenarios
<1> QED
  BY <1>i, <1>4, <1>5 DEF PlacesInv, RealScenarios, TrainsSomething

LEMMA PlacesNext == PlacesInv /\ [Next]_vars => PlacesInv'
<1> SUFFICES ASSUME PlacesInv, [Next]_vars PROVE PlacesInv'
  OBVIOUS
<1>0. OffPolicyInv'
  BY OffPolicyNext DEF PlacesInv
<1>1. CASE UNCHANGED vars
  <2>1. UNCHANGED <<scenario_offset, fate, worker, output_queue, batch, tpc>>
    BY <1>1 DEF vars, stateVars, rolloutVars, queueVars, trainVars
  <2>2. \A s \in Scenarios : InBatchAt(s)' = InBatchAt(s)
    BY <2>1 DEF InBatchAt
  <2> QED
    BY <1>0, <2>1, <2>2, PlacesElsewhere
       DEF PlacesInv, RealScenarios, TrainsSomething
<1>2. ASSUME NEW w \in Workers, WorkerStep(w) PROVE PlacesInv'
  BY <1>0, <1>2, PlacesWorker
<1>3. CASE Shuffles
  BY <1>0, <1>3, PlacesShuffled
<1>4. CASE CollectStep /\ ~CollectSuspends
  BY <1>0, <1>4, PlacesCollect
<1>5. ASSUME NEW step \in Steps, TrainReturns(step) PROVE PlacesInv'
  BY <1>0, <1>5, PlacesTrained DEF TrainReturns, queueVars, rolloutVars
<1>6. CASE TrainingRaises /\ tpc = "train"
  BY <1>0, <1>6, PlacesTrained DEF TrainingRaises, stateVars, queueVars,
                                   rolloutVars
<1> QED
  BY <1>1, <1>2, <1>3, <1>4, <1>5, <1>6
     DEF Next, System, TaskStep, TrainingStep, BackendStep, Returned, Shuffles

LEMMA PlacesAlways == Spec => []PlacesInv
  BY PlacesInit, PlacesNext, PTL DEF Spec

(* Every scenario taken from the iterator is in exactly one place - a        *)
(* worker, the queue, the batch - until one thing becomes of it, and in none *)
(* before and after, for any number of workers and any size of queue and     *)
(* batch; and none is dropped before the run is ending (_rollout_worker,     *)
(* _put_output_group, _collect_batch).                                       *)
THEOREM ScenariosAreAccountedFor == Spec => []ScenariosAccountedFor
<1>1. ASSUME NEW S, AtMostOne(S) PROVE Cardinality(S) = IF S = {} THEN 0 ELSE 1
  <2>1. CASE S = {}
    BY <2>1, FS_EmptySet
  <2>2. CASE S # {}
    <3>1. PICK x \in S : TRUE
      BY <2>2
    <3>2. S = {x}
      BY <1>1, <3>1 DEF AtMostOne
    <3> QED
      BY <2>2, <3>2, FS_Singleton
  <2> QED
    BY <2>1, <2>2
<1>2. PlacesInv /\ DroppedOnlyWhenEnding => ScenariosAccountedFor
  <2> SUFFICES ASSUME PlacesInv, NEW s \in Scenarios
               PROVE  Cardinality(HeldByWorkers(s)) + Cardinality(Queued(s))
                        + Cardinality(InBatchAt(s)) =
                      IF s <= scenario_offset /\ fate[s] = "none" THEN 1 ELSE 0
    BY DEF ScenariosAccountedFor
  <2>1. OnePlace(s)
    BY DEF PlacesInv
  <2>2. /\ Cardinality(HeldByWorkers(s)) = IF HeldByWorkers(s) = {} THEN 0 ELSE 1
        /\ Cardinality(Queued(s)) = IF Queued(s) = {} THEN 0 ELSE 1
        /\ Cardinality(InBatchAt(s)) = IF InBatchAt(s) = {} THEN 0 ELSE 1
    BY <1>1, <2>1 DEF OnePlace
  <2> QED
    BY <2>1, <2>2 DEF OnePlace, Live
<1> QED
  BY <1>2, PlacesAlways, DropsOnlyAtEnd, PTL

-----------------------------------------------------------------------------
(* PipelineTrainer implements OffPolicyTraining.                             *)

RolloutPc == {"rollout", "put"}

\* What the abstract state says of a scenario, from its fate and the versions
\* it was rolled out with.
TheVersion(versions) == CHOOSE v \in versions : TRUE

DataFor(end, versions) ==
  IF end = "trained" THEN Abstract!Trained
  ELSE IF end # "none" THEN Abstract!Lost
  ELSE IF versions = {} THEN Abstract!Unused
  ELSE Abstract!RolledOut(TheVersion(versions))

LEMMA DataNow == \A s : DataOf(s) = DataFor(fate[s], RolloutVersions(s))
  BY DEF DataOf, DataFor, TheVersion, Abstract!Trained, Abstract!Lost,
         Abstract!Unused, Abstract!RolledOut

LEMMA DataThen == \A s : DataOf(s)' = DataFor(fate'[s], RolloutVersions(s)')
  BY DEF DataOf, DataFor, TheVersion, Abstract!Trained, Abstract!Lost,
         Abstract!Unused, Abstract!RolledOut

LEMMA TheOnlyVersion ==
  ASSUME NEW S, AtMostOne(S), NEW v \in S
  PROVE  TheVersion(S) = v
  BY DEF TheVersion, AtMostOne

QueueVersions(s) == {output_queue[i].version : i \in Queued(s)}
BatchVersions(s) == {batch[i].version : i \in InBatchAt(s)}

LEMMA VersionsNow ==
  \A s, v : v \in RolloutVersions(s) <=>
    \/ \E w \in Workers : /\ worker[w].pc \in RolloutPc
                          /\ worker[w].scenario = s /\ worker[w].version = v
    \/ v \in QueueVersions(s) \/ v \in BatchVersions(s)
  BY DEF RolloutVersions, RolloutPc, QueueVersions, BatchVersions

LEMMA VersionsThen ==
  \A s, v : v \in RolloutVersions(s)' <=>
    \/ \E w \in Workers : /\ worker'[w].pc \in RolloutPc
                          /\ worker'[w].scenario = s /\ worker'[w].version = v
    \/ v \in QueueVersions(s)' \/ v \in BatchVersions(s)'
  BY DEF RolloutVersions, RolloutPc, QueueVersions, BatchVersions

LEMMA OneVersion ==
  ASSUME NEW s, OnePlace(s)
  PROVE  AtMostOne(RolloutVersions(s))
<1>1. \A v \in RolloutVersions(s) :
        \/ \E w \in HeldByWorkers(s) : worker[w].version = v
        \/ \E i \in Queued(s) : output_queue[i].version = v
        \/ \E i \in InBatchAt(s) : batch[i].version = v
  BY VersionsNow DEF HeldByWorkers, RolloutPc, QueueVersions, BatchVersions
<1> QED
  BY <1>1 DEF OnePlace, AtMostOne

(* A step that gives up some scenarios, or none, and leaves the others with  *)
(* the version they were rolled out with.                                    *)
LEMMA GivesUp ==
  ASSUME policy_version' = policy_version,
         \A s \in Scenarios :
           \/ fate'[s] = fate[s] /\ RolloutVersions(s)' = RolloutVersions(s)
           \/ fate[s] = "none" /\ fate'[s] \notin {"none", "trained"}
  PROVE  Abstract!AbsNext
<1> DEFINE gone == {s \in Scenarios :
                      fate[s] = "none" /\ fate'[s] \notin {"none", "trained"}}
<1>1. ASSUME NEW s \in Scenarios
      PROVE  DataOf(s)' = IF s \in gone THEN Abstract!Lost ELSE DataOf(s)
  <2>1. CASE s \in gone
    BY <2>1, DataThen DEF DataFor
  <2>2. CASE s \notin gone
    <3>1. fate'[s] = fate[s] /\ RolloutVersions(s)' = RolloutVersions(s)
      BY <2>2
    <3> QED
      BY <2>2, <3>1, DataNow, DataThen
  <2> QED
    BY <2>1, <2>2
<1>2. ASSUME NEW s \in gone PROVE DataOf(s).at \in {"unused", "rolled_out"}
  BY <1>2, DataNow DEF DataFor, Abstract!Unused, Abstract!RolledOut
<1>3. gone \in SUBSET Scenarios
  OBVIOUS
<1> HIDE DEF gone
<1>4. Abstract!GiveUp(gone)
  BY <1>1, <1>2, <1>3 DEF Abstract!GiveUp
<1> QED
  BY <1>3, <1>4 DEF Abstract!AbsNext

(* A step that moves groups at most.                                         *)
LEMMA Keeps ==
  ASSUME policy_version' = policy_version, fate' = fate,
         \A s \in Scenarios : RolloutVersions(s)' = RolloutVersions(s)
  PROVE  Abstract!AbsNext
  BY GivesUp

LEMMA QueueVersionsAppended ==
  ASSUME QueueTypeOK, NEW g \in Group, output_queue' = Append(output_queue, g),
         NEW s \in Scenarios
  PROVE  QueueVersions(s)' = QueueVersions(s) \cup
           (IF g.scenario = s THEN {g.version} ELSE {})
<1>1. output_queue \in Seq(Group)
  BY DEF QueueTypeOK
<1>2. /\ DOMAIN output_queue = 1..Len(output_queue) /\ Len(output_queue) \in Nat
      /\ \A i \in DOMAIN output_queue : output_queue'[i] = output_queue[i]
      /\ output_queue'[Len(output_queue) + 1] = g
  BY <1>1
<1>3. \A i \in Queued(s) : output_queue'[i] = output_queue[i]
  BY <1>2 DEF Queued
<1>4. Queued(s)' = Queued(s) \cup
        (IF g.scenario = s THEN {Len(output_queue) + 1} ELSE {})
  BY QueuedAppended
<1>5. QueueVersions(s)' = {output_queue'[i].version : i \in Queued(s)'}
  BY DEF QueueVersions
<1>6. CASE g.scenario = s
  <2>1. Len(output_queue) + 1 \in Queued(s)' /\ output_queue'[Len(output_queue) + 1] = g
    BY <1>2, <1>4, <1>6
  <2>2. g.version \in QueueVersions(s)'
    BY <1>5, <2>1
  <2>3. ASSUME NEW v \in QueueVersions(s) PROVE v \in QueueVersions(s)'
    BY <1>3, <1>4, <1>5, <2>3 DEF QueueVersions
  <2>4. ASSUME NEW v \in QueueVersions(s)' PROVE v \in QueueVersions(s) \cup {g.version}
    <3>1. PICK i \in Queued(s)' : v = output_queue'[i].version
      BY <1>5, <2>4
    <3> QED
      BY <1>2, <1>3, <1>4, <1>6, <3>1 DEF QueueVersions
  <2> QED
    BY <1>6, <2>2, <2>3, <2>4
<1>7. CASE g.scenario # s
  BY <1>3, <1>4, <1>5, <1>7 DEF QueueVersions
<1> QED
  BY <1>6, <1>7

LEMMA QueueVersionsShifted ==
  ASSUME QueueTypeOK, Dequeue, NEW s \in Scenarios
  PROVE  QueueVersions(s) = QueueVersions(s)' \cup
           (IF Item.scenario = s THEN {Item.version} ELSE {})
<1>1. output_queue \in Seq(Group) /\ output_queue # <<>>
      /\ output_queue' = Tail(output_queue)
  BY DEF QueueTypeOK, Dequeue
<1>2. /\ DOMAIN output_queue = 1..Len(output_queue)
      /\ Len(output_queue) \in Nat \ {0}
      /\ DOMAIN output_queue' = 1..(Len(output_queue) - 1)
      /\ \A i \in DOMAIN output_queue' : output_queue'[i] = output_queue[i + 1]
      /\ Item = output_queue[1]
  BY <1>1 DEF Item
<1>3. 1 \in Queued(s) <=> Item.scenario = s
  BY <1>2 DEF Queued
<1>4. \A i \in Queued(s)' : i + 1 \in Queued(s)
                            /\ output_queue'[i] = output_queue[i + 1]
  BY <1>2 DEF Queued
<1>5. \A i \in Queued(s) : i # 1 => /\ i - 1 \in Queued(s)'
                                    /\ output_queue'[i - 1] = output_queue[i]
  BY <1>2 DEF Queued
<1> QED
  BY <1>2, <1>3, <1>4, <1>5 DEF QueueVersions

LEMMA BatchVersionsAppended ==
  ASSUME batch \in Seq(Group), NEW g \in Group, batch' = Append(batch, g),
         tpc \in {"collect", "drain"}, tpc' = "drain", NEW s \in Scenarios
  PROVE  BatchVersions(s)' = BatchVersions(s) \cup
           (IF g.scenario = s THEN {g.version} ELSE {})
<1>2. /\ DOMAIN batch = 1..Len(batch) /\ Len(batch) \in Nat
      /\ \A i \in DOMAIN batch : batch'[i] = batch[i]
      /\ batch'[Len(batch) + 1] = g
  OBVIOUS
<1>3. \A i \in InBatchAt(s) : batch'[i] = batch[i]
  BY <1>2 DEF InBatchAt
<1>4. InBatchAt(s)' = InBatchAt(s) \cup
        (IF g.scenario = s THEN {Len(batch) + 1} ELSE {})
  BY BatchAppended
<1>5. BatchVersions(s)' = {batch'[i].version : i \in InBatchAt(s)'}
  BY DEF BatchVersions
<1>6. CASE g.scenario = s
  <2>1. Len(batch) + 1 \in InBatchAt(s)' /\ batch'[Len(batch) + 1] = g
    BY <1>2, <1>4, <1>6
  <2>2. g.version \in BatchVersions(s)'
    BY <1>5, <2>1
  <2>3. ASSUME NEW v \in BatchVersions(s) PROVE v \in BatchVersions(s)'
    BY <1>3, <1>4, <1>5, <2>3 DEF BatchVersions
  <2>4. ASSUME NEW v \in BatchVersions(s)' PROVE v \in BatchVersions(s) \cup {g.version}
    <3>1. PICK i \in InBatchAt(s)' : v = batch'[i].version
      BY <1>5, <2>4
    <3> QED
      BY <1>2, <1>3, <1>4, <1>6, <3>1 DEF BatchVersions
  <2> QED
    BY <1>6, <2>2, <2>3, <2>4
<1>7. CASE g.scenario # s
  BY <1>3, <1>4, <1>5, <1>7 DEF BatchVersions
<1> QED
  BY <1>6, <1>7

LEMMA ShufflesMap ==
  ASSUME PlacesInv, Shuffles
  PROVE  Abstract!AbsNext
<1>t. TypeOK
  BY DEF PlacesInv, OffPolicyInv
<1>q. QueueTypeOK
  BY <1>t DEF TypeOK
<1>1. \A w \in Workers :
        /\ worker'[w].scenario = worker[w].scenario
        /\ worker'[w].version = worker[w].version
        /\ worker'[w].pc \in RolloutPc <=> worker[w].pc \in RolloutPc
  BY <1>t, ShufflesKeep, WokenPlaces DEF RolloutPc
<1>2. ASSUME NEW s \in Scenarios
      PROVE  RolloutVersions(s)' = RolloutVersions(s)
  <2>1. QueueVersions(s)' = QueueVersions(s)
    <3>1. CASE output_queue' = output_queue
      BY <3>1 DEF QueueVersions, Queued
    <3>2. CASE output_queue' = Append(output_queue, Sentinel)
      <4>1. Sentinel.scenario # s
        BY PipelineAssumption DEF Sentinel, Scenarios
      <4> QED
        BY <1>q, <3>2, <4>1, QueueVersionsAppended, SentinelType
    <3> QED
      BY <3>1, <3>2, ShufflesKeep
  <2>2. BatchVersions(s)' = BatchVersions(s)
    BY ShufflesKeep DEF BatchVersions
  <2>3. \A v : v \in RolloutVersions(s)' <=> v \in RolloutVersions(s)
    BY <1>1, <2>1, <2>2, VersionsNow, VersionsThen
  <2> QED
    BY <2>3
<1> QED
  BY <1>2, ShufflesKeep, Keeps

LEMMA RetiresMaps ==
  ASSUME PlacesInv, NEW w \in Workers, Retires(w)
  PROVE  Abstract!AbsNext
<1>t. fate \in [Scenarios -> Fates] /\ worker[w].scenario \in 0..NumScenarios
  BY DEF PlacesInv, OffPolicyInv, TypeOK, RolloutTypeOK, Worker
<1>1. PICK end \in {"dropped", "error"} :
        fate' = [fate EXCEPT ![worker[w].scenario] = end]
  BY DEF Retires
<1>2. /\ worker[w].pc \in HeldPc /\ worker'[w].pc \notin HeldPc
      /\ \A v \in Workers \ {w} : worker'[v] = worker[v]
      /\ UNCHANGED <<policy_version, output_queue, batch, tpc>>
  BY DEF Retires, trainVars
<1>3. worker[w].scenario \in Scenarios
  BY <1>t, <1>2, PipelineAssumption DEF PlacesInv, RealScenarios, Scenarios
<1>4. w \in HeldByWorkers(worker[w].scenario)
  BY <1>2 DEF HeldByWorkers, HeldPc
<1>5. fate[worker[w].scenario] = "none"
  BY <1>3, <1>4 DEF PlacesInv, OnePlace, Live
<1>6. ASSUME NEW s \in Scenarios, s # worker[w].scenario
      PROVE  fate'[s] = fate[s] /\ RolloutVersions(s)' = RolloutVersions(s)
  <2>1. QueueVersions(s)' = QueueVersions(s) /\ BatchVersions(s)' = BatchVersions(s)
    BY <1>2 DEF Queued, InBatchAt, QueueVersions, BatchVersions
  <2>2. \A v : v \in RolloutVersions(s)' <=> v \in RolloutVersions(s)
    BY <1>2, <1>6, <2>1, VersionsNow, VersionsThen DEF HeldPc, RolloutPc
  <2> QED
    BY <1>1, <1>6, <2>2
<1>7. fate'[worker[w].scenario] \in {"dropped", "error"}
  BY <1>t, <1>1, <1>3
<1> QED
  BY <1>2, <1>5, <1>6, <1>7, GivesUp

LEMMA DeliversMaps ==
  ASSUME PlacesInv, NEW w \in Workers, Delivers(w)
  PROVE  Abstract!AbsNext
<1>1. PICK outcome \in GroupKinds :
        output_queue' = Append(output_queue, GroupOf(w, outcome))
  BY DEF Delivers
<1>2. /\ worker[w].pc \in RolloutPc /\ worker'[w].pc \notin RolloutPc
      /\ \A v \in Workers \ {w} : worker'[v] = worker[v]
      /\ UNCHANGED <<policy_version, fate, batch, tpc>>
  BY DEF Delivers, trainVars, RolloutPc, HeldPc
<1>3. /\ GroupOf(w, outcome) \in Group
      /\ GroupOf(w, outcome).scenario = worker[w].scenario
      /\ GroupOf(w, outcome).version = worker[w].version
  BY GroupOfType DEF PlacesInv, OffPolicyInv, TypeOK, GroupOf
<1>4. ASSUME NEW s \in Scenarios
      PROVE  RolloutVersions(s)' = RolloutVersions(s)
  <2>1. BatchVersions(s)' = BatchVersions(s)
    BY <1>2 DEF InBatchAt, BatchVersions
  <2>2. QueueVersions(s)' = QueueVersions(s) \cup
          (IF worker[w].scenario = s THEN {worker[w].version} ELSE {})
    BY <1>1, <1>3, QueueVersionsAppended DEF PlacesInv, OffPolicyInv, TypeOK
  <2>3. \A v : v \in RolloutVersions(s)' <=> v \in RolloutVersions(s)
    BY <1>2, <2>1, <2>2, VersionsNow, VersionsThen
  <2> QED
    BY <2>3
<1> QED
  BY <1>2, <1>4, Keeps

LEMMA StartMaps ==
  ASSUME PlacesInv, NEW w \in Workers, StartRollout(w)
  PROVE  Abstract!AbsNext
<1>t. /\ worker \in [Workers -> Worker] /\ worker[w].scenario \in 0..NumScenarios
      /\ \A s \in Scenarios : OnePlace(s)
  BY DEF PlacesInv, OffPolicyInv, TypeOK, RolloutTypeOK, Worker
<1>1. /\ worker[w].pc = "check" /\ worker'[w].pc = "rollout"
      /\ worker'[w].scenario = worker[w].scenario
      /\ worker'[w].version = policy_version
      /\ \A v \in Workers \ {w} : worker'[v] = worker[v]
      /\ UNCHANGED <<policy_version, fate, output_queue, batch, tpc>>
  BY <1>t DEF StartRollout, Worker, stateVars, trainVars
<1>2. PICK s0 \in Scenarios : worker[w].scenario = s0
  BY <1>t, <1>1, PipelineAssumption DEF PlacesInv, RealScenarios, Scenarios, HeldPc
<1>3. \A s : QueueVersions(s)' = QueueVersions(s)
             /\ BatchVersions(s)' = BatchVersions(s)
  BY <1>1 DEF Queued, InBatchAt, QueueVersions, BatchVersions
<1>4. w \in HeldByWorkers(s0)
  BY <1>1, <1>2 DEF HeldByWorkers
<1>5. /\ fate[s0] = "none" /\ HeldByWorkers(s0) = {w}
      /\ QueueVersions(s0) = {} /\ BatchVersions(s0) = {}
  BY <1>t, <1>2, <1>4 DEF OnePlace, Live, AtMostOne, QueueVersions, BatchVersions
<1>6. RolloutVersions(s0) = {}
  <2>1. \A v \in Workers : worker[v].pc \in RolloutPc => worker[v].scenario # s0
    BY <1>1, <1>5 DEF HeldByWorkers, RolloutPc
  <2> QED
    BY <1>5, <2>1, VersionsNow
<1>7. RolloutVersions(s0)' = {policy_version}
  <2>1. \A v \in Workers \ {w} : worker'[v].pc \in RolloutPc => worker'[v].scenario # s0
    BY <1>1, <1>5 DEF HeldByWorkers, RolloutPc
  <2>2. \A v : v \in RolloutVersions(s0)' <=> v = policy_version
    BY <1>1, <1>2, <1>3, <1>5, <2>1, VersionsThen DEF RolloutPc
  <2> QED
    BY <2>2
<1>8. ASSUME NEW s \in Scenarios, s # s0
      PROVE  DataOf(s)' = DataOf(s)
  <2>1. \A v : v \in RolloutVersions(s)' <=> v \in RolloutVersions(s)
    BY <1>1, <1>2, <1>3, <1>8, VersionsNow, VersionsThen DEF RolloutPc
  <2>2. RolloutVersions(s)' = RolloutVersions(s)
    BY <2>1
  <2> QED
    BY <1>1, <2>2, DataNow, DataThen
<1>9. DataOf(s0) = Abstract!Unused
  BY <1>5, <1>6, DataNow DEF DataFor
<1>10. ASSUME NEW s \in Scenarios
       PROVE  DataOf(s)' = IF s = s0 THEN Abstract!RolledOut(policy_version)
                           ELSE DataOf(s)
  <2>1. CASE s = s0
    <3>1. TheVersion(RolloutVersions(s)') = policy_version
      BY <1>7, <2>1, TheOnlyVersion DEF AtMostOne
    <3> QED
      BY <1>1, <1>5, <1>7, <2>1, <3>1, DataThen DEF DataFor
  <2> QED
    BY <1>8, <2>1
<1>11. Abstract!RollOut(s0)
  BY <1>1, <1>2, <1>9, <1>10 DEF Abstract!RollOut
<1> QED
  BY <1>2, <1>11 DEF Abstract!AbsNext

LEMMA WorkerMaps ==
  ASSUME PlacesInv, NEW w \in Workers, WorkerStep(w)
  PROVE  Abstract!AbsNext
<1>1. ASSUME \A v \in Workers \ {w} : worker'[v] = worker[v],
             worker'[w].pc \in RolloutPc <=> worker[w].pc \in RolloutPc,
             worker[w].pc \in RolloutPc => worker'[w].version = worker[w].version
                                        /\ worker'[w].scenario = worker[w].scenario,
             UNCHANGED <<policy_version, fate, output_queue, batch, tpc>>
      PROVE  Abstract!AbsNext
  <2>1. ASSUME NEW s \in Scenarios
        PROVE  RolloutVersions(s)' = RolloutVersions(s)
    <3>1. QueueVersions(s)' = QueueVersions(s) /\ BatchVersions(s)' = BatchVersions(s)
      BY <1>1 DEF Queued, InBatchAt, QueueVersions, BatchVersions
    <3>2. \A v : v \in RolloutVersions(s)' <=> v \in RolloutVersions(s)
      BY <1>1, <3>1, VersionsNow, VersionsThen
    <3> QED
      BY <3>2
  <2> QED
    BY <1>1, <2>1, Keeps
<1>2. CASE TakeScenario(w)
  <2>1. /\ \A v \in Workers \ {w} : worker'[v] = worker[v]
        /\ worker[w].pc = "fetch" /\ worker'[w].pc = "check"
        /\ UNCHANGED <<policy_version, fate, output_queue, batch, tpc>>
    BY <1>2 DEF TakeScenario, PlacesInv, OffPolicyInv, TypeOK, RolloutTypeOK,
                Worker, trainVars, queueVars
  <2> QED
    BY <1>1, <2>1 DEF RolloutPc
<1>3. CASE GoesOn(w)
  <2>1. CASE StartRollout(w)
    BY <2>1, StartMaps
  <2>2. CASE ~StartRollout(w)
    BY <1>1, <1>3, <2>2 DEF GoesOn, trainVars, RolloutPc, HeldPc
  <2> QED
    BY <2>1, <2>2
<1> QED
  BY <1>2, <1>3, WorkerDoes, RetiresMaps, DeliversMaps DEF PlacesInv, OffPolicyInv

LEMMA CollectMaps ==
  ASSUME PlacesInv, CollectStep, ~CollectSuspends
  PROVE  Abstract!AbsNext
<1>t. /\ QueueTypeOK /\ batch \in Seq(Group) /\ fate \in [Scenarios -> Fates]
      /\ \A s \in Scenarios : OnePlace(s)
  BY DEF PlacesInv, OffPolicyInv, TypeOK, TrainTypeOK
<1>1. /\ Dequeue /\ UNCHANGED <<worker, policy_version>>
      /\ tpc \in {"collect", "drain"}
  BY DEF CollectStep, CollectSentinel, CollectAllFailed, CollectStale,
         CollectZeroVariance, CollectGroup, Dequeue, stateVars, rolloutVars
<1>2. \A s \in Scenarios : QueueVersions(s) = QueueVersions(s)' \cup
        (IF Item.scenario = s THEN {Item.version} ELSE {})
  BY <1>t, <1>1, QueueVersionsShifted
<1>b. \A s : InBatch(s) <=> InBatchAt(s) # {}
  BY <1>1, BatchPlaces
\* A scenario this step does not seal the fate of keeps its version.
<1>3. ASSUME NEW s \in Scenarios, Item.scenario # s, batch' = batch, tpc' = "drain"
      PROVE  RolloutVersions(s)' = RolloutVersions(s)
  <2>1. BatchVersions(s)' = BatchVersions(s)
    BY <1>1, <1>3 DEF InBatchAt, BatchVersions
  <2>2. \A v : v \in RolloutVersions(s)' <=> v \in RolloutVersions(s)
    BY <1>1, <1>2, <1>3, <2>1, VersionsNow, VersionsThen
  <2> QED
    BY <2>2
<1>4. CASE CollectSentinel
  <2>1. \A s \in Scenarios : Item.scenario # s
    BY <1>4, PipelineAssumption DEF CollectSentinel, Sentinel, Scenarios
  <2>2. /\ batch' = batch /\ tpc' = "drain"
        /\ fate' = fate /\ policy_version' = policy_version
    BY <1>4 DEF CollectSentinel, stateVars
  <2> QED
    BY <1>3, <2>1, <2>2, Keeps
<1>5. CASE CollectStale \/ (CollectZeroVariance /\ tpc' = "drain")
  <2>1. Item.kind # "sentinel" /\ batch' = batch /\ tpc' = "drain"
        /\ \E end \in {"stale", "zero"} :
             fate' = [fate EXCEPT ![Item.scenario] = end]
    BY <1>5 DEF CollectStale, CollectZeroVariance
  <2>2. Item.scenario \in Scenarios /\ fate[Item.scenario] = "none"
    BY <1>1, <2>1, ItemAlone DEF Live
  <2>3. /\ fate'[Item.scenario] \in {"stale", "zero"}
        /\ \A s \in Scenarios \ {Item.scenario} : fate'[s] = fate[s]
    BY <1>t, <2>1, <2>2
  <2> QED
    BY <1>1, <1>3, <2>1, <2>2, <2>3, GivesUp
<1>6. CASE CollectAllFailed \/ (CollectZeroVariance /\ tpc' = "finish")
  <2>1. Item.kind # "sentinel" /\ tpc' \in {"failed", "finish"}
        /\ \E end \in {"error", "zero"} :
             fate' = [BatchFate("dropped") EXCEPT ![Item.scenario] = end]
    BY <1>6 DEF CollectAllFailed, CollectZeroVariance
  <2>2. Item.scenario \in Scenarios /\ fate[Item.scenario] = "none"
    BY <1>1, <2>1, ItemAlone DEF Live
  <2>3. /\ fate'[Item.scenario] \in {"error", "zero"}
        /\ \A s \in Scenarios \ {Item.scenario} :
             fate'[s] = IF InBatch(s) THEN "dropped" ELSE fate[s]
    BY <2>1, <2>2 DEF BatchFate
  <2>4. ASSUME NEW s \in Scenarios, s # Item.scenario, ~InBatch(s)
        PROVE  RolloutVersions(s)' = RolloutVersions(s)
    <3>1. BatchVersions(s) = {} /\ BatchVersions(s)' = {}
      BY <1>b, <2>1, <2>4 DEF InBatchAt, BatchVersions
    <3>2. \A v : v \in RolloutVersions(s)' <=> v \in RolloutVersions(s)
      BY <1>1, <1>2, <2>4, <3>1, VersionsNow, VersionsThen
    <3> QED
      BY <3>2
  <2>5. \A s \in Scenarios : InBatch(s) => fate[s] = "none"
    BY <1>t, <1>b DEF OnePlace, Live
  <2>6. ASSUME NEW s \in Scenarios
        PROVE  \/ fate'[s] = fate[s] /\ RolloutVersions(s)' = RolloutVersions(s)
               \/ fate[s] = "none" /\ fate'[s] \notin {"none", "trained"}
    BY <2>2, <2>3, <2>4, <2>5
  <2> QED
    BY <1>1, <2>6, GivesUp
<1>7. CASE CollectGroup
  <2>1. /\ Item.kind # "sentinel" /\ batch' = Append(batch, Item)
        /\ tpc' = "drain" /\ fate' = fate
    BY <1>7 DEF CollectGroup
  <2>2. Item \in Group
    BY <1>1, <2>1, ItemAlone
  <2>3. ASSUME NEW s \in Scenarios
        PROVE  RolloutVersions(s)' = RolloutVersions(s)
    <3>1. BatchVersions(s)' = BatchVersions(s) \cup
            (IF Item.scenario = s THEN {Item.version} ELSE {})
      BY <1>t, <1>1, <2>1, <2>2, BatchVersionsAppended
    <3>2. \A v : v \in RolloutVersions(s)' <=> v \in RolloutVersions(s)
      BY <1>1, <1>2, <3>1, VersionsNow, VersionsThen
    <3> QED
      BY <3>2
  <2> QED
    BY <1>1, <2>1, <2>3, Keeps
<1> QED
  BY <1>4, <1>5, <1>6, <1>7 DEF CollectStep, CollectZeroVariance

(* Training took what it trained on: the batch met its end, the others are   *)
(* where they were.                                                          *)
LEMMA OthersKept ==
  ASSUME PlacesInv, tpc = "train", tpc' \notin {"collect", "drain", "train"},
         UNCHANGED <<worker, output_queue>>, NEW s \in Scenarios, ~InBatch(s)
  PROVE  RolloutVersions(s)' = RolloutVersions(s)
<1>1. BatchVersions(s) = {} /\ BatchVersions(s)' = {}
  BY DEF InBatchAt, InBatch, BatchVersions
<1>2. QueueVersions(s)' = QueueVersions(s)
  BY DEF Queued, QueueVersions
<1>3. \A v : v \in RolloutVersions(s)' <=> v \in RolloutVersions(s)
  BY <1>1, <1>2, VersionsNow, VersionsThen
<1> QED
  BY <1>3

LEMMA RaisesMaps ==
  ASSUME PlacesInv, TrainingRaises, tpc = "train"
  PROVE  Abstract!AbsNext
<1>1. /\ tpc' = "failed" /\ fate' = BatchFate("dropped")
      /\ UNCHANGED <<worker, output_queue, policy_version>>
  BY DEF TrainingRaises, stateVars, queueVars, rolloutVars
<1>2. \A s \in Scenarios : fate'[s] = IF InBatch(s) THEN "dropped" ELSE fate[s]
  BY <1>1 DEF BatchFate
<1>3. \A s \in Scenarios : InBatch(s) => fate[s] = "none"
  BY BatchPlaces DEF PlacesInv, OnePlace, Live
<1>4. ASSUME NEW s \in Scenarios
      PROVE  \/ fate'[s] = fate[s] /\ RolloutVersions(s)' = RolloutVersions(s)
             \/ fate[s] = "none" /\ fate'[s] \notin {"none", "trained"}
  BY <1>1, <1>2, <1>3, OthersKept
<1> QED
  BY <1>1, <1>4, GivesUp

LEMMA TrainsMaps ==
  ASSUME PlacesInv, NEW step \in Steps, TrainReturns(step)
  PROVE  Abstract!AbsNext
<1> DEFINE trained == {s \in Scenarios : InBatch(s)}
<1>t. /\ batch \in Seq(Group) /\ fate \in [Scenarios -> Fates]
      /\ current_step \in Nat /\ policy_version = current_step
      /\ \A s \in Scenarios : OnePlace(s)
  BY PipelineAssumption
     DEF PlacesInv, OffPolicyInv, TypeOK, TrainTypeOK, VersionsPublished, Steps
<1>1. /\ tpc = "train" /\ tpc' = "prune" /\ fate' = BatchFate("trained")
      /\ UNCHANGED <<worker, output_queue>>
      /\ policy_version' \in {policy_version, policy_version + 1}
  BY <1>t DEF TrainReturns, queueVars, rolloutVars
<1>2. \A s \in Scenarios : fate'[s] = IF InBatch(s) THEN "trained" ELSE fate[s]
  BY <1>1 DEF BatchFate
<1>3. \A i \in DOMAIN batch : /\ batch[i].version \in Int
                              /\ batch[i].version >= policy_version - MaxOffPolicy
                              /\ batch[i].scenario \in Scenarios
  <2>1. \A i \in DOMAIN batch : batch[i] \in Group
    BY <1>t
  <2> QED
    BY <1>t, <1>1, <2>1, PipelineAssumption
       DEF PlacesInv, OffPolicyInv, OffPolicyBound, TrainedPolicyLag,
           RealScenarios, Group, Scenarios, Steps
<1>4. ASSUME NEW s \in trained
      PROVE  Abstract!Usable(s) /\ DataOf(s)' = Abstract!Trained
  <2>1. PICK i \in InBatchAt(s) : i \in DOMAIN batch
    BY <1>1 DEF InBatch, InBatchAt
  <2>2. batch[i].version \in RolloutVersions(s)
    BY <2>1, VersionsNow DEF BatchVersions
  <2>3. fate[s] = "none"
    BY <1>t, <2>1 DEF OnePlace, Live
  <2>4. TheVersion(RolloutVersions(s)) = batch[i].version
    BY <1>t, <2>2, OneVersion, TheOnlyVersion
  <2>5. DataOf(s) = Abstract!RolledOut(batch[i].version)
    BY <2>2, <2>3, <2>4, DataNow DEF DataFor
  <2>6. DataOf(s)' = Abstract!Trained
    BY <1>2, DataThen DEF DataFor
  <2> QED
    BY <1>3, <2>1, <2>5, <2>6 DEF Abstract!Usable, Abstract!RolledOut
<1>5. ASSUME NEW s \in Scenarios \ trained PROVE DataOf(s)' = DataOf(s)
  <2>1. fate'[s] = fate[s] /\ RolloutVersions(s)' = RolloutVersions(s)
    BY <1>1, <1>2, <1>5, OthersKept
  <2> QED
    BY <2>1, DataNow, DataThen
<1>6. trained # {} /\ trained \in SUBSET Scenarios
  <2>1. batch # <<>>
    BY <1>1 DEF PlacesInv, TrainsSomething
  <2>2. 1 \in DOMAIN batch
    BY <1>t, <2>1
  <2> QED
    BY <1>3, <2>2 DEF InBatch
<1> HIDE DEF trained
<1>7. Abstract!Train(trained)
  BY <1>1, <1>4, <1>5, <1>6 DEF Abstract!Train
<1> QED
  BY <1>6, <1>7 DEF Abstract!AbsNext

LEMMA TrainerMaps ==
  ASSUME PlacesInv, [Next]_vars
  PROVE  [Abstract!AbsNext]_(Abstract!abstractVars)
<1>1. CASE UNCHANGED vars
  <2>1. UNCHANGED <<policy_version, fate, worker, output_queue, batch, tpc>>
    BY <1>1 DEF vars, stateVars, rolloutVars, queueVars, trainVars
  <2>2. \A s : QueueVersions(s)' = QueueVersions(s)
               /\ BatchVersions(s)' = BatchVersions(s)
    BY <2>1 DEF Queued, InBatchAt, QueueVersions, BatchVersions
  <2>3. ASSUME NEW s \in Scenarios
        PROVE  RolloutVersions(s)' = RolloutVersions(s)
    <3>1. \A v : v \in RolloutVersions(s)' <=> v \in RolloutVersions(s)
      BY <2>1, <2>2, VersionsNow, VersionsThen
    <3> QED
      BY <3>1
  <2> QED
    BY <2>1, <2>3, Keeps
<1>2. ASSUME NEW w \in Workers, WorkerStep(w) PROVE Abstract!AbsNext
  BY <1>2, WorkerMaps
<1>3. CASE Shuffles
  BY <1>3, ShufflesMap
<1>4. CASE CollectStep /\ ~CollectSuspends
  BY <1>4, CollectMaps
<1>5. ASSUME NEW step \in Steps, TrainReturns(step) PROVE Abstract!AbsNext
  BY <1>5, TrainsMaps
<1>6. CASE TrainingRaises /\ tpc = "train"
  BY <1>6, RaisesMaps
<1> QED
  BY <1>1, <1>2, <1>3, <1>4, <1>5, <1>6
     DEF Next, System, TaskStep, TrainingStep, BackendStep, Returned, Shuffles

LEMMA TrainerInitMaps == Init => Abstract!AbsInit
<1> SUFFICES ASSUME Init PROVE Abstract!AbsInit
  OBVIOUS
<1>1. /\ output_queue = <<>> /\ batch = <<>> /\ policy_version = 0
      /\ \A w \in Workers : worker[w].pc = "fetch"
      /\ fate = [s \in Scenarios |-> "none"]
  BY DEF Init, StartFrom, WorkerAt
<1>2. ASSUME NEW s \in Scenarios PROVE DataOf(s) = Abstract!Unused
  <2>1. QueueVersions(s) = {} /\ BatchVersions(s) = {}
    BY <1>1 DEF Queued, InBatchAt, QueueVersions, BatchVersions
  <2>2. RolloutVersions(s) = {}
    BY <1>1, <2>1, VersionsNow DEF RolloutPc
  <2> QED
    BY <1>1, <2>2, DataNow DEF DataFor
<1> QED
  BY <1>1, <1>2 DEF Abstract!AbsInit

(* What the trainer does with its scenarios is what a trainer without        *)
(* workers, queue, batches and tasks does: each is rolled out at most once,  *)
(* with the policy of the moment, each rollout trained on at most once and   *)
(* never more than max_steps_off_policy versions late, whatever its way      *)
(* through _rollout_worker, _put_output_group and _collect_batch was.        *)
THEOREM TrainerImplementsOffPolicyTraining == Spec => ImplementsOffPolicyTraining
<1>1. PlacesInv /\ [Next]_vars => [Abstract!AbsNext]_(Abstract!abstractVars)
  BY TrainerMaps
<1> QED
  BY <1>1, PlacesAlways, TrainerInitMaps, PTL
     DEF Spec, ImplementsOffPolicyTraining, Abstract!AbsSpec

-----------------------------------------------------------------------------
(* The composition is a trainer: what is proved of Spec holds of it. *)

\* No step is trained beyond the model's bound.
TrainsBelowBound == tpc = "train" => current_step < StepBound

LEMMA BoundInit == Init => TrainsBelowBound
  BY DEF Init, StartFrom, TrainsBelowBound

LEMMA BoundNext == TrainsBelowBound /\ [Next]_vars => TrainsBelowBound'
<1> SUFFICES ASSUME TrainsBelowBound, [Next]_vars PROVE TrainsBelowBound'
  OBVIOUS
<1> USE DEF TrainsBelowBound
<1>1. CASE UNCHANGED trainVars
  BY <1>1 DEF trainVars
<1>2. CASE BeginTrain
  BY <1>2 DEF BeginTrain
<1>3. CASE tpc' # "train"
  BY <1>3
<1>4. CASE TrainingStep \/ BackendStep
  BY <1>2, <1>3, <1>4
     DEF TrainingStep, BackendStep, BeginCollect, CollectStep,
         CollectSentinel, CollectAllFailed, CollectStale, CollectZeroVariance,
         CollectGroup, CollectSuspends, StepLogged, TrainingRaises,
         FinishTraining, TrainReturns, AdaptersPruned, RetentionRan
<1>5. ASSUME NEW w \in Workers, WorkerStep(w) PROVE UNCHANGED trainVars
  BY <1>5 DEF WorkerStep, TakeScenario, ScenariosExhausted, WaitForPolicy,
              GiveUpScenario, StartRollout, RolloutFails, RolloutReturns,
              PutGroup, PutTimesOut
<1>6. CASE RequestStop \/ StopNotifies \/ StopPuts \/ RolloutStageJoins
           \/ RolloutStagePuts \/ EvalStep \/ UNCHANGED vars
  BY <1>1, <1>6
     DEF RequestStop, StopNotifies, StopPuts, RolloutStageJoins,
         RolloutStagePuts, EvalStep, EvalStageTakes, EvalStageCreates,
         EvalStageLeaves, EvalStageEnds, EvalStarts, EvalReturns,
         EvalCompletes, EvalFails, vars
<1> QED
  BY <1>1, <1>4, <1>5, <1>6 DEF Next, System, TaskStep, Returned

LEMMA AdaptersStep ==
  ASSUME TypeOK, TrainsBelowBound, [AdaptersNext]_allVars
  PROVE  [Next]_vars
<1>1. CASE TrainReturnsStep
  <2>1. BackendTrainStep \in {current_step, current_step + 1} /\ tpc = "train"
    BY <1>1 DEF TrainReturnsStep, TrainReturns
  <2>2. BackendTrainStep \in Steps
    BY <2>1, PipelineAssumption
       DEF TypeOK, TrainTypeOK, TrainsBelowBound, Steps
  <2> QED
    BY <1>1, <2>2 DEF TrainReturnsStep, Next, System, BackendStep
<1>2. CASE PruneReturns \/ CheckpointRetention
  BY <1>2 DEF PruneReturns, CheckpointRetention, Next, System, BackendStep
<1>3. CASE (RequestStop \/ TaskStep \/ Returned) /\ UNCHANGED backendVars
  BY <1>3 DEF Next, System
<1>4. CASE CheckpointSaved \/ AdapterReloaded \/ AdapterUnloaded
           \/ UNCHANGED allVars
  BY <1>4 DEF CheckpointSaved, AdapterReloaded, AdapterUnloaded, allVars
<1> QED
  BY <1>1, <1>2, <1>3, <1>4 DEF AdaptersNext

(* A trainer with its LocalBackend does nothing PipelineTrainer does not     *)
(* allow: the step the backend reads from the checkpoint directories is one  *)
(* the trainer may see.                                                      *)
THEOREM AdaptersImplementTrainer == AdaptersSpec => Spec
<1>1. AdaptersInit => Init /\ TypeOK /\ TrainsBelowBound
  BY InitType, BoundInit DEF AdaptersInit
<1>2. TypeOK /\ TrainsBelowBound /\ [AdaptersNext]_allVars
        => TypeOK' /\ TrainsBelowBound' /\ [Next]_vars
  BY AdaptersStep, NextType, BoundNext
<1> QED
  BY <1>1, <1>2, PTL DEF AdaptersSpec, Spec

-----------------------------------------------------------------------------
(* Served adapters.  NamedAdaptersServed alone is not inductive: what is   *)
(* still to be unloaded must not be needed either, and the adapter of the    *)
(* next step must be loaded before the step is published.                    *)

ServedInv ==
  /\ policy_version = current_step
  /\ policy_version \in loaded \ unloading
  /\ latest_step \in loaded \ unloading
  /\ \A w \in Workers :
       worker[w].pc = "rollout" => worker[w].version \in loaded \ unloading
  /\ unloading # {} => tpc \in {"prune", "failed"}
  /\ bpc # "training" => tpc \in {"train", "failed"}
  /\ bpc = "reloaded" => BackendTrainStep \in loaded

LEMMA ServedInit == AdaptersInit => ServedInv
  BY DEF AdaptersInit, Init, StartFrom, WorkerAt, ServedInv

(* A lease is held for every rollout under way. *)
LEMMA RolloutsLeased ==
  ASSUME TypeOK, LeasesMatchUse, NEW w \in Workers, worker[w].pc = "rollout"
  PROVE  worker[w].version \in Leased
<1>1. worker[w].version \in Steps
  BY DEF TypeOK, RolloutTypeOK, Worker
<1>2. PICK s \in Steps : s = worker[w].version
  BY <1>1
<1>3. RolloutsUsing(s) # {} /\ Cardinality(RolloutsUsing(s)) \in Nat
  BY <1>2, RolloutsUsingFinite DEF RolloutsUsing
<1>4. Cardinality(RolloutsUsing(s)) # 0
  BY <1>3, RolloutsUsingFinite, FS_EmptySet
<1>5. lease_counts[s] > 0
  BY <1>3, <1>4 DEF LeasesMatchUse, EvalsUsing
<1> QED
  BY <1>2, <1>5 DEF Leased

(* Only backend.train's return makes a new step.                             *)
LEMMA TaskKeepsStep ==
  ASSUME RequestStop \/ TaskStep \/ Returned \/ UNCHANGED vars
  PROVE  UNCHANGED <<policy_version, current_step>>
  BY DEF TaskStep, WorkerStep, TakeScenario, ScenariosExhausted, WaitForPolicy,
         GiveUpScenario, StartRollout, RolloutFails, RolloutReturns, PutGroup,
         PutTimesOut, RequestStop, StopNotifies, StopPuts, RolloutStageJoins,
         RolloutStagePuts, TrainingStep, BeginCollect, CollectStep,
         CollectSentinel, CollectAllFailed, CollectStale, CollectZeroVariance,
         CollectGroup, CollectSuspends, BeginTrain, StepLogged,
         TrainingRaises, FinishTraining, EvalStep, EvalStageTakes,
         EvalStageCreates, EvalStageLeaves, EvalStageEnds, EvalStarts,
         EvalReturns, EvalCompletes, EvalFails, Returned, vars, stateVars,
         trainVars

LEMMA ServedTask ==
  ASSUME TypeOK, ServedInv, TypeOK',
         RequestStop \/ TaskStep \/ Returned \/ UNCHANGED vars,
         UNCHANGED backendVars
  PROVE  ServedInv'
<1> USE DEF ServedInv, backendVars, BackendTrainStep
<1>0. worker \in [Workers -> Worker]
  BY DEF TypeOK, RolloutTypeOK
<1>1. UNCHANGED <<policy_version, current_step>>
  BY TaskKeepsStep
<1>2. /\ tpc \in {"prune", "failed"} => tpc' \in {"prune", "failed"}
      /\ tpc \in {"train", "failed"} => tpc' \in {"train", "failed"}
  <2>1. CASE TrainingStep
    BY <2>1 DEF TrainingStep, BeginCollect, CollectStep, CollectSentinel,
         CollectAllFailed, CollectStale, CollectZeroVariance, CollectGroup,
         CollectSuspends, Dequeue, BeginTrain, BatchCollected, StepLogged,
         TrainingRaises, FinishTraining
  <2>2. ASSUME NEW w \in Workers, WorkerStep(w) PROVE UNCHANGED trainVars
    BY <2>2 DEF WorkerStep, TakeScenario, ScenariosExhausted, WaitForPolicy,
         GiveUpScenario, StartRollout, RolloutFails, RolloutReturns, PutGroup,
         PutTimesOut
  <2>3. CASE RequestStop \/ StopNotifies \/ StopPuts \/ RolloutStageJoins
             \/ RolloutStagePuts \/ EvalStep \/ Returned \/ UNCHANGED vars
    <3>1. UNCHANGED trainVars
      BY <2>3 DEF RequestStop, StopNotifies, StopPuts, RolloutStageJoins,
           RolloutStagePuts, EvalStep, EvalStageTakes, EvalStageCreates,
           EvalStageLeaves, EvalStageEnds, EvalStarts, EvalReturns,
           EvalCompletes, EvalFails, Returned, vars
    <3> QED
      BY <3>1 DEF trainVars
  <2> QED
    BY <2>1, <2>2, <2>3 DEF TaskStep, trainVars
<1>3. \A w \in Workers :
        worker'[w].pc = "rollout" =>
          \/ worker[w].pc = "rollout" /\ worker'[w].version = worker[w].version
          \/ worker'[w].version = policy_version
  <2>1. ASSUME NEW v \in Workers, WorkerStep(v), NEW w \in Workers,
               worker'[w].pc = "rollout"
        PROVE  \/ worker[w].pc = "rollout"
                  /\ worker'[w].version = worker[w].version
               \/ worker'[w].version = policy_version
    <3>1. \A u \in Workers \ {v} : worker'[u] = worker[u]
      BY <1>0, <2>1
         DEF WorkerStep, TakeScenario, ScenariosExhausted, WaitForPolicy,
             GiveUpScenario, StartRollout, RolloutFails, RolloutReturns,
             PutGroup, PutTimesOut
    <3>2. CASE StartRollout(v)
      BY <1>0, <3>1, <3>2, <2>1 DEF StartRollout, Worker
    <3>3. CASE ~StartRollout(v)
      <4>1. worker'[v].pc # "rollout"
        BY <1>0, <2>1, <3>3
           DEF WorkerStep, TakeScenario, ScenariosExhausted, WaitForPolicy,
               GiveUpScenario, RolloutFails, RolloutReturns, PutGroup,
               PutTimesOut, WorkerAt, NextIteration, Worker
      <4> QED
        BY <2>1, <3>1, <4>1
    <3> QED
      BY <3>2, <3>3
  <2>2. \A w \in Workers : Woken[w].pc = "rollout" =>
          worker[w].pc = "rollout" /\ Woken[w].version = worker[w].version
    BY <1>0 DEF Woken, Worker
  <2>3. CASE ~ \E v \in Workers : WorkerStep(v)
    <3>1. UNCHANGED worker \/ worker' = Woken
      BY <2>3
         DEF TaskStep, RequestStop, StopNotifies, StopPuts, RolloutStageJoins,
             RolloutStagePuts, TrainingStep, BeginCollect, CollectStep,
             CollectSentinel, CollectAllFailed, CollectStale,
             CollectZeroVariance, CollectGroup, CollectSuspends, BeginTrain,
             StepLogged, TrainingRaises, FinishTraining, EvalStep,
             EvalStageTakes, EvalStageCreates, EvalStageLeaves, EvalStageEnds,
             EvalStarts, EvalReturns, EvalCompletes, EvalFails, Returned,
             vars, rolloutVars
    <3> QED
      BY <2>2, <3>1
  <2> QED
    BY <2>1, <2>3
<1> QED
  BY <1>1, <1>2, <1>3

LEMMA ServedNext ==
  ASSUME TypeOK, TrainsBelowBound, LeasesMatchUse, ServedInv,
         [AdaptersNext]_allVars
  PROVE  ServedInv'
<1>0. TypeOK'
  BY AdaptersStep, NextType
<1>1. CASE (RequestStop \/ TaskStep \/ Returned) /\ UNCHANGED backendVars
  BY <1>0, <1>1, ServedTask
<1>2. CASE UNCHANGED allVars
  BY <1>0, <1>2, ServedTask DEF allVars
<1>3. CASE CheckpointSaved
  BY <1>3 DEF CheckpointSaved, ServedInv, vars, stateVars, rolloutVars, trainVars
<1>4. CASE AdapterReloaded
  BY <1>4 DEF AdapterReloaded, ServedInv, BackendTrainStep, vars, stateVars,
              rolloutVars, trainVars
<1>5. CASE TrainReturnsStep
  <2>1. /\ policy_version' = BackendTrainStep /\ current_step' = BackendTrainStep
        /\ BackendTrainStep \in {current_step, current_step + 1}
        /\ tpc = "train" /\ tpc' = "prune" /\ bpc = "reloaded"
        /\ unloading' = Prunable(BackendTrainStep) /\ bpc' = "training"
        /\ UNCHANGED <<worker, loaded, latest_step>>
    BY <1>5 DEF TrainReturnsStep, TrainReturns, rolloutVars
  <2>2. BackendTrainStep \in Steps
    BY <2>1, PipelineAssumption
       DEF TypeOK, TrainTypeOK, TrainsBelowBound, Steps
  <2>3. BackendTrainStep \notin unloading'
    BY <2>1, <2>2, PipelineAssumption
       DEF Prunable, RetainedAdapterSteps, Steps
  <2>4. \A w \in Workers :
          worker'[w].pc = "rollout" =>
            worker'[w].version \in loaded' /\ worker'[w].version \notin unloading'
    BY <2>1, RolloutsLeased DEF ServedInv, Prunable
  <2> QED
    BY <2>1, <2>3, <2>4 DEF ServedInv, Prunable
<1>6. CASE AdapterUnloaded
  <2>1. unloading' \subseteq unloading
        /\ loaded \ unloading \subseteq loaded' \ unloading'
    BY <1>6 DEF AdapterUnloaded
  <2>2. /\ tpc = "prune"
        /\ UNCHANGED <<policy_version, current_step, worker, tpc, latest_step, bpc>>
    BY <1>6 DEF AdapterUnloaded, vars, stateVars, rolloutVars, trainVars
  <2>3. bpc = "training"
    BY <2>2 DEF ServedInv
  <2> QED
    BY <2>1, <2>2, <2>3 DEF ServedInv
<1>7. CASE PruneReturns
  BY <1>7 DEF PruneReturns, AdaptersPruned, ServedInv, BackendTrainStep,
              backendVars, stateVars, rolloutVars
<1>8. CASE CheckpointRetention
  <2>1. /\ tpc = "retain" /\ UNCHANGED <<policy_version, current_step, worker>>
        /\ UNCHANGED <<loaded, latest_step, bpc, unloading>>
    BY <1>8 DEF CheckpointRetention, RetentionRan, stateVars, rolloutVars
  <2>2. bpc = "training"
    BY <2>1 DEF ServedInv
  <2> QED
    BY <2>1, <2>2 DEF ServedInv
<1> QED
  BY <1>1, <1>2, <1>3, <1>4, <1>5, <1>6, <1>7, <1>8
     DEF AdaptersNext

LEMMA ServedAlways == AdaptersSpec => []ServedInv
<1>1. AdaptersInit => TrainsBelowBound /\ ServedInv
  BY BoundInit, ServedInit DEF AdaptersInit
<1>2. TypeOK /\ LeasesMatchUse /\ TrainsBelowBound /\ ServedInv
        /\ [AdaptersNext]_allVars => TrainsBelowBound' /\ ServedInv'
  BY AdaptersStep, BoundNext, ServedNext
<1> QED
  BY <1>1, <1>2, AdaptersImplementTrainer, TypeCorrect, LeasesExact, PTL
     DEF AdaptersSpec

(* The adapter a rollout names stays loaded until the rollout is over, for   *)
(* any number of workers and any off-policy window: pruning never takes it   *)
(* away, a rollout about to start finds its own, and the default inference   *)
(* target is always served (_adapter_lease, prune_model_adapters,            *)
(* prune_loaded_adapters, _latest_step).                                     *)
THEOREM RolloutsServed == AdaptersSpec => []NamedAdaptersServed
<1>1. ServedInv => NamedAdaptersServed
  BY DEF ServedInv, NamedAdaptersServed
<1> QED
  BY <1>1, ServedAlways, PTL

-----------------------------------------------------------------------------
(* Checkpoints.  The invariant says which step the newest checkpoint is of,  *)
(* which makes every training step a new one; so pending evals are of        *)
(* different steps (EvalsOrdered) and what retention protects for them is    *)
(* what they need.                                                           *)

Newest == IF bpc = "training" THEN current_step ELSE current_step + 1

CkptInv ==
  /\ checkpoints \subseteq Steps
  /\ current_step \in checkpoints /\ Newest \in checkpoints
  /\ \A c \in checkpoints : c <= Newest
  /\ latest_step = IF bpc = "reloaded" THEN current_step + 1 ELSE current_step
  /\ bpc \in {"training", "saved", "reloaded"}
  /\ loaded \subseteq Steps /\ unloading \subseteq loaded
  /\ Leased \cup PendingEvals \subseteq checkpoints

LEMMA CkptFacts ==
  ASSUME TypeOK, CkptInv
  PROVE  /\ BackendTrainStep = Newest /\ Newest \in Steps
         /\ AdaptersTypeOK /\ NeededCheckpointsKept
<1>1. \A c \in checkpoints : c \in Int
  BY PipelineAssumption DEF CkptInv, Steps
<1>2. \A c \in checkpoints : (\A d \in checkpoints : c >= d) => c = Newest
  BY <1>1 DEF CkptInv
<1>3. \A c \in checkpoints : Newest >= c
  BY <1>1 DEF CkptInv
<1>4. BackendTrainStep = Newest
  BY <1>2, <1>3 DEF BackendTrainStep, Max, CkptInv
<1>5. latest_step \in checkpoints
  BY DEF CkptInv, Newest
<1> QED
  BY <1>4, <1>5 DEF CkptInv, AdaptersTypeOK, NeededCheckpointsKept

LEMMA CkptInit == AdaptersInit => CkptInv
<1> SUFFICES ASSUME AdaptersInit PROVE CkptInv
  OBVIOUS
<1>1. /\ current_step = 0 /\ checkpoints = {0} /\ loaded = {0} /\ latest_step = 0
      /\ bpc = "training" /\ unloading = {} /\ lease_counts = [s \in Steps |-> 0]
  BY DEF AdaptersInit, Init, StartFrom
<1>2. 0 \in Steps
  BY PipelineAssumption DEF Steps
<1>3. PendingEvals \subseteq {0}
  BY PendingInit DEF AdaptersInit
<1>4. Leased = {}
  BY <1>1 DEF Leased
<1> QED
  BY <1>1, <1>2, <1>3, <1>4 DEF CkptInv, Newest

(* A lease is taken on the current policy's step or on a pending eval's.     *)
LEMMA NewLeases ==
  ASSUME TypeOK, [Next]_vars
  PROVE  Leased' \subseteq Leased \cup {policy_version} \cup PendingEvals
<1>t. lease_counts \in [Steps -> Int]
  BY DEF TypeOK, QueueTypeOK
<1>1. CASE UNCHANGED lease_counts
  BY <1>1 DEF Leased
<1>2. ASSUME NEW s, lease_counts' = Release(s) PROVE Leased' \subseteq Leased
  BY <1>2, <1>t DEF Release, Leased
<1>3. ASSUME NEW s, lease_counts' = Lease(s) PROVE Leased' \subseteq Leased \cup {s}
  BY <1>3, <1>t DEF Lease, Leased
<1>4. ASSUME NEW w \in Workers, WorkerStep(w)
      PROVE  \/ UNCHANGED lease_counts
             \/ lease_counts' = Release(worker[w].version)
             \/ lease_counts' = Lease(policy_version)
  BY <1>4 DEF WorkerStep, TakeScenario, ScenariosExhausted, WaitForPolicy,
       GiveUpScenario, StartRollout, RolloutFails, RolloutReturns, PutGroup,
       PutTimesOut, queueVars
<1>5. CASE EvalStep
  <2>1. \/ UNCHANGED lease_counts
        \/ lease_counts' = Release(etask.step)
        \/ lease_counts' = Lease(etask.step) /\ etask # NoEval
    BY <1>5 DEF EvalStep, EvalStageTakes, EvalStageCreates, EvalStageLeaves,
       EvalStageEnds, EvalStarts, EvalReturns, EvalCompletes, EvalFails, NoEval,
       queueVars
  <2> QED
    BY <1>1, <1>2, <1>3, <2>1 DEF PendingEvals
<1>6. CASE RequestStop \/ StopNotifies \/ StopPuts \/ RolloutStageJoins
           \/ RolloutStagePuts \/ TrainingStep \/ BackendStep \/ Returned
           \/ UNCHANGED vars
  <2>1. UNCHANGED lease_counts
    BY <1>6 DEF RequestStop, StopNotifies, StopPuts, RolloutStageJoins,
         RolloutStagePuts, TrainingStep, BeginCollect, CollectStep,
         CollectSentinel, CollectAllFailed, CollectStale, CollectZeroVariance,
         CollectGroup, CollectSuspends, BeginTrain, StepLogged, TrainingRaises,
         FinishTraining, BackendStep, TrainReturns, AdaptersPruned,
         RetentionRan, Returned, vars, queueVars
  <2> QED BY <1>1, <2>1
<1> QED
  BY <1>1, <1>2, <1>3, <1>4, <1>5, <1>6 DEF Next, System, TaskStep

(* An eval is scheduled for the current step.                                *)
LEMMA NewPending ==
  ASSUME TypeOK, [Next]_vars
  PROVE  PendingEvals' \subseteq PendingEvals \cup {current_step}
<1>1. CASE Quiet \/ \E step \in Steps : TrainReturns(step)
  <2>1. UNCHANGED evalVars
    BY <1>1 DEF Quiet, TrainReturns
  <2> QED
    BY <2>1 DEF evalVars, PendingEvals
<1>2. CASE EvalStep
  BY <1>2, EvalPending, PendingQueued, NextPending DEF QueuedEvals
<1>3. CASE StepLogged
  BY <1>3, LoggedPending, PendingQueued, NextPending DEF QueuedEvals
<1> QED
  BY <1>1, <1>2, <1>3, EvalsSteps

LEMMA CkptNext ==
  ASSUME TypeOK, TrainsBelowBound, ServedInv, CkptInv, EvalsOrdered,
         [AdaptersNext]_allVars
  PROVE  CkptInv'
<1>n. [Next]_vars
  BY AdaptersStep
<1>f. BackendTrainStep = Newest /\ Newest \in Steps /\ current_step \in Steps
  BY CkptFacts DEF TypeOK, TrainTypeOK
<1>p. Leased' \cup PendingEvals' \subseteq checkpoints
  BY <1>n, NewLeases, NewPending DEF CkptInv, ServedInv
<1>1. CASE (RequestStop \/ TaskStep \/ Returned \/ UNCHANGED vars) /\ UNCHANGED backendVars
  BY <1>1, <1>p, TaskKeepsStep DEF CkptInv, Newest, backendVars
<1>2. CASE CheckpointSaved
  <2>1. /\ checkpoints' = checkpoints \cup {current_step + 1} /\ bpc' = "saved"
        /\ bpc = "training" /\ UNCHANGED <<current_step, loaded, latest_step, unloading>>
    BY <1>2, <1>f DEF CheckpointSaved, Newest, vars, trainVars
  <2>2. current_step + 1 \in Steps
    BY <1>2, <1>f, PipelineAssumption
       DEF CheckpointSaved, TrainsBelowBound, Steps
  <2>3. \A c \in checkpoints' : c <= current_step + 1
    BY <2>1, <1>f, PipelineAssumption DEF CkptInv, Newest, Steps
  <2> QED
    BY <1>p, <2>1, <2>2, <2>3 DEF CkptInv, Newest
<1>3. CASE AdapterReloaded
  <2>1. /\ loaded' = loaded \cup {current_step + 1} /\ latest_step' = current_step + 1
        /\ bpc = "saved" /\ bpc' = "reloaded" /\ current_step + 1 \in Steps
        /\ UNCHANGED <<current_step, checkpoints, unloading>>
    BY <1>3, <1>f DEF AdapterReloaded, Newest, vars, trainVars
  <2> QED
    BY <1>p, <2>1 DEF CkptInv, Newest
<1>4. CASE TrainReturnsStep
  <2>1. /\ current_step' = current_step + 1 /\ bpc = "reloaded" /\ bpc' = "training"
        /\ unloading' \subseteq loaded
        /\ UNCHANGED <<checkpoints, loaded, latest_step>>
    BY <1>4, <1>f DEF TrainReturnsStep, TrainReturns, Newest, Prunable
  <2> QED
    BY <1>p, <2>1 DEF CkptInv, Newest
<1>5. CASE AdapterUnloaded
  <2>1. /\ loaded' \subseteq loaded /\ unloading' \subseteq loaded'
        /\ UNCHANGED <<current_step, checkpoints, latest_step, bpc>>
    BY <1>5 DEF AdapterUnloaded, CkptInv, vars, trainVars
  <2> QED
    BY <1>p, <2>1 DEF CkptInv, Newest
<1>6. CASE PruneReturns
  <2>1. UNCHANGED <<backendVars, current_step>>
    BY <1>6 DEF PruneReturns, AdaptersPruned
  <2> QED
    BY <1>p, <2>1 DEF CkptInv, Newest, backendVars
<1>7. CASE CheckpointRetention
  <2>1. PICK eligible, spared :
          /\ eligible \subseteq checkpoints \ ProtectedCheckpointSteps
          /\ checkpoints' = checkpoints \ (eligible \ spared)
    <3> DEFINE E == IF current_step % RetentionInterval = 0
                    THEN checkpoints \ ProtectedCheckpointSteps ELSE {}
    <3>1. PICK spared \in SUBSET E : checkpoints' = checkpoints \ (E \ spared)
      BY <1>7 DEF CheckpointRetention
    <3>2. E \subseteq checkpoints \ ProtectedCheckpointSteps
      OBVIOUS
    <3> QED BY <3>1, <3>2
  <2>2. /\ RetentionRan /\ UNCHANGED <<loaded, latest_step, bpc, unloading>>
    BY <1>7 DEF CheckpointRetention
  <2>3. tpc = "retain" /\ UNCHANGED <<current_step, lease_counts>>
        /\ PendingEvals' = PendingEvals
    BY <2>2 DEF RetentionRan, queueVars, evalVars, PendingEvals
  <2>4. bpc = "training"
    BY <2>3 DEF ServedInv
  <2>5. Leased' \cup PendingEvals' \cup {current_step} \subseteq ProtectedCheckpointSteps
    BY <2>3 DEF Leased, ProtectedCheckpointSteps, EvalsOrdered
  <2>6. Leased' \cup PendingEvals' \cup {current_step} \subseteq checkpoints'
    BY <1>p, <2>1, <2>5 DEF CkptInv
  <2>7. checkpoints' \subseteq checkpoints
    BY <2>1
  <2> QED
    BY <2>2, <2>3, <2>4, <2>6, <2>7 DEF CkptInv, Newest
<1> QED
  BY <1>1, <1>2, <1>3, <1>4, <1>5, <1>6, <1>7 DEF AdaptersNext, allVars

(* Nor does any other step take the training stage to the pruning.           *)
LEMMA TaskNoPrune ==
  ASSUME RequestStop \/ TaskStep \/ Returned, tpc = "train"
  PROVE  tpc' # "prune"
  BY DEF TaskStep, WorkerStep, TakeScenario, ScenariosExhausted, WaitForPolicy,
         GiveUpScenario, StartRollout, RolloutFails, RolloutReturns, PutGroup,
         PutTimesOut, RequestStop, StopNotifies, StopPuts, RolloutStageJoins,
         RolloutStagePuts, TrainingStep, BeginCollect, CollectStep,
         CollectSentinel, CollectAllFailed, CollectStale, CollectZeroVariance,
         CollectGroup, CollectSuspends, BeginTrain, StepLogged,
         TrainingRaises, FinishTraining, EvalStep, EvalStageTakes,
         EvalStageCreates, EvalStageLeaves, EvalStageEnds, EvalStarts,
         EvalReturns, EvalCompletes, EvalFails, Returned, vars, stateVars,
         trainVars

(* backend.train always returns a new step.                                  *)
LEMMA OrderedWithBackend ==
  ASSUME TypeOK, TrainsBelowBound, ServedInv, CkptInv, EvalsOrdered,
         [AdaptersNext]_allVars
  PROVE  EvalsOrdered'
<1>1. [Next]_vars
  BY AdaptersStep
<1>2. tpc = "train" /\ tpc' = "prune" => current_step' = current_step + 1
  <2> SUFFICES ASSUME tpc = "train", tpc' = "prune" PROVE current_step' = current_step + 1
    OBVIOUS
  <2>1. CASE TrainReturnsStep
    BY <2>1, CkptFacts DEF TrainReturnsStep, TrainReturns, Newest
  <2>2. CASE (RequestStop \/ TaskStep \/ Returned) /\ UNCHANGED backendVars
    BY <2>2, TaskNoPrune
  <2>3. CASE CheckpointSaved \/ AdapterReloaded \/ AdapterUnloaded \/ PruneReturns
             \/ CheckpointRetention \/ UNCHANGED allVars
    BY <2>3 DEF CheckpointSaved, AdapterReloaded, AdapterUnloaded, PruneReturns,
       AdaptersPruned, CheckpointRetention, RetentionRan, allVars, vars, trainVars
  <2> QED
    BY <2>1, <2>2, <2>3 DEF AdaptersNext
<1> QED
  BY <1>1, <1>2, OrderedNext

LEMMA CkptAlways == AdaptersSpec => [](TypeOK /\ CkptInv)
<1>1. AdaptersInit => TrainsBelowBound /\ CkptInv /\ EvalsOrdered
  BY BoundInit, CkptInit, OrderedInit DEF AdaptersInit
<1>2. TypeOK /\ ServedInv /\ TrainsBelowBound /\ CkptInv /\ EvalsOrdered
        /\ [AdaptersNext]_allVars => TrainsBelowBound' /\ CkptInv' /\ EvalsOrdered'
  BY AdaptersStep, BoundNext, CkptNext, OrderedWithBackend
<1> QED
  BY <1>1, <1>2, AdaptersImplementTrainer, TypeCorrect, ServedAlways, PTL
     DEF AdaptersSpec

(* The backend's directories and adapters are of steps of the run, and only  *)
(* loaded adapters are left to unload.                                       *)
THEOREM AdaptersTypeCorrect == AdaptersSpec => []AdaptersTypeOK
<1>1. TypeOK /\ CkptInv => AdaptersTypeOK
  BY CkptFacts
<1> QED
  BY <1>1, CkptAlways, PTL

(* The checkpoint of the current step, of every rollout and eval under way   *)
(* and of every eval still to run is never deleted, whatever the caller's    *)
(* strategy keeps (_protected_checkpoint_steps, delete_checkpoints).         *)
THEOREM CheckpointsKept == AdaptersSpec => []NeededCheckpointsKept
<1>1. TypeOK /\ CkptInv => NeededCheckpointsKept
  BY CkptFacts
<1> QED
  BY <1>1, CkptAlways, PTL

-----------------------------------------------------------------------------
(* PipelineResume. *)

\* Where current_step is what _persist_state last stored, if an eval did not.
Between == {"loop", "collect", "drain", "finish", "finished"}

\* The steps of a run that leave the policy, the stored state and the evals
\* that completed alone.
Elsewhere ==
  /\ UNCHANGED <<current_step, policy_version, next_training_step, persisted,
                 completed_eval_steps>>
  /\ \/ tpc' = tpc
     \/ tpc \in Between /\ tpc' \in Between \cup {"failed"}
     \/ tpc \in {"train", "prune", "retain", "log"} /\ tpc' = "failed"
     \/ tpc \in {"prune", "retain"} /\ tpc' \in {"retain", "log"}

LEMMA RunSteps ==
  ASSUME Next
  PROVE  \/ Elsewhere \/ BeginTrain \/ StepLogged \/ FinishTraining
         \/ EvalCompletes \/ \E step \in Steps : TrainReturns(step)
<1>1. ASSUME NEW w \in Workers, WorkerStep(w) PROVE Elsewhere
  BY <1>1 DEF WorkerStep, TakeScenario, ScenariosExhausted, WaitForPolicy,
       GiveUpScenario, StartRollout, RolloutFails, RolloutReturns, PutGroup,
       PutTimesOut, Elsewhere, stateVars, trainVars
<1>2. CASE RequestStop \/ StopNotifies \/ StopPuts \/ RolloutStageJoins
           \/ RolloutStagePuts \/ Returned \/ (EvalStep /\ ~EvalCompletes)
  BY <1>2 DEF RequestStop, StopNotifies, StopPuts, RolloutStageJoins,
       RolloutStagePuts, Returned, EvalStep, EvalStageTakes, EvalStageCreates,
       EvalStageLeaves, EvalStageEnds, EvalStarts, EvalReturns, EvalFails,
       Elsewhere, vars, stateVars, trainVars
<1>3. CASE BeginCollect \/ CollectStep \/ TrainingRaises
  BY <1>3 DEF BeginCollect, CollectStep, CollectSentinel, CollectAllFailed,
       CollectStale, CollectZeroVariance, CollectGroup, CollectSuspends,
       Dequeue, TrainingRaises, Elsewhere, Between, stateVars
<1>4. CASE AdaptersPruned \/ RetentionRan
  BY <1>4 DEF AdaptersPruned, RetentionRan, Elsewhere, stateVars
<1> QED
  BY <1>1, <1>2, <1>3, <1>4
     DEF Next, System, TaskStep, TrainingStep, BackendStep, EvalStep

-----------------------------------------------------------------------------
(* Completed evals are in state.json as soon as they are in the state, and a *)
(* run starts with those it reads there, unless it is misled.                *)

RememberInv ==
  ~misled => /\ persisted.completed_eval_steps = completed_eval_steps
             /\ evaluated \subseteq completed_eval_steps

LEMMA PersistedFields ==
  ASSUME NEW step, NEW offset, NEW last, NEW completed
  PROVE  /\ Persisted(step, offset, last, completed).training_step = step
         /\ Persisted(step, offset, last, completed).completed_eval_steps = completed
  BY DEF Persisted

LEMMA InitState ==
  ASSUME ResumeInit
  PROVE  /\ current_step = 0 /\ policy_version = 0 /\ next_training_step = 0
         /\ tpc = "loop" /\ backend = 0 /\ saved = 0 /\ evaluated = {}
         /\ completed_eval_steps = {}
         /\ persisted.training_step = 0 /\ persisted.completed_eval_steps = {}
<1>1. FreshState.training_step = 0 /\ FreshState.completed_eval_steps = {}
  BY DEF FreshState, Persisted
<1>2. \/ persisted = FreshState
      \/ \E offset, last : persisted = Persisted(0, offset, last, FreshState.completed_eval_steps)
  BY DEF ResumeInit, Init, StartFrom
<1>3. persisted.training_step = 0 /\ persisted.completed_eval_steps = {}
  BY <1>1, <1>2, PersistedFields
<1> QED
  BY <1>1, <1>3 DEF ResumeInit, Init, StartFrom

\* What leaves the run and its history alone: at most state.json changes.
Aside ==
  DiesWhileStoring \/ OutlivedStep \/ StateUnreadable \/ UNCHANGED resumeVars

LEMMA AsideKeeps ==
  ASSUME Aside
  PROVE  UNCHANGED <<vars, backendStepVars, restarts, historyVars>>
<1>1. CASE OutlivedStep
  BY <1>1 DEF OutlivedStep, OutlivedCompletes, OutlivedFails
<1>2. CASE DiesWhileStoring \/ StateUnreadable \/ UNCHANGED resumeVars
  BY <1>2 DEF DiesWhileStoring, StateUnreadable, resumeVars, diskVars
<1> QED
  BY <1>1, <1>2 DEF Aside

\* A run that is not misled resumes from what was stored last.
LEMMA NotMisled ==
  ASSUME [ResumeNext]_resumeVars, ~misled'
  PROVE  ~misled /\ \A again \in BOOLEAN : NextRun(again) => state_json = persisted
<1>1. CASE Aside
  <2>1. UNCHANGED misled
    BY <1>1, AsideKeeps DEF historyVars
  <2>2. \A again \in BOOLEAN : NextRun(again) => state_json = persisted
    BY DEF NextRun
  <2> QED
    BY <2>1, <2>2
<1>2. CASE BackendTrains
  <2>1. UNCHANGED misled
    BY <1>2 DEF BackendTrains, LocalSaves, NativeSteps, NativeSaves, NativeAdvances,
       historyVars
  <2>2. \A again \in BOOLEAN : NextRun(again) => state_json = persisted
    BY DEF NextRun
  <2> QED
    BY <2>1, <2>2
<1>3. CASE RunStep \/ \E again \in BOOLEAN : NextRun(again)
  <2>1. ~misled
    BY <1>3 DEF RunStep, NextRun
  <2>2. \A again \in BOOLEAN : NextRun(again) => state_json = persisted
    BY DEF NextRun
  <2> QED
    BY <2>1, <2>2
<1> QED
  BY <1>1, <1>2, <1>3 DEF ResumeNext, Aside

\* What the next process starts with.
LEMMA RestartState ==
  ASSUME NEW again \in BOOLEAN, NextRun(again)
  PROVE  /\ backend' \in {backend, saved}
         /\ current_step' = backend' /\ policy_version' = backend'
         /\ next_training_step' = backend' /\ tpc' = "loop"
         /\ UNCHANGED <<saved, evaluated>>
         /\ completed_eval_steps' = state_json.completed_eval_steps
         /\ \/ persisted' = state_json /\ ~(HasEval /\ EvalAtStart)
            \/ /\ persisted'.training_step = backend'
               /\ persisted'.completed_eval_steps = completed_eval_steps'
<1>1. ~torn /\ Restart(state_json, again)
  BY DEF NextRun, ReadStates
<1>2. StartStep(state_json, again) = backend' /\ backend' \in {backend, saved}
  BY DEF NextRun, StartStep
<1>3. /\ current_step' = backend' /\ policy_version' = backend'
      /\ next_training_step' = backend' /\ tpc' = "loop"
      /\ completed_eval_steps' = state_json.completed_eval_steps
  BY <1>1, <1>2 DEF Restart, RestoredEvals
<1>4. CASE HasEval /\ EvalAtStart
  <2>1. \E offset, last : persisted' = Persisted(backend', offset, last, completed_eval_steps')
    BY <1>1, <1>2, <1>3, <1>4 DEF Restart, RestoredEvals
  <2> QED
    BY <1>2, <1>3, <2>1, PersistedFields DEF NextRun
<1>5. CASE ~(HasEval /\ EvalAtStart)
  BY <1>1, <1>2, <1>3, <1>5 DEF Restart, NextRun
<1> QED
  BY <1>4, <1>5

\* What the backend does within train() of a run.
LEMMA BackendState ==
  ASSUME BackendTrains
  PROVE  /\ UNCHANGED <<vars, diskVars, evaluated, misled>>
         /\ \/ UNCHANGED <<backend, saved>>
            \/ /\ tpc = "train" /\ backend = current_step
               /\ backend' \in {backend, current_step + 1}
               /\ saved' \in {saved, current_step + 1}
  BY DEF BackendTrains, LocalSaves, NativeSteps, NativeSaves, NativeAdvances,
     Training, historyVars

LEMMA RememberNext ==
  ASSUME RememberInv, [ResumeNext]_resumeVars
  PROVE  RememberInv'
<1> SUFFICES ASSUME ~misled'
             PROVE  /\ persisted'.completed_eval_steps = completed_eval_steps'
                    /\ evaluated' \subseteq completed_eval_steps'
  BY DEF RememberInv
<1>0. /\ persisted.completed_eval_steps = completed_eval_steps
      /\ evaluated \subseteq completed_eval_steps
  BY NotMisled DEF RememberInv
<1>1. CASE Aside
  BY <1>0, <1>1, AsideKeeps DEF vars, stateVars, historyVars
<1>2. CASE BackendTrains
  BY <1>0, <1>2, BackendState DEF vars, stateVars
<1>3. ASSUME NEW again \in BOOLEAN, NextRun(again)
      PROVE  /\ persisted'.completed_eval_steps = completed_eval_steps'
             /\ evaluated' \subseteq completed_eval_steps'
  <2>1. state_json = persisted
    BY <1>3, NotMisled
  <2> QED
    BY <1>0, <1>3, <2>1, RestartState
<1>4. CASE RunStep
  <2>1. evaluated' = evaluated \cup completed_eval_steps'
    BY <1>4 DEF RunStep
  <2>2. CASE Elsewhere
    BY <1>0, <2>1, <2>2 DEF Elsewhere
  <2>3. CASE BeginTrain \/ \E step \in Steps : TrainReturns(step)
    BY <1>0, <2>1, <2>3 DEF BeginTrain, TrainReturns
  <2>4. CASE StepLogged \/ FinishTraining \/ EvalCompletes
    <3>1. \E step, offset, last :
            persisted' = Persisted(step, offset, last, completed_eval_steps')
      BY <2>4 DEF StepLogged, FinishTraining, EvalCompletes
    <3>2. persisted'.completed_eval_steps = completed_eval_steps'
      BY <3>1, PersistedFields
    <3>3. completed_eval_steps \subseteq completed_eval_steps'
      BY <2>4 DEF StepLogged, FinishTraining, EvalCompletes
    <3> QED
      BY <1>0, <2>1, <3>2, <3>3
  <2> QED
    BY <1>4, <2>2, <2>3, <2>4, RunSteps DEF RunStep
<1> QED
  BY <1>1, <1>2, <1>3, <1>4 DEF ResumeNext, Aside

(* An eval that completed in any run stays in state.json, whenever processes *)
(* die and however often train() is called again (completed_eval_steps), as  *)
(* long as no eval that outlived its run has stored an older list there.     *)
THEOREM EvalsAreRemembered == ResumeSpec => []EvalsRemembered
<1>1. ResumeInit => RememberInv
  BY InitState DEF RememberInv
<1>2. RememberInv /\ [ResumeNext]_resumeVars => RememberInv'
  BY RememberNext
<1>3. RememberInv => EvalsRemembered
  BY DEF RememberInv, EvalsRemembered
<1> QED
  BY <1>1, <1>2, <1>3, PTL DEF ResumeSpec

-----------------------------------------------------------------------------
(* Steps.  What is stored is current_step between two training steps, may be *)
(* the step in training, announced by an eval, and is behind after it.       *)

StepsInv ==
  /\ current_step \in Nat /\ policy_version = current_step
  /\ next_training_step \in {current_step, current_step + 1}
  /\ backend \in {current_step, current_step + 1} /\ saved \in Nat
  /\ tpc \notin {"train", "failed"} =>
       next_training_step = current_step /\ backend = current_step
  /\ HasEval /\ EvalAtStart =>
       /\ persisted.training_step \in (backend - 1)..(backend + 1)
       /\ tpc \in Between => persisted.training_step = current_step
       /\ tpc = "train" => persisted.training_step \in {current_step, current_step + 1}

LEMMA StepsNext ==
  ASSUME StepsInv, [ResumeNext]_resumeVars
  PROVE  StepsInv'
<1> USE DEF StepsInv
<1>1. CASE Aside
  BY <1>1, AsideKeeps DEF vars, stateVars, trainVars, backendStepVars
<1>2. CASE BackendTrains
  BY <1>2, BackendState DEF vars, stateVars, trainVars, Between
<1>3. ASSUME NEW again \in BOOLEAN, NextRun(again) PROVE StepsInv'
  BY <1>3, RestartState
<1>4. CASE RunStep
  <2>1. UNCHANGED <<backend, saved>>
        /\ (tpc = "train" /\ tpc' = "prune" => policy_version' = backend)
    BY <1>4 DEF RunStep, backendStepVars
  <2>2. CASE Elsewhere
    BY <2>1, <2>2 DEF Elsewhere, Between
  <2>3. CASE BeginTrain
    <3>1. /\ tpc = "drain" /\ tpc' = "train" /\ next_training_step' = current_step + 1
          /\ UNCHANGED <<current_step, policy_version, persisted>>
      BY <2>3 DEF BeginTrain, BatchCollected
    <3> QED
      BY <2>1, <3>1 DEF Between
  <2>4. ASSUME NEW step \in Steps, TrainReturns(step) PROVE StepsInv'
    <3>1. /\ current_step' = step /\ policy_version' = step /\ next_training_step' = step
          /\ tpc = "train" /\ tpc' = "prune" /\ UNCHANGED persisted
      BY <2>4 DEF TrainReturns
    <3> QED
      BY <2>1, <3>1 DEF Between
  <2>5. CASE StepLogged \/ FinishTraining
    <3>1. /\ tpc \notin {"train", "failed"} /\ tpc' \in Between
          /\ UNCHANGED <<current_step, policy_version, next_training_step>>
          /\ \E offset, last, completed :
               persisted' = Persisted(current_step, offset, last, completed)
      BY <2>5 DEF StepLogged, FinishTraining, BatchCollected, Between
    <3>2. persisted'.training_step = current_step
      BY <3>1, PersistedFields
    <3> QED
      BY <2>1, <3>1, <3>2 DEF Between
  <2>6. CASE EvalCompletes
    <3>1. /\ UNCHANGED <<current_step, policy_version, next_training_step, tpc>>
          /\ \E offset, last, completed :
               persisted' = Persisted(next_training_step, offset, last, completed)
      BY <2>6 DEF EvalCompletes, trainVars
    <3>2. persisted'.training_step = next_training_step
      BY <3>1, PersistedFields
    <3> QED
      BY <2>1, <3>1, <3>2 DEF Between
  <2> QED
    BY <1>4, <2>2, <2>3, <2>4, <2>5, <2>6, RunSteps DEF RunStep
<1> QED
  BY <1>1, <1>2, <1>3, <1>4 DEF ResumeNext, Aside

(* The served policy's version is the newest checkpoint's step in every run, *)
(* behind it only in backend.train, whatever was stored; and state.json as   *)
(* the run stored it is never more than a step off, whenever processes die   *)
(* (train, _persist_state, _run_eval).                                       *)
THEOREM StepsAlwaysAgree == ResumeSpec => []StepsAgree
<1>1. ResumeInit => StepsInv
  BY InitState DEF StepsInv
<1>2. StepsInv /\ [ResumeNext]_resumeVars => StepsInv'
  BY StepsNext
<1>3. StepsInv => StepsAgree
  BY DEF StepsInv, StepsAgree
<1> QED
  BY <1>1, <1>2, <1>3, PTL DEF ResumeSpec

-----------------------------------------------------------------------------
(* Sums over the scenarios.                                                  *)

Less == OpToRel(<, Nat)

LEMMA NatOrdered == IsWellFoundedOn(Less, Nat)
  BY NatLessThanWellFounded DEF Less

\* A set of numbers has a least one.
LEMMA LeastOf ==
  ASSUME NEW T \in SUBSET Nat, T # {}
  PROVE  \E n \in T : \A m \in T : n <= m
<1>1. PICK n \in T : \A m \in T : ~ (<<m, n>> \in Less)
  BY NatOrdered, WFMin
<1>2. ASSUME NEW m \in T, m < n PROVE FALSE
  BY <1>1, <1>2 DEF Less, OpToRel
<1> QED
  BY <1>2

AnyOf(s) == CHOOSE q \in s : TRUE

\* A step of the sum of v over a set.
SumStep(h, s, v) == IF s = {} THEN 0 ELSE v[AnyOf(s)] + h[s \ {AnyOf(s)}]

IsSum(h, v, G) == \A s \in SUBSET G : h[s] = SumStep(h, s, v)

\* What the elements of a finite set are like when one is taken away.
LEMMA WithoutAny ==
  ASSUME NEW G, IsFiniteSet(G), NEW s \in SUBSET G, s # {}
  PROVE  /\ AnyOf(s) \in s /\ s \ {AnyOf(s)} \in SUBSET G
         /\ IsFiniteSet(s) /\ Cardinality(s) \in Nat
         /\ Cardinality(s \ {AnyOf(s)}) = Cardinality(s) - 1
<1>1. AnyOf(s) \in s
  BY DEF AnyOf
<1>2. IsFiniteSet(s) /\ Cardinality(s) \in Nat
  BY FS_Subset, FS_CardinalityType
<1> QED
  BY <1>1, <1>2, FS_RemoveElement

\* The function the sum is defined by exists.
LEMMA SumRecurs ==
  ASSUME NEW v, NEW G, IsFiniteSet(G)
  PROVE  \E h : h = [s \in SUBSET G |-> SumStep(h, s, v)]
<1> DEFINE Upto(h, n) == \A s \in SUBSET G : Cardinality(s) <= n => h[s] = SumStep(h, s, v)
           Missing == {n \in Nat : ~ \E h : Upto(h, n)}
<1>1. \A s \in SUBSET G : IsFiniteSet(s) /\ Cardinality(s) \in Nat
  BY FS_Subset, FS_CardinalityType
<1>2. \A s \in SUBSET G : s # {} =>
        /\ s \ {AnyOf(s)} \in SUBSET G
        /\ Cardinality(s \ {AnyOf(s)}) = Cardinality(s) - 1
  BY WithoutAny
<1>3. Missing = {}
  <2> SUFFICES ASSUME Missing # {} PROVE FALSE
    OBVIOUS
  <2>1. PICK n \in Missing : \A m \in Missing : n <= m
    <3>1. Missing \in SUBSET Nat
      OBVIOUS
    <3> HIDE DEF Missing
    <3> QED
      BY <3>1, LeastOf
  <2>2. n # 0
    <3>1. \A s \in SUBSET G : Cardinality(s) <= 0 => s = {}
      BY <1>1, FS_EmptySet
    <3>2. Upto([s \in SUBSET G |-> 0], 0)
      BY <3>1 DEF SumStep
    <3> HIDE DEF Upto
    <3> QED
      BY <3>2
  <2>3. n \in Nat /\ n - 1 \in Nat /\ n - 1 \notin Missing
    <3> HIDE DEF Upto
    <3> QED
      BY <2>1, <2>2
  <2>4. PICK h : Upto(h, n - 1)
    <3> HIDE DEF Upto
    <3> QED
      BY <2>3
  <2> DEFINE longer == [s \in SUBSET G |-> IF Cardinality(s) <= n - 1 THEN h[s] ELSE SumStep(h, s, v)]
  <2>5. ASSUME NEW s \in SUBSET G, Cardinality(s) <= n
        PROVE  longer[s] = SumStep(longer, s, v)
    <3>1. longer[s] = SumStep(h, s, v)
      BY <2>4
    <3>2. s # {} => longer[s \ {AnyOf(s)}] = h[s \ {AnyOf(s)}]
      BY <1>1, <1>2, <2>3, <2>5
    <3> HIDE DEF longer
    <3> QED
      BY <3>1, <3>2 DEF SumStep
  <2>6. Upto(longer, n)
    <3> HIDE DEF longer
    <3> QED
      BY <2>5
  <2> HIDE DEF Upto, longer
  <2> QED
    BY <2>1, <2>6
<1>4. PICK h : Upto(h, Cardinality(G))
  <2>1. Cardinality(G) \in Nat
    BY <1>1
  <2> HIDE DEF Upto
  <2> QED
    BY <1>3, <2>1
<1>5. \A s \in SUBSET G : Cardinality(s) <= Cardinality(G)
  BY FS_Subset
<1> DEFINE k == [s \in SUBSET G |-> h[s]]
<1>6. ASSUME NEW s \in SUBSET G PROVE k[s] = SumStep(k, s, v)
  <2>1. k[s] = SumStep(h, s, v)
    BY <1>4, <1>5
  <2>2. s # {} => k[s \ {AnyOf(s)}] = h[s \ {AnyOf(s)}]
    BY <1>2
  <2> HIDE DEF k
  <2> QED
    BY <2>1, <2>2 DEF SumStep
<1>7. k = [s \in SUBSET G |-> SumStep(k, s, v)]
  <2>1. k = [s \in SUBSET G |-> k[s]]
    OBVIOUS
  <2> HIDE DEF k
  <2>2. [s \in SUBSET G |-> k[s]] = [s \in SUBSET G |-> SumStep(k, s, v)]
    BY <1>6
  <2> QED
    BY <2>1, <2>2
<1> HIDE DEF k
<1> QED
  BY <1>7

\* Where no number grows but by one each in D, the sum grows by the size of D
\* at most.
LEMMA SumsCompare ==
  ASSUME NEW G, IsFiniteSet(G), NEW D \in SUBSET G,
         NEW v \in [G -> Nat], NEW u \in [G -> Nat],
         \A q \in G : u[q] <= v[q] + (IF q \in D THEN 1 ELSE 0),
         NEW h, IsSum(h, v, G), NEW k, IsSum(k, u, G)
  PROVE  /\ h[G] \in Nat /\ k[G] \in Nat
         /\ k[G] <= h[G] + Cardinality(D)
<1> DEFINE Holds(s) == /\ h[s] \in Nat /\ k[s] \in Nat
                       /\ k[s] <= h[s] + Cardinality(s \cap D)
           Wrong == {n \in Nat : \E s \in SUBSET G : Cardinality(s) = n /\ ~Holds(s)}
<1>1. \A s \in SUBSET G : IsFiniteSet(s) /\ Cardinality(s) \in Nat
  BY FS_Subset, FS_CardinalityType
<1>2. Wrong = {}
  <2> SUFFICES ASSUME Wrong # {} PROVE FALSE
    OBVIOUS
  <2>1. PICK n \in Wrong : \A m \in Wrong : n <= m
    <3>1. Wrong \in SUBSET Nat
      OBVIOUS
    <3> HIDE DEF Wrong
    <3> QED
      BY <3>1, LeastOf
  <2>2. PICK s \in SUBSET G : Cardinality(s) = n /\ ~Holds(s)
    <3> HIDE DEF Holds
    <3> QED
      BY <2>1
  <2>3. CASE s = {}
    <3>1. h[s] = 0 /\ k[s] = 0 /\ s \cap D = {}
      BY <2>3 DEF IsSum, SumStep
    <3>2. Cardinality(s \cap D) = 0
      BY <3>1, FS_EmptySet
    <3> QED
      BY ONLY <2>2, <3>1, <3>2
  <2>4. CASE s # {}
    <3>1. PICK q : q = AnyOf(s)
      OBVIOUS
    <3>2. /\ q \in s /\ q \in G /\ s \ {q} \in SUBSET G
          /\ Cardinality(s \ {q}) = n - 1 /\ n \in Nat
      BY <2>2, <2>4, <3>1, WithoutAny
    <3>3. h[s] = v[q] + h[s \ {q}] /\ k[s] = u[q] + k[s \ {q}]
      BY <2>4, <3>1 DEF IsSum, SumStep
    <3>4. Holds(s \ {q})
      <4>1. n - 1 \notin Wrong /\ n - 1 \in Nat
        <5>1. Cardinality(s \ {q}) \in Nat
          BY <1>1, <3>2
        <5> HIDE DEF Wrong
        <5> QED
          BY <2>1, <3>2, <5>1
      <4> HIDE DEF Holds
      <4> QED
        BY <3>2, <4>1
    <3>5. /\ IsFiniteSet((s \ {q}) \cap D) /\ Cardinality((s \ {q}) \cap D) \in Nat
          /\ Cardinality(s \cap D) =
               Cardinality((s \ {q}) \cap D) + (IF q \in D THEN 1 ELSE 0)
      <4>1. (s \ {q}) \cap D \in SUBSET G
        OBVIOUS
      <4>2. IsFiniteSet((s \ {q}) \cap D) /\ Cardinality((s \ {q}) \cap D) \in Nat
        BY <1>1, <4>1
      <4>3. s \cap D = IF q \in D THEN ((s \ {q}) \cap D) \cup {q} ELSE (s \ {q}) \cap D
        BY <3>2
      <4>4. q \notin (s \ {q}) \cap D
        OBVIOUS
      <4>5. CASE q \in D
        <5>1. Cardinality(((s \ {q}) \cap D) \cup {q}) = Cardinality((s \ {q}) \cap D) + 1
          BY <4>2, <4>4, FS_AddElement
        <5> QED
          BY <4>2, <4>3, <4>5, <5>1
      <4>6. CASE q \notin D
        <5>1. s \cap D = (s \ {q}) \cap D
          BY <4>3, <4>6
        <5>2. Cardinality(s \cap D) = Cardinality((s \ {q}) \cap D)
          BY <5>1
        <5> QED
          BY ONLY <4>2, <4>6, <5>2
      <4> QED
        BY <4>2, <4>5, <4>6
    <3>6. v[q] \in Nat /\ u[q] \in Nat /\ u[q] <= v[q] + (IF q \in D THEN 1 ELSE 0)
      BY <3>2
    <3> QED
      BY <2>2, <3>3, <3>4, <3>5, <3>6
  <2> QED
    BY <2>3, <2>4
<1>3. Holds(G)
  <2>1. G \in SUBSET G /\ Cardinality(G) \in Nat
    BY <1>1
  <2> HIDE DEF Holds
  <2> QED
    BY <1>2, <2>1
<1>4. G \cap D = D
  OBVIOUS
<1> QED
  BY <1>3, <1>4

\* How often a scenario was trained on again.
Again(n) == IF n > 1 THEN n - 1 ELSE 0
Extra(t) == [s \in Scenarios |-> Again(t[s])]

LEMMA ScenariosFinite == IsFiniteSet(Scenarios)
  BY PipelineAssumption, FS_Interval DEF Scenarios

LEMMA RetrainedSum ==
  \E h : IsSum(h, Extra(times), Scenarios) /\ MapThenSumSet(Retrained, Scenarios) = h[Scenarios]
<1> DEFINE h == CHOOSE k : k = [s \in SUBSET Scenarios |->
                  IF s = {} THEN 0 ELSE Retrained(AnyOf(s)) + k[s \ {AnyOf(s)}]]
<1>1. MapThenSumSet(Retrained, Scenarios) = h[Scenarios]
  BY DEF MapThenSumSet, MapThenFoldSet, AnyOf
<1>2. IsSum(h, Extra(times), Scenarios)
  <2>1. PICK k : k = [s \in SUBSET Scenarios |-> SumStep(k, s, Extra(times))]
    BY ScenariosFinite, SumRecurs
  <2>2. ASSUME NEW g
        PROVE  [s \in SUBSET Scenarios |-> SumStep(g, s, Extra(times))]
               = [s \in SUBSET Scenarios |->
                    IF s = {} THEN 0 ELSE Retrained(AnyOf(s)) + g[s \ {AnyOf(s)}]]
    <3>1. \A s \in SUBSET Scenarios : s # {} => Extra(times)[AnyOf(s)] = Retrained(AnyOf(s))
      <4>1. \A s \in SUBSET Scenarios : s # {} => AnyOf(s) \in Scenarios
        BY DEF AnyOf
      <4> QED
        BY <4>1 DEF Extra, Again, Retrained
    <3> QED
      BY <3>1 DEF SumStep
  <2>3. h = [s \in SUBSET Scenarios |->
               IF s = {} THEN 0 ELSE Retrained(AnyOf(s)) + h[s \ {AnyOf(s)}]]
    <3>1. k = [s \in SUBSET Scenarios |->
                 IF s = {} THEN 0 ELSE Retrained(AnyOf(s)) + k[s \ {AnyOf(s)}]]
      BY <2>1, <2>2
    <3> QED
      BY <3>1
  <2> HIDE DEF h
  <2>4. h = [s \in SUBSET Scenarios |-> SumStep(h, s, Extra(times))]
    BY <2>2, <2>3
  <2> QED
    BY <2>4 DEF IsSum
<1> QED
  BY <1>1, <1>2

-----------------------------------------------------------------------------
(* A run keeps its types over restarts.                                      *)

StoredStates ==
  [scenario_offset : 0..NumScenarios, training_step : Steps,
   last_eval_step : Steps, completed_eval_steps : SUBSET Steps]

RunTypeInv ==
  /\ TypeOK /\ TrainsBelowBound /\ StepsInv
  /\ backend \in Steps /\ saved \in Steps
  /\ state_json \in StoredStates /\ outlived \subseteq StoredStates

LEMMA StoredOffset ==
  ASSUME NEW stored \in StoredStates
  PROVE  Min({stored.scenario_offset, NumScenarios}) = stored.scenario_offset
<1>1. stored.scenario_offset \in Nat /\ stored.scenario_offset <= NumScenarios
  BY PipelineAssumption DEF StoredStates
<1> QED
  BY <1>1, PipelineAssumption DEF Min

LEMMA OutlivesTyped ==
  ASSUME TypeOK
  PROVE  persisted \in StoredStates /\ Outlives \subseteq StoredStates
<1>1. persisted \in StoredStates
  BY DEF TypeOK, StateTypeOK, StoredStates
<1>2. /\ next_training_step \in Steps /\ scenario_offset \in 0..NumScenarios
      /\ last_eval_step \in Steps /\ completed_eval_steps \subseteq Steps
      /\ etask.step \in Steps
  BY DEF TypeOK, StateTypeOK, EvalTypeOK
<1>3. completed_eval_steps \cup {etask.step} \subseteq Steps
  BY <1>2
<1>4. Persisted(next_training_step, scenario_offset, last_eval_step,
                completed_eval_steps \cup {etask.step}) \in StoredStates
  BY <1>2, <1>3, PersistedType DEF StoredStates
<1> QED
  BY <1>1, <1>4 DEF Outlives

\* What steps that are not the next run's make of the stored states.
LEMMA StatesTyped ==
  ASSUME state_json \in StoredStates, outlived \subseteq StoredStates,
         persisted' \in StoredStates, Aside \/ RunStep
  PROVE  state_json' \in StoredStates /\ outlived' \subseteq StoredStates
<1>1. CASE OutlivedStep
  BY <1>1 DEF OutlivedStep, OutlivedCompletes, OutlivedFails
<1>2. CASE DiesWhileStoring \/ StateUnreadable \/ UNCHANGED resumeVars
  BY <1>2 DEF DiesWhileStoring, StateUnreadable, resumeVars, diskVars
<1>3. CASE RunStep
  BY <1>3 DEF RunStep
<1> QED
  BY <1>1, <1>2, <1>3 DEF Aside

LEMMA RestartType ==
  ASSUME RunTypeInv, NEW again \in BOOLEAN, NextRun(again)
  PROVE  TypeOK'
<1>1. ~torn /\ Restart(state_json, again)
  BY DEF NextRun, ReadStates
<1> DEFINE step == StartStep(state_json, again)
           last == IF HasEval /\ EvalAtStart THEN step ELSE state_json.last_eval_step
<1>2. step \in Steps
  BY DEF RunTypeInv, StartStep
<1>3. /\ state_json.scenario_offset \in 0..NumScenarios
      /\ state_json.last_eval_step \in Steps
      /\ state_json.completed_eval_steps \subseteq Steps
  BY DEF RunTypeInv, StoredStates
<1>4. Min({state_json.scenario_offset, NumScenarios}) = state_json.scenario_offset
  BY StoredOffset DEF RunTypeInv
<1>5. last \in Steps
  BY <1>2, <1>3
<1>6. 0 \in Steps
  BY PipelineAssumption DEF Steps
<1> HIDE DEF step, last
<1>7. StateTypeOK'
  <2>1. Persisted(step, state_json.scenario_offset, last, state_json.completed_eval_steps) \in
          [scenario_offset : 0..NumScenarios, training_step : Steps,
           last_eval_step : Steps, completed_eval_steps : SUBSET Steps]
    BY <1>2, <1>3, <1>5, PersistedType
  <2>2. persisted' \in {state_json, Persisted(step, state_json.scenario_offset, last,
                                             state_json.completed_eval_steps)}
    BY <1>1, <1>4 DEF Restart, RestoredEvals, step, last
  <2>3. persisted' \in [scenario_offset : 0..NumScenarios, training_step : Steps,
                        last_eval_step : Steps, completed_eval_steps : SUBSET Steps]
    BY <2>1, <2>2 DEF RunTypeInv, StoredStates
  <2>4. /\ done' = FALSE /\ policy_version' = step /\ next_training_step' = step
        /\ scenario_offset' = state_json.scenario_offset /\ last_eval_step' = last
        /\ completed_eval_steps' = state_json.completed_eval_steps
    BY <1>1, <1>4 DEF Restart, RestoredEvals, step, last
  <2> QED
    BY <1>2, <1>3, <1>5, <2>3, <2>4 DEF StateTypeOK
<1>8. QueueTypeOK'
  <2>1. output_queue' = <<>> /\ lease_counts' = [s \in Steps |-> 0]
    BY <1>1 DEF Restart
  <2> QED
    BY <2>1, EmptyType, PipelineAssumption DEF QueueTypeOK
<1>9. RolloutTypeOK'
  <2>1. worker' = [w \in Workers |-> WorkerAt("fetch")] /\ rstage' = "working" /\ stop_tasks' = {}
    BY <1>1 DEF Restart
  <2>2. WorkerAt("fetch") \in Worker
    BY WorkerAtType DEF WorkerPc
  <2> QED
    BY <2>1, <2>2 DEF RolloutTypeOK
<1>10. TrainTypeOK'
  <2>1. /\ tpc' = "loop" /\ current_step' = step /\ batch' = <<>>
        /\ stop_at_step' = IF MaxSteps = Unlimited THEN Unlimited ELSE step + MaxSteps
        /\ saw_sentinel' = FALSE /\ should_eval' = FALSE /\ discard_count' = 0
    BY <1>1 DEF Restart, step
  <2>2. stop_at_step' \in Nat \cup {Unlimited}
    BY <1>2, <2>1, PipelineAssumption DEF Steps
  <2> QED
    BY <1>2, <2>1, <2>2, EmptyType DEF TrainTypeOK, TrainPc
<1>11. EvalTypeOK'
  <2>1. /\ eval_queue' \in {<<>>, <<step>>} /\ scheduled_eval_steps' \in {{}, {step}}
        /\ epc' \in {"poll", "done"} /\ eval_next' = 0 /\ etask' = NoEval
    BY <1>1 DEF Restart, step
  <2>2. <<>> \in Seq(Steps) /\ <<step>> \in Seq(Steps)
    BY <1>2
  <2>3. NoEval \in [pc : {"none", "created", "running", "logging"}, step : Steps]
    BY <1>6 DEF NoEval
  <2> QED
    BY <1>2, <1>6, <2>1, <2>2, <2>3 DEF EvalTypeOK
<1>12. fate' \in [Scenarios -> Fates]
  <2>1. fate \in [Scenarios -> Fates]
    BY DEF RunTypeInv, TypeOK
  <2>2. fate' = [s \in Scenarios |->
                   CASE s > Min({state_json.scenario_offset, NumScenarios}) -> "none"
                     [] s \in Skipped(Min({state_json.scenario_offset, NumScenarios})) -> "dropped"
                     [] OTHER -> fate[s]]
    BY <1>1 DEF Restart
  <2>3. \A s \in Scenarios : fate'[s] \in {"none", "dropped", fate[s]}
    BY <2>2
  <2>4. DOMAIN fate' = Scenarios /\ fate' = [s \in Scenarios |-> fate'[s]]
    BY <2>2
  <2> QED
    BY <2>1, <2>3, <2>4 DEF Fates
<1> QED
  BY <1>7, <1>8, <1>9, <1>10, <1>11, <1>12 DEF TypeOK

LEMMA RunTypeInit == ResumeInit => RunTypeInv
<1> SUFFICES ASSUME ResumeInit PROVE RunTypeInv
  OBVIOUS
<1>1. TypeOK /\ TrainsBelowBound
  BY InitType, BoundInit DEF ResumeInit
<1>2. StepsInv
  BY InitState DEF StepsInv
<1>3. state_json \in StoredStates /\ outlived \subseteq StoredStates
  BY <1>1, OutlivesTyped DEF ResumeInit
<1> QED
  BY <1>1, <1>2, <1>3, InitState, PipelineAssumption DEF RunTypeInv, Steps

LEMMA RunTypeNext ==
  ASSUME RunTypeInv, [ResumeNext]_resumeVars
  PROVE  RunTypeInv'
<1>1. StepsInv'
  BY StepsNext DEF RunTypeInv
<1>2. CASE Aside
  <2>1. UNCHANGED <<vars, backend, saved>>
    BY <1>2, AsideKeeps DEF backendStepVars
  <2>2. TypeOK' /\ TrainsBelowBound'
    BY <2>1, NextType, BoundNext DEF RunTypeInv
  <2>3. persisted' \in StoredStates
    BY <2>2 DEF TypeOK, StateTypeOK, StoredStates
  <2> QED
    BY <1>1, <1>2, <2>1, <2>2, <2>3, StatesTyped DEF RunTypeInv
<1>3. CASE BackendTrains
  <2>1. UNCHANGED <<vars, diskVars>>
        /\ \/ UNCHANGED <<backend, saved>>
           \/ /\ tpc = "train"
              /\ backend' \in {backend, current_step + 1}
              /\ saved' \in {saved, current_step + 1}
    BY <1>3, BackendState
  <2>2. TypeOK' /\ TrainsBelowBound'
    BY <2>1, NextType, BoundNext DEF RunTypeInv
  <2>3. backend' \in Steps /\ saved' \in Steps
    BY <2>1, PipelineAssumption DEF RunTypeInv, TrainsBelowBound, TypeOK, TrainTypeOK, Steps
  <2> QED
    BY <1>1, <2>1, <2>2, <2>3 DEF RunTypeInv, diskVars
<1>4. CASE RunStep
  <2>1. Next /\ UNCHANGED <<backend, saved>>
    BY <1>4 DEF RunStep, backendStepVars
  <2>2. TypeOK' /\ TrainsBelowBound'
    BY <2>1, NextType, BoundNext DEF RunTypeInv
  <2>3. persisted' \in StoredStates
    BY <2>2 DEF TypeOK, StateTypeOK, StoredStates
  <2> QED
    BY <1>1, <1>4, <2>1, <2>2, <2>3, StatesTyped DEF RunTypeInv
<1>5. ASSUME NEW again \in BOOLEAN, NextRun(again) PROVE RunTypeInv'
  <2>1. backend' \in {backend, saved} /\ UNCHANGED saved /\ tpc' = "loop"
    BY <1>5, RestartState
  <2>2. TypeOK'
    BY <1>5, RestartType
  <2>3. persisted' \in StoredStates
    BY <2>2 DEF TypeOK, StateTypeOK, StoredStates
  <2>4. state_json' = persisted' /\ outlived' \subseteq outlived \cup Outlives
    BY <1>5 DEF NextRun, Restart
  <2>5. state_json' \in StoredStates /\ outlived' \subseteq StoredStates
    BY <2>3, <2>4, OutlivesTyped DEF RunTypeInv
  <2> QED
    BY <1>1, <2>1, <2>2, <2>5 DEF RunTypeInv, TrainsBelowBound
<1> QED
  BY <1>2, <1>3, <1>4, <1>5 DEF ResumeNext, Aside

-----------------------------------------------------------------------------
(* Over restarts a scenario before the offset may be in no place although    *)
(* nothing is known to have become of it, so that only a part of PlacesInv   *)
(* is left: no scenario is in two places, and none that is still to come is  *)
(* in one.                                                                   *)

Apart(s) ==
  /\ AtMostOne(HeldByWorkers(s)) /\ AtMostOne(Queued(s))
  /\ HeldByWorkers(s) = {} \/ Queued(s) = {}
  /\ InBatch(s) => HeldByWorkers(s) = {} /\ Queued(s) = {}
  /\ s > scenario_offset =>
       HeldByWorkers(s) = {} /\ Queued(s) = {} /\ ~InBatch(s)

\* This run may train on it from now on, or is about to.
ToCome(s) ==
  s > scenario_offset \/ HeldByWorkers(s) # {} \/ Queued(s) # {} \/ InBatch(s)

\* What a step of a run does to a scenario.
Moved(s) == Apart(s)' /\ (ToCome(s)' => ToCome(s))

LEMMA MovedElsewhere ==
  ASSUME TypeOK, UNCHANGED scenario_offset,
         \A w \in Workers :
           /\ worker'[w].scenario = worker[w].scenario \/ worker[w].pc \notin HeldPc
           /\ worker'[w].pc \in HeldPc <=> worker[w].pc \in HeldPc,
         \/ output_queue' = output_queue
         \/ output_queue' = Append(output_queue, Sentinel),
         batch' \in {batch, <<>>},
         NEW s \in Scenarios, Apart(s)
  PROVE  Moved(s)
<1>1. HeldByWorkers(s)' = HeldByWorkers(s)
  BY DEF HeldByWorkers, HeldPc
<1>2. Queued(s)' = Queued(s)
  <2>1. CASE output_queue' = output_queue
    BY <2>1 DEF Queued
  <2>2. CASE output_queue' = Append(output_queue, Sentinel)
    <3>1. Sentinel.scenario # s
      BY PipelineAssumption DEF Sentinel, Scenarios
    <3> QED
      BY <2>2, <3>1, QueuedAppended, SentinelType DEF TypeOK
  <2> QED
    BY <2>1, <2>2
<1>3. InBatch(s)' => InBatch(s)
  BY DEF InBatch
<1> QED
  BY <1>1, <1>2, <1>3 DEF Moved, Apart, ToCome, AtMostOne

LEMMA MovedShuffled ==
  ASSUME TypeOK, Shuffles, NEW s \in Scenarios, Apart(s)
  PROVE  Moved(s)
<1>1. /\ UNCHANGED scenario_offset
      /\ worker' = worker \/ worker' = Woken
      /\ \/ output_queue' = output_queue
         \/ output_queue' = Append(output_queue, Sentinel)
      /\ batch' \in {batch, <<>>}
  <2>1. CASE RequestStop \/ StopNotifies \/ StopPuts \/ RolloutStageJoins
             \/ RolloutStagePuts \/ EvalStep
    BY <2>1 DEF RequestStop, StopNotifies, StopPuts, RolloutStageJoins,
       RolloutStagePuts, EvalStep, EvalStageTakes, EvalStageCreates,
       EvalStageLeaves, EvalStageEnds, EvalStarts, EvalReturns, EvalCompletes,
       EvalFails, stateVars, queueVars, rolloutVars, trainVars
  <2>2. CASE BeginCollect \/ CollectSuspends \/ BeginTrain \/ StepLogged
             \/ TrainingRaises \/ AdaptersPruned \/ RetentionRan \/ FinishTraining
    BY <2>2 DEF BeginCollect, CollectSuspends, BeginTrain, StepLogged,
       TrainingRaises, AdaptersPruned, RetentionRan, FinishTraining,
       stateVars, queueVars, rolloutVars
  <2> QED
    BY <2>1, <2>2 DEF Shuffles
<1>2. \A w \in Workers :
        /\ worker'[w].scenario = worker[w].scenario
        /\ worker'[w].pc \in HeldPc <=> worker[w].pc \in HeldPc
  BY <1>1, WokenPlaces
<1> QED
  BY <1>1, <1>2, MovedElsewhere

LEMMA MovedByWorker ==
  ASSUME TypeOK, NEW w \in Workers, WorkerStep(w), NEW s \in Scenarios, Apart(s)
  PROVE  Moved(s)
<1>t. /\ worker \in [Workers -> Worker] /\ scenario_offset \in 0..NumScenarios
      /\ QueueTypeOK
  BY DEF TypeOK, RolloutTypeOK, StateTypeOK
<1> USE DEF Moved, Apart, ToCome
<1>1. CASE TakeScenario(w)
  <2>1. /\ \A v \in Workers \ {w} : worker'[v] = worker[v]
        /\ worker[w].pc = "fetch" /\ worker'[w].pc = "check"
        /\ worker'[w].scenario = scenario_offset + 1
        /\ scenario_offset' = scenario_offset + 1
        /\ UNCHANGED <<output_queue, batch>>
    BY <1>1, <1>t DEF TakeScenario, Worker, trainVars, queueVars
  <2>2. Queued(s)' = Queued(s) /\ (InBatch(s)' <=> InBatch(s))
    BY <2>1 DEF Queued, InBatch
  <2>3. HeldByWorkers(s)' =
          HeldByWorkers(s) \cup (IF s = scenario_offset + 1 THEN {w} ELSE {})
    BY <2>1 DEF HeldByWorkers
  <2>4. s \in Nat /\ scenario_offset \in Nat
    BY <1>t, PipelineAssumption DEF Scenarios
  <2>5. s > scenario_offset' => s > scenario_offset /\ s # scenario_offset + 1
    BY <2>1, <2>4
  <2>6. s = scenario_offset + 1 => s > scenario_offset
    BY <2>4
  <2> QED
    BY <2>2, <2>3, <2>5, <2>6 DEF AtMostOne
<1>2. CASE Retires(w) \/ Delivers(w)
  <2>1. /\ \A v \in Workers \ {w} : worker'[v] = worker[v]
        /\ worker[w].pc \in HeldPc /\ worker'[w].pc \notin HeldPc
        /\ UNCHANGED <<scenario_offset, batch>>
    BY <1>2 DEF Retires, Delivers, HeldPc, trainVars
  <2>2. HeldByWorkers(s)' = HeldByWorkers(s) \ {w}
        /\ (w \in HeldByWorkers(s) <=> worker[w].scenario = s)
    BY <2>1 DEF HeldByWorkers, HeldPc
  <2>3. InBatch(s)' <=> InBatch(s)
    BY <2>1 DEF InBatch
  <2>4. CASE Retires(w)
    <3>1. Queued(s)' = Queued(s)
      BY <2>4 DEF Retires, Queued
    <3> QED
      BY <2>1, <2>2, <2>3, <3>1 DEF AtMostOne
  <2>5. CASE Delivers(w)
    <3>1. PICK outcome \in GroupKinds :
            output_queue' = Append(output_queue, GroupOf(w, outcome))
      BY <2>5 DEF Delivers
    <3>2. GroupOf(w, outcome) \in Group /\ GroupOf(w, outcome).scenario = worker[w].scenario
      <4>1. GroupOf(w, outcome) \in Group
        BY <3>1, GroupOfType DEF TypeOK
      <4> QED
        BY <4>1 DEF GroupOf
    <3>3. Queued(s)' = Queued(s) \cup
            (IF worker[w].scenario = s THEN {Len(output_queue) + 1} ELSE {})
      BY <1>t, <3>1, <3>2, QueuedAppended
    <3> QED
      BY <2>1, <2>2, <2>3, <3>3 DEF AtMostOne
  <2> QED
    BY <1>2, <2>4, <2>5
<1>3. CASE GoesOn(w)
  <2>1. \A v \in Workers :
           /\ worker'[v].scenario = worker[v].scenario \/ worker[v].pc \notin HeldPc
           /\ worker'[v].pc \in HeldPc <=> worker[v].pc \in HeldPc
    BY <1>3 DEF GoesOn
  <2> QED
    BY <1>3, <2>1, MovedElsewhere DEF GoesOn, trainVars
<1> QED
  BY <1>1, <1>2, <1>3, WorkerDoes

LEMMA MovedCollecting ==
  ASSUME TypeOK, CollectStep, ~CollectSuspends, NEW s \in Scenarios, Apart(s)
  PROVE  Moved(s)
<1>1. /\ Dequeue /\ UNCHANGED <<worker, scenario_offset>>
      /\ batch' \in {batch, <<>>, Append(batch, Item)}
  BY DEF CollectStep, CollectSentinel, CollectAllFailed, CollectStale,
         CollectZeroVariance, CollectGroup, Dequeue, stateVars, rolloutVars
<1>2. HeldByWorkers(s)' = HeldByWorkers(s)
  BY <1>1 DEF HeldByWorkers
<1>3. /\ AtMostOne(Queued(s)')
      /\ Item.scenario = s => Queued(s) # {} /\ Queued(s)' = {}
      /\ Item.scenario # s => (Queued(s)' = {} <=> Queued(s) = {})
  BY <1>1, QueuedShifted DEF Apart, TypeOK
<1>4. InBatch(s)' => InBatch(s) \/ Item.scenario = s
  <2>1. CASE batch' \in {batch, <<>>}
    BY <2>1 DEF InBatch
  <2>2. CASE batch' = Append(batch, Item)
    <3>1. output_queue \in Seq(Group) /\ output_queue # <<>> /\ batch \in Seq(Group)
      BY <1>1 DEF TypeOK, QueueTypeOK, TrainTypeOK, Dequeue
    <3>2. Item \in Group
      BY <3>1 DEF Item
    <3>3. /\ DOMAIN batch' = 1..(Len(batch) + 1) /\ DOMAIN batch = 1..Len(batch)
          /\ Len(batch) \in Nat
          /\ \A i \in DOMAIN batch : batch'[i] = batch[i]
          /\ batch'[Len(batch) + 1] = Item
      BY <2>2, <3>1, <3>2
    <3>4. \A i \in DOMAIN batch' : i \in DOMAIN batch \/ i = Len(batch) + 1
      BY <3>3
    <3> QED
      BY <3>3, <3>4 DEF InBatch
  <2> QED
    BY <1>1, <2>1, <2>2
<1> QED
  BY <1>1, <1>2, <1>3, <1>4 DEF Moved, Apart, ToCome, AtMostOne

LEMMA MovedNext ==
  ASSUME TypeOK, [Next]_vars, NEW s \in Scenarios, Apart(s)
  PROVE  Moved(s)
<1>1. CASE UNCHANGED vars \/ TrainingRaises \/ \E step \in Steps : TrainReturns(step)
  <2>1. UNCHANGED <<scenario_offset, worker, output_queue, batch>>
    BY <1>1 DEF vars, stateVars, rolloutVars, queueVars, trainVars,
                TrainingRaises, TrainReturns
  <2> QED
    BY <2>1, MovedElsewhere
<1>2. ASSUME NEW w \in Workers, WorkerStep(w) PROVE Moved(s)
  BY <1>2, MovedByWorker
<1>3. CASE Shuffles
  BY <1>3, MovedShuffled
<1>4. CASE CollectStep /\ ~CollectSuspends
  BY <1>4, MovedCollecting
<1> QED
  BY <1>1, <1>2, <1>3, <1>4
     DEF Next, System, TaskStep, TrainingStep, BackendStep, Returned, Shuffles

-----------------------------------------------------------------------------
(* What a step of a run does to the batch.                                   *)

\* The batch was trained on and that is not stored yet.
AfterTraining == {"prune", "retain", "log", "failed"}

BatchKept ==
  /\ tpc \in AfterTraining => tpc' \in AfterTraining /\ UNCHANGED batch
  /\ tpc = "train" => /\ UNCHANGED batch
                      /\ \/ tpc' \in AfterTraining
                         \/ tpc' = "train" /\ UNCHANGED current_step

LEMMA BatchNext ==
  ASSUME [Next]_vars, ~StepLogged
  PROVE  BatchKept
<1> USE DEF BatchKept, AfterTraining
<1>1. ASSUME NEW w \in Workers, WorkerStep(w) PROVE BatchKept
  BY <1>1 DEF WorkerStep, TakeScenario, ScenariosExhausted, WaitForPolicy,
              GiveUpScenario, StartRollout, RolloutFails, RolloutReturns,
              PutGroup, PutTimesOut, trainVars
<1>2. CASE RequestStop \/ StopNotifies \/ StopPuts \/ RolloutStageJoins
           \/ RolloutStagePuts \/ EvalStep \/ UNCHANGED vars
  BY <1>2 DEF RequestStop, StopNotifies, StopPuts, RolloutStageJoins,
         RolloutStagePuts, EvalStep, EvalStageTakes, EvalStageCreates,
         EvalStageLeaves, EvalStageEnds, EvalStarts, EvalReturns,
         EvalCompletes, EvalFails, vars, trainVars
<1>3. CASE BeginCollect \/ BeginTrain \/ CollectStep \/ FinishTraining
  <2>1. tpc \notin AfterTraining \cup {"train"}
    BY <1>3 DEF BeginCollect, BeginTrain, BatchCollected, FinishTraining,
       CollectStep, CollectSentinel, CollectAllFailed, CollectStale,
       CollectZeroVariance, CollectGroup, CollectSuspends, Dequeue
  <2> QED
    BY <2>1
<1>4. CASE TrainingRaises \/ BackendStep
  <2>1. UNCHANGED batch /\ tpc' \in AfterTraining
    BY <1>4 DEF BackendStep, TrainingRaises, TrainReturns, AdaptersPruned, RetentionRan
  <2> QED
    BY <2>1
<1> QED
  BY <1>1, <1>2, <1>3, <1>4 DEF Next, System, TaskStep, TrainingStep, Returned

LEMMA BatchBounded ==
  ASSUME TypeOK, [Next]_vars, Len(batch) <= MaxBatch
  PROVE  Len(batch') <= MaxBatch
<1>1. CASE UNCHANGED batch
  BY <1>1
<1>2. CASE batch' = <<>>
  BY <1>2, PipelineAssumption
<1>3. CASE CollectGroup
  <2>1. batch \in Seq(Group) /\ output_queue \in Seq(Group) /\ output_queue # <<>>
    BY <1>3 DEF CollectGroup, Dequeue, TypeOK, TrainTypeOK, QueueTypeOK
  <2>2. Item \in Group /\ batch' = Append(batch, Item) /\ Len(batch) < MaxBatch
    BY <1>3, <2>1 DEF CollectGroup, Dequeue, Item
  <2>3. Len(batch') = Len(batch) + 1 /\ Len(batch) \in Nat
    BY <2>1, <2>2
  <2> QED
    BY <2>2, <2>3, PipelineAssumption
<1>4. ASSUME NEW w \in Workers, WorkerStep(w) PROVE UNCHANGED batch
  BY <1>4 DEF WorkerStep, TakeScenario, ScenariosExhausted, WaitForPolicy,
              GiveUpScenario, StartRollout, RolloutFails, RolloutReturns,
              PutGroup, PutTimesOut, trainVars
<1>5. CASE RequestStop \/ StopNotifies \/ StopPuts \/ RolloutStageJoins
           \/ RolloutStagePuts \/ EvalStep \/ UNCHANGED vars
  <2>1. UNCHANGED batch
    BY <1>5 DEF RequestStop, StopNotifies, StopPuts, RolloutStageJoins,
         RolloutStagePuts, EvalStep, EvalStageTakes, EvalStageCreates,
         EvalStageLeaves, EvalStageEnds, EvalStarts, EvalReturns,
         EvalCompletes, EvalFails, vars, trainVars
  <2> QED
    BY <1>1, <2>1
<1>6. CASE TrainingStep \/ BackendStep
  <2>1. batch' = batch \/ batch' = <<>> \/ CollectGroup
    BY <1>6
     DEF TrainingStep, BackendStep, BeginCollect, BeginTrain,
         CollectStep, CollectSentinel, CollectAllFailed, CollectStale,
         CollectZeroVariance, CollectSuspends, StepLogged,
         TrainingRaises, FinishTraining, TrainReturns, AdaptersPruned, RetentionRan
  <2> QED
    BY <1>1, <1>2, <1>3, <2>1
<1> QED
  BY <1>1, <1>4, <1>5, <1>6 DEF Next, System, TaskStep, Returned

\* Where the stored offset comes from.
LEMMA OffsetStored ==
  ASSUME [Next]_vars
  PROVE  persisted'.scenario_offset \in {persisted.scenario_offset, scenario_offset'}
<1>1. CASE UNCHANGED persisted
  BY <1>1
<1>2. CASE StepLogged \/ FinishTraining \/ EvalCompletes
  <2>1. \E step, last, completed :
          persisted' = Persisted(step, scenario_offset', last, completed)
    BY <1>2 DEF StepLogged, FinishTraining, EvalCompletes
  <2> QED
    BY <2>1 DEF Persisted
<1>3. CASE UNCHANGED vars
  BY <1>1, <1>3 DEF vars, stateVars
<1>4. CASE Next
  <2>1. Elsewhere \/ BeginTrain \/ (\E step \in Steps : TrainReturns(step)) => UNCHANGED persisted
    BY DEF Elsewhere, BeginTrain, TrainReturns
  <2> QED
    BY <1>1, <1>2, <1>4, <2>1, RunSteps
<1> QED
  BY <1>3, <1>4

\* A batch has at most MaxBatch scenarios.
LEMMA BatchScenarios ==
  ASSUME TypeOK, Len(batch) <= MaxBatch
  PROVE  LET B == {s \in Scenarios : InBatch(s)}
         IN  IsFiniteSet(B) /\ Cardinality(B) \in Nat /\ Cardinality(B) <= MaxBatch
<1> DEFINE B == {s \in Scenarios : InBatch(s)}
           At == {i \in DOMAIN batch : batch[i].scenario \in Scenarios}
           f == [i \in At |-> batch[i].scenario]
<1>1. DOMAIN batch = 1..Len(batch) /\ Len(batch) \in Nat
  <2>1. batch \in Seq(Group)
    BY DEF TypeOK, TrainTypeOK
  <2> QED
    BY <2>1
<1>2. IsFiniteSet(DOMAIN batch) /\ Cardinality(DOMAIN batch) = Len(batch)
  <2>1. PICK n \in Nat : n = Len(batch)
    BY <1>1
  <2>2. IsFiniteSet(1..n) /\ Cardinality(1..n) = n
    BY FS_Interval
  <2> QED
    BY <1>1, <2>1, <2>2
<1>3. IsFiniteSet(At) /\ Cardinality(At) <= Len(batch) /\ Cardinality(At) \in Nat
  <2>1. At \in SUBSET DOMAIN batch
    OBVIOUS
  <2> HIDE DEF At
  <2> QED
    BY <1>2, <2>1, FS_Subset, FS_CardinalityType
<1>4. f \in Surjection(At, B)
  <2>1. \A i \in At : f[i] \in B
    BY DEF InBatch
  <2>2. \A s \in B : \E i \in At : f[i] = s
    BY DEF InBatch
  <2>3. f \in [At -> B]
    BY <2>1
  <2> HIDE DEF At, B, f
  <2> QED
    BY <2>2, <2>3 DEF Surjection
<1>5. IsFiniteSet(B) /\ Cardinality(B) <= Cardinality(At)
  <2> HIDE DEF At, f, B
  <2> QED
    BY <1>3, <1>4, FS_Surjection
<1>6. Cardinality(B) \in Nat
  BY <1>5, FS_CardinalityType
<1> HIDE DEF At, B
<1>7. Cardinality(B) <= MaxBatch
  BY <1>1, <1>3, <1>5, <1>6, PipelineAssumption
<1> QED
  BY <1>5, <1>6, <1>7 DEF B

-----------------------------------------------------------------------------
(* Scenarios the weights have seen and may see again: the next run will, or  *)
(* this one.  A restart adds the batch at most, and each further training of *)
(* a scenario takes it out.                                                  *)

\* Seen as a scenario of the batch that is being trained on.
Counted(s) ==
  /\ InBatch(s)
  /\ \/ tpc \in AfterTraining
     \/ tpc = "train" /\ (backend # current_step \/ progress # "idle")

Owed ==
  {s \in Scenarios :
     times[s] >= 1 /\ ~Counted(s) /\ (s > persisted.scenario_offset \/ ToCome(s))}

\* Extra trainings so far and to be expected, whichever way the sum is formed.
OwedInv ==
  \A h : IsSum(h, Extra(times), Scenarios) =>
    h[Scenarios] + Cardinality(Owed) <= restarts * MaxBatch

\* Each run trains on it once, whatever it resumed from.
OnceInv ==
  \A s \in Scenarios :
    times[s] <= restarts + (IF ToCome(s) /\ ~Counted(s) THEN 0 ELSE 1)

CountsInv ==
  /\ restarts \in Nat
  /\ kind = "local" => progress = "idle"
  /\ times \in [Scenarios -> Nat] /\ kept \in [Scenarios -> Nat]
  /\ \A s \in Scenarios : kept[s] <= times[s]
  /\ Len(batch) <= MaxBatch
  /\ \A s \in Scenarios : Apart(s)

RetrainInv == RunTypeInv /\ CountsInv /\ OnceInv /\ (~misled => OwedInv)

LEMMA CountsInit == ResumeInit => CountsInv
<1> SUFFICES ASSUME ResumeInit PROVE CountsInv
  OBVIOUS
<1>1. /\ restarts = 0 /\ progress = "idle" /\ times = [s \in Scenarios |-> 0]
      /\ kept = times /\ batch = <<>> /\ output_queue = <<>>
      /\ \A w \in Workers : worker[w].pc = "fetch"
  BY DEF ResumeInit, Init, StartFrom, WorkerAt
<1>2. ASSUME NEW s \in Scenarios PROVE Apart(s)
  BY <1>1 DEF Apart, AtMostOne, HeldByWorkers, Queued, InBatch
<1>3. Len(batch) <= MaxBatch
  BY <1>1, PipelineAssumption
<1> QED
  BY <1>1, <1>2, <1>3 DEF CountsInv

\* What the backend does to the counts, and to its own state.
LEMMA BackendCounts ==
  ASSUME RunTypeInv, CountsInv, BackendTrains
  PROVE  /\ UNCHANGED <<vars, restarts>>
         /\ kind' = kind /\ (kind' = "local" => progress' = "idle")
         /\ \/ /\ times' = times /\ kept' \in {kept, times}
               /\ \/ UNCHANGED <<backend, progress>>
                  \/ /\ tpc = "train"
                     /\ backend # current_step \/ progress # "idle"
                     /\ backend' # current_step \/ progress' # "idle"
            \/ /\ tpc = "train" /\ backend = current_step /\ progress = "idle"
               /\ backend' # current_step \/ progress' # "idle"
               /\ WeightsStepped /\ kept' \in {kept, times'}
<1>1. current_step \in Nat
  BY DEF RunTypeInv, StepsInv
<1>2. CASE LocalSaves
  BY <1>1, <1>2 DEF LocalSaves, Training, diskVars, CountsInv
<1>3. CASE NativeSteps
  BY <1>3 DEF NativeSteps, Training, diskVars
<1>4. CASE NativeSaves
  BY <1>1, <1>4 DEF NativeSaves, Training, diskVars, CountsInv
<1>5. CASE NativeAdvances
  BY <1>1, <1>5 DEF NativeAdvances, Training, diskVars, CountsInv, historyVars
<1> QED
  BY <1>2, <1>3, <1>4, <1>5 DEF BackendTrains

LEMMA CountsNext ==
  ASSUME RunTypeInv, CountsInv, [ResumeNext]_resumeVars
  PROVE  CountsInv'
<1>1. CASE Aside \/ RunStep
  <2>1. /\ [Next]_vars /\ UNCHANGED <<restarts, kind, progress, times, kept>>
    BY <1>1, AsideKeeps DEF RunStep, backendStepVars, historyVars
  <2>2. \A s \in Scenarios : Apart(s)'
    BY <2>1, MovedNext DEF RunTypeInv, CountsInv, Moved
  <2>3. Len(batch') <= MaxBatch
    BY <2>1, BatchBounded DEF RunTypeInv, CountsInv
  <2> QED
    BY <2>1, <2>2, <2>3 DEF CountsInv
<1>2. CASE BackendTrains
  <2>1. \A s \in Scenarios : Apart(s)'
    BY <1>2, BackendCounts, MovedNext DEF RunTypeInv, CountsInv, Moved
  <2>2. UNCHANGED <<batch, restarts>> /\ (kind' = "local" => progress' = "idle")
    BY <1>2, BackendCounts DEF vars, trainVars
  <2>3. /\ times' \in [Scenarios -> Nat] /\ kept' \in [Scenarios -> Nat]
        /\ \A s \in Scenarios : kept'[s] <= times'[s]
    <3>1. times' = times \/ WeightsStepped
      BY <1>2, BackendCounts
    <3>2. times' \in [Scenarios -> Nat] /\ \A s \in Scenarios : times[s] <= times'[s]
      BY <3>1 DEF WeightsStepped, CountsInv
    <3>3. kept' = kept \/ kept' = times'
      BY <1>2, BackendCounts
    <3> QED
      BY <3>2, <3>3 DEF CountsInv
  <2> QED
    BY <2>1, <2>2, <2>3 DEF CountsInv
<1>3. ASSUME NEW again \in BOOLEAN, NextRun(again) PROVE CountsInv'
  <2>1. ~torn /\ Restart(state_json, again)
    BY <1>3 DEF NextRun, ReadStates
  <2>2. /\ restarts' = restarts + 1 /\ progress' = "idle" /\ kept' = kept
        /\ times' \in {times, kept}
    BY <1>3 DEF NextRun
  <2>3. /\ batch' = <<>> /\ output_queue' = <<>>
        /\ \A w \in Workers : worker'[w].pc = "fetch"
    BY <2>1 DEF Restart, WorkerAt
  <2>4. ASSUME NEW s \in Scenarios PROVE Apart(s)'
    BY <2>3 DEF Apart, AtMostOne, HeldByWorkers, Queued, InBatch
  <2>5. Len(batch') <= MaxBatch
    BY <2>3, PipelineAssumption
  <2> QED
    BY <2>2, <2>4, <2>5 DEF CountsInv
<1> QED
  BY <1>1, <1>2, <1>3 DEF ResumeNext, Aside

\* What a step of a run leaves to be trained on was so before.
LEMMA StillToCome ==
  ASSUME RunTypeInv, CountsInv, [Next]_vars, UNCHANGED <<backend, progress>>,
         NEW s \in Scenarios, ~Counted(s)',
         s > persisted'.scenario_offset \/ ToCome(s)'
  PROVE  ~Counted(s) /\ (s > persisted.scenario_offset \/ ToCome(s))
<1>1. Apart(s) /\ Moved(s)
  BY MovedNext DEF RunTypeInv, CountsInv
<1>2. s > persisted'.scenario_offset => s > persisted.scenario_offset \/ ToCome(s)'
  BY OffsetStored DEF ToCome
<1>3. s > persisted.scenario_offset \/ ToCome(s)
  BY <1>1, <1>2 DEF Moved
<1>4. CASE ~StepLogged
  <2>1. BatchKept
    BY <1>4, BatchNext
  <2> QED
    BY <1>3, <2>1 DEF BatchKept, Counted, InBatch
<1>5. CASE StepLogged
  <2>1. /\ persisted'.scenario_offset = scenario_offset
        /\ batch' = <<>> /\ UNCHANGED <<scenario_offset, output_queue>>
        /\ worker' = Woken
    BY <1>5 DEF StepLogged, Persisted, queueVars
  <2>2. ASSUME InBatch(s) PROVE FALSE
    <3>1. ~(s > scenario_offset) /\ HeldByWorkers(s) = {} /\ Queued(s) = {}
      BY <1>1, <2>2 DEF Apart
    <3>2. HeldByWorkers(s)' = {}
      BY <2>1, <3>1, WokenPlaces DEF RunTypeInv, HeldByWorkers, HeldPc
    <3>3. Queued(s)' = {} /\ ~InBatch(s)'
      BY <2>1, <3>1 DEF Queued, InBatch
    <3> QED
      BY <2>1, <3>1, <3>2, <3>3 DEF ToCome
  <2> QED
    BY <1>3, <2>2 DEF Counted
<1> QED
  BY <1>4, <1>5

\* What is still owed only becomes less while a run goes on.
LEMMA OwedShrinks ==
  ASSUME RunTypeInv, CountsInv, [Next]_vars,
         UNCHANGED <<times, backend, progress>>
  PROVE  Owed' \subseteq Owed
  BY StillToCome DEF Owed

LEMMA OwedFinite ==
  /\ IsFiniteSet(Owed) /\ Cardinality(Owed) \in Nat
  /\ IsFiniteSet(Owed') /\ Cardinality(Owed') \in Nat
<1>1. Owed \in SUBSET Scenarios /\ Owed' \in SUBSET Scenarios
  BY DEF Owed
<1> QED
  BY <1>1, ScenariosFinite, FS_Subset, FS_CardinalityType

LEMMA ExtraType ==
  ASSUME NEW t \in [Scenarios -> Nat]
  PROVE  Extra(t) \in [Scenarios -> Nat]
  BY DEF Extra, Again

\* The sum is a sum of numbers, and there is one.
LEMMA SumExists ==
  ASSUME NEW t \in [Scenarios -> Nat]
  PROVE  \E h : IsSum(h, Extra(t), Scenarios) /\ h[Scenarios] \in Nat
<1>1. PICK h : h = [s \in SUBSET Scenarios |-> SumStep(h, s, Extra(t))]
  BY ScenariosFinite, SumRecurs
<1>2. IsSum(h, Extra(t), Scenarios)
  BY <1>1 DEF IsSum
<1>3. PICK v \in [Scenarios -> Nat] : v = Extra(t)
  BY ExtraType
<1>4. h[Scenarios] \in Nat
  <2>1. \A q \in Scenarios : v[q] <= v[q] + (IF q \in {} THEN 1 ELSE 0)
    BY <1>3
  <2>2. {} \in SUBSET Scenarios /\ IsSum(h, v, Scenarios)
    BY <1>2, <1>3
  <2> QED
    BY <2>1, <2>2, ScenariosFinite, SumsCompare
<1> QED
  BY <1>2, <1>4

\* The bound over a step that trains the scenarios of D once more.
LEMMA OwedStep ==
  ASSUME NEW D \in SUBSET Scenarios, NEW t \in [Scenarios -> Nat], NEW u \in [Scenarios -> Nat],
         \A s \in Scenarios : Again(u[s]) <= Again(t[s]) + (IF s \in D THEN 1 ELSE 0),
         NEW old \in Nat, NEW new \in Nat, NEW n \in Nat, NEW m \in Nat,
         \A h : IsSum(h, Extra(t), Scenarios) => h[Scenarios] + old <= n,
         new + Cardinality(D) <= old + m
  PROVE  \A k : IsSum(k, Extra(u), Scenarios) => k[Scenarios] + new <= n + m
<1> SUFFICES ASSUME NEW k, IsSum(k, Extra(u), Scenarios)
             PROVE  k[Scenarios] + new <= n + m
  OBVIOUS
<1>1. PICK h : IsSum(h, Extra(t), Scenarios) /\ h[Scenarios] \in Nat
  BY SumExists
<1>2. PICK v \in [Scenarios -> Nat], w \in [Scenarios -> Nat] : v = Extra(t) /\ w = Extra(u)
  BY ExtraType
<1>3. \A s \in Scenarios : w[s] <= v[s] + (IF s \in D THEN 1 ELSE 0)
  BY <1>2 DEF Extra
<1>4. IsSum(h, v, Scenarios) /\ IsSum(k, w, Scenarios)
  BY <1>1, <1>2
<1>5. k[Scenarios] \in Nat /\ k[Scenarios] <= h[Scenarios] + Cardinality(D)
  BY <1>3, <1>4, ScenariosFinite, SumsCompare
<1>6. h[Scenarios] + old <= n
  BY <1>1
<1>7. Cardinality(D) \in Nat
  BY ScenariosFinite, FS_Subset, FS_CardinalityType
<1> QED
  BY <1>1, <1>5, <1>6, <1>7

LEMMA OwedNext ==
  ASSUME RetrainInv, [ResumeNext]_resumeVars, ~misled'
  PROVE  OwedInv'
<1> DEFINE n == restarts * MaxBatch
           old == Cardinality(Owed)
           new == Cardinality(Owed')
<1>t. /\ times \in [Scenarios -> Nat] /\ restarts \in Nat /\ MaxBatch \in Nat
      /\ \A s \in Scenarios : kept[s] <= times[s]
      /\ kept \in [Scenarios -> Nat]
  BY PipelineAssumption DEF RetrainInv, CountsInv
<1>i. /\ \A h : IsSum(h, Extra(times), Scenarios) => h[Scenarios] + old <= n
      /\ n \in Nat /\ old \in Nat /\ new \in Nat
  BY <1>t, NotMisled, OwedFinite DEF RetrainInv, OwedInv
<1> HIDE DEF n, old, new
<1>0. Cardinality({}) = 0
  BY FS_EmptySet
<1>1. ASSUME UNCHANGED <<times, restarts>>, new <= old PROVE OwedInv'
  <2>1. \A h : IsSum(h, Extra(times), Scenarios) => h[Scenarios] \in Nat
    <3> SUFFICES ASSUME NEW h, IsSum(h, Extra(times), Scenarios) PROVE h[Scenarios] \in Nat
      OBVIOUS
    <3>1. PICK v \in [Scenarios -> Nat] : v = Extra(times)
      BY <1>t, ExtraType
    <3>2. \A q \in Scenarios : v[q] <= v[q] + (IF q \in {} THEN 1 ELSE 0)
      OBVIOUS
    <3>3. IsSum(h, v, Scenarios) /\ {} \in SUBSET Scenarios
      BY <3>1
    <3> QED
      BY <3>2, <3>3, ScenariosFinite, SumsCompare
  <2>2. \A h : IsSum(h, Extra(times), Scenarios) => h[Scenarios] + new <= n
    BY <1>1, <1>i, <2>1
  <2> QED
    BY <1>1, <2>2 DEF OwedInv, n, new
<1>2. CASE Aside \/ RunStep
  <2>1. /\ [Next]_vars /\ UNCHANGED <<times, backend, progress, restarts>>
    BY <1>2, AsideKeeps DEF RunStep, backendStepVars, historyVars
  <2>2. Owed' \subseteq Owed
    BY <2>1, OwedShrinks DEF RetrainInv
  <2>3. new <= old
    BY <2>2, OwedFinite, FS_Subset DEF new, old
  <2> QED
    BY <1>1, <2>1, <2>3
<1>3. CASE BackendTrains
  <2>b. RunTypeInv /\ CountsInv
    BY DEF RetrainInv
  <2>1. UNCHANGED <<vars, restarts>>
    BY <1>3, <2>b, BackendCounts
  <2>2. \A s \in Scenarios :
          /\ InBatch(s)' <=> InBatch(s)
          /\ s > persisted'.scenario_offset \/ ToCome(s)' <=>
               s > persisted.scenario_offset \/ ToCome(s)
          /\ tpc' = tpc /\ current_step' = current_step
    BY <2>1 DEF vars, stateVars, queueVars, rolloutVars, trainVars, InBatch, ToCome,
                HeldByWorkers, Queued
  <2>3. CASE /\ times' = times
             /\ \/ UNCHANGED <<backend, progress>>
                \/ /\ tpc = "train"
                   /\ backend # current_step \/ progress # "idle"
                   /\ backend' # current_step \/ progress' # "idle"
    <3>1. Owed' \subseteq Owed
      BY <2>2, <2>3 DEF Owed, Counted
    <3>2. new <= old
      BY <3>1, OwedFinite, FS_Subset DEF new, old
    <3> QED
      BY <1>1, <2>1, <2>3, <3>2
  <2>4. CASE /\ tpc = "train" /\ backend = current_step /\ progress = "idle"
             /\ backend' # current_step \/ progress' # "idle"
             /\ WeightsStepped
    <3> DEFINE D == {s \in Scenarios : InBatch(s) /\ times[s] >= 1}
    <3>1. /\ times' \in [Scenarios -> Nat]
          /\ \A s \in Scenarios :
               Again(times'[s]) <= Again(times[s]) + (IF s \in D THEN 1 ELSE 0)
      BY <1>t, <2>4 DEF WeightsStepped, Again
    <3>2. D \subseteq Owed
      BY <2>4 DEF Owed, Counted, ToCome, AfterTraining
    <3>3. Owed' \subseteq Owed \ D
      <4> SUFFICES ASSUME NEW s \in Scenarios, times'[s] >= 1, ~Counted(s)',
                          s > persisted'.scenario_offset \/ ToCome(s)'
                   PROVE  s \in Owed \ D
        BY DEF Owed
      <4>1. ~InBatch(s)
        BY <2>2, <2>4 DEF Counted
      <4>2. times'[s] = times[s]
        BY <2>4, <4>1 DEF WeightsStepped
      <4> QED
        BY <2>2, <4>1, <4>2 DEF Owed, Counted
    <3>4. D \in SUBSET Scenarios
      OBVIOUS
    <3> HIDE DEF D
    <3>5. Cardinality(Owed \ D) = old - Cardinality(D) /\ IsFiniteSet(Owed \ D)
      <4>1. Owed \cap D = D
        BY <3>2
      <4> QED
        BY <4>1, OwedFinite, FS_Difference DEF old
    <3>6. new + Cardinality(D) <= old
      <4>1. new <= Cardinality(Owed \ D)
        BY <3>3, <3>5, FS_Subset DEF new
      <4>2. Cardinality(D) \in Nat
        BY <3>4, ScenariosFinite, FS_Subset, FS_CardinalityType
      <4> QED
        BY <1>i, <3>5, <4>1, <4>2
    <3>7. PICK t \in [Scenarios -> Nat], u \in [Scenarios -> Nat] : t = times /\ u = times'
      BY <1>t, <3>1
    <3>8. \A k : IsSum(k, Extra(u), Scenarios) => k[Scenarios] + new <= n + 0
      <4>1. /\ \A h : IsSum(h, Extra(t), Scenarios) => h[Scenarios] + old <= n
            /\ \A s \in Scenarios : Again(u[s]) <= Again(t[s]) + (IF s \in D THEN 1 ELSE 0)
            /\ new + Cardinality(D) <= old + 0 /\ 0 \in Nat
        BY <1>i, <3>1, <3>6, <3>7
      <4> QED
        BY <1>i, <3>4, <4>1, OwedStep
    <3> QED
      BY <1>i, <2>1, <3>7, <3>8 DEF OwedInv, n, new
  <2> QED
    BY <1>3, <2>b, <2>3, <2>4, BackendCounts
<1>4. ASSUME NEW again \in BOOLEAN, NextRun(again) PROVE OwedInv'
  <2>1. ~torn /\ Restart(persisted, again)
    BY <1>4, NotMisled DEF NextRun, ReadStates
  <2>2. restarts' = restarts + 1 /\ times' \in {times, kept}
    BY <1>4 DEF NextRun
  <2>3. persisted \in StoredStates
    BY OutlivesTyped DEF RetrainInv, RunTypeInv
  <2>4. /\ batch' = <<>> /\ output_queue' = <<>>
        /\ \A w \in Workers : worker'[w].pc = "fetch"
        /\ scenario_offset' = persisted.scenario_offset
        /\ persisted'.scenario_offset = persisted.scenario_offset
    <3>1. scenario_offset' = persisted.scenario_offset
      BY <2>1, <2>3, StoredOffset DEF Restart
    <3>2. \/ persisted' = persisted
          \/ \E step, last, completed :
               persisted' = Persisted(step, persisted.scenario_offset, last, completed)
      BY <2>1, <2>3, StoredOffset, <1>4 DEF Restart
    <3>3. persisted'.scenario_offset = persisted.scenario_offset
      BY <3>2 DEF Persisted
    <3> QED
      BY <2>1, <3>1, <3>3 DEF Restart, WorkerAt
  <2> DEFINE B == {s \in Scenarios : InBatch(s)}
  <2>5. Owed' \subseteq Owed \cup B
    <3> SUFFICES ASSUME NEW s \in Scenarios, times'[s] >= 1,
                        s > persisted'.scenario_offset \/ ToCome(s)', ~InBatch(s)
                 PROVE  s \in Owed
      BY DEF Owed
    <3>1. s > persisted.scenario_offset
      BY <2>4 DEF ToCome, HeldByWorkers, Queued, InBatch
    <3>2. times[s] >= 1
      BY <1>t, <2>2
    <3> QED
      BY <3>1, <3>2 DEF Owed, Counted
  <2>6. IsFiniteSet(B) /\ Cardinality(B) \in Nat /\ Cardinality(B) <= MaxBatch
    BY BatchScenarios DEF RetrainInv, RunTypeInv, CountsInv
  <2> HIDE DEF B
  <2>7. new <= old + MaxBatch
    <3>1. /\ IsFiniteSet(Owed \cup B)
          /\ Cardinality(Owed \cup B) = old + Cardinality(B) - Cardinality(Owed \cap B)
      BY <2>6, OwedFinite, FS_Union DEF old
    <3>2. Cardinality(Owed \cap B) \in Nat
      BY OwedFinite, FS_Intersection, FS_CardinalityType
    <3>3. new <= Cardinality(Owed \cup B)
      BY <2>5, <3>1, FS_Subset DEF new
    <3> QED
      BY <1>t, <1>i, <2>6, <3>1, <3>2, <3>3
  <2>8. PICK t \in [Scenarios -> Nat], u \in [Scenarios -> Nat] : t = times /\ u = times'
    BY <1>t, <2>2
  <2>9. \A s \in Scenarios : Again(u[s]) <= Again(t[s]) + (IF s \in {} THEN 1 ELSE 0)
    <3>1. \A s \in Scenarios : u[s] <= t[s]
      BY <1>t, <2>2, <2>8
    <3> QED
      BY <3>1 DEF Again
  <2>10. \A k : IsSum(k, Extra(u), Scenarios) => k[Scenarios] + new <= n + MaxBatch
    <3>1. /\ \A h : IsSum(h, Extra(t), Scenarios) => h[Scenarios] + old <= n
          /\ {} \in SUBSET Scenarios /\ new + Cardinality({}) <= old + MaxBatch
      BY <1>0, <1>i, <2>7, <2>8
    <3> QED
      BY <1>t, <1>i, <2>9, <3>1, OwedStep
  <2>11. restarts' * MaxBatch = n + MaxBatch
    BY <1>t, <2>2 DEF n
  <2> QED
    BY <2>8, <2>10, <2>11 DEF OwedInv, new
<1> QED
  BY <1>2, <1>3, <1>4 DEF ResumeNext, Aside

LEMMA OnceNext ==
  ASSUME RetrainInv, [ResumeNext]_resumeVars
  PROVE  OnceInv'
<1>t. /\ RunTypeInv /\ CountsInv /\ restarts \in Nat
      /\ times \in [Scenarios -> Nat] /\ kept \in [Scenarios -> Nat]
      /\ \A s \in Scenarios :
           /\ kept[s] <= times[s] /\ times[s] <= restarts + 1
           /\ ToCome(s) /\ ~Counted(s) => times[s] <= restarts
  BY DEF RetrainInv, CountsInv, OnceInv
<1>1. CASE Aside \/ RunStep
  <2>1. /\ [Next]_vars /\ UNCHANGED <<times, backend, progress, restarts>>
    BY <1>1, AsideKeeps DEF RunStep, backendStepVars, historyVars
  <2>2. ASSUME NEW s \in Scenarios, ToCome(s)', ~Counted(s)'
        PROVE  ToCome(s) /\ ~Counted(s)
    <3>1. ToCome(s)
      BY <1>t, <2>1, <2>2, MovedNext DEF RunTypeInv, CountsInv, Moved
    <3> QED
      BY <1>t, <2>1, <2>2, <3>1, StillToCome
  <2> QED
    BY <1>t, <2>1, <2>2 DEF OnceInv
<1>2. CASE BackendTrains
  <2>1. UNCHANGED <<vars, restarts>>
    BY <1>t, <1>2, BackendCounts
  <2>2. /\ UNCHANGED <<tpc, current_step>>
        /\ \A s \in Scenarios :
             (InBatch(s)' <=> InBatch(s)) /\ (ToCome(s)' <=> ToCome(s))
    BY <2>1 DEF vars, stateVars, queueVars, rolloutVars, trainVars, InBatch, ToCome,
                HeldByWorkers, Queued
  <2>3. CASE /\ times' = times
             /\ \/ UNCHANGED <<backend, progress>>
                \/ /\ tpc = "train"
                   /\ backend # current_step \/ progress # "idle"
                   /\ backend' # current_step \/ progress' # "idle"
    <3>1. \A s \in Scenarios : Counted(s)' <=> Counted(s)
      BY <2>2, <2>3 DEF Counted, AfterTraining
    <3> QED
      BY <1>t, <2>1, <2>2, <2>3, <3>1 DEF OnceInv
  <2>4. CASE /\ tpc = "train" /\ backend = current_step /\ progress = "idle"
             /\ backend' # current_step \/ progress' # "idle"
             /\ WeightsStepped
    <3>1. ASSUME NEW s \in Scenarios, InBatch(s)
          PROVE  times'[s] <= restarts + 1 /\ Counted(s)'
      <4>1. ToCome(s) /\ ~Counted(s) /\ times'[s] = times[s] + 1
        BY <2>4, <3>1 DEF ToCome, Counted, AfterTraining, WeightsStepped
      <4>2. Counted(s)'
        BY <2>2, <2>4, <3>1 DEF Counted
      <4> QED
        BY <1>t, <4>1, <4>2
    <3>2. ASSUME NEW s \in Scenarios, ~InBatch(s)
          PROVE  times'[s] = times[s] /\ ~Counted(s)
      BY <2>4, <3>2 DEF WeightsStepped, Counted
    <3> QED
      BY <1>t, <2>1, <2>2, <3>1, <3>2 DEF OnceInv
  <2> QED
    BY <1>t, <1>2, <2>3, <2>4, BackendCounts
<1>3. ASSUME NEW again \in BOOLEAN, NextRun(again) PROVE OnceInv'
  <2>1. restarts' = restarts + 1 /\ times' \in {times, kept}
    BY <1>3 DEF NextRun
  <2>2. \A s \in Scenarios : times'[s] \in Nat /\ times'[s] <= restarts'
    BY <1>t, <2>1
  <2> QED
    BY <1>t, <2>1, <2>2 DEF OnceInv
<1> QED
  BY <1>1, <1>2, <1>3 DEF ResumeNext, Aside

(* No run trains on a scenario twice.  It is trained on again only if a      *)
(* process died between its training and the state that records it: over any *)
(* number of restarts there are at most as many such trainings as            *)
(* max_batch_size for each restart, also where the state file was destroyed  *)
(* (_persist_state, read_state), as long as no run resumed from the state    *)
(* that an eval which outlived an earlier run had put back.                  *)
THEOREM RetrainingIsBounded == ResumeSpec => []RetrainingBounded
<1>1. ResumeInit => RetrainInv
  <2> SUFFICES ASSUME ResumeInit PROVE RetrainInv
    OBVIOUS
  <2>1. RunTypeInv /\ CountsInv
    BY RunTypeInit, CountsInit
  <2>2. times = [s \in Scenarios |-> 0] /\ restarts = 0
    BY DEF ResumeInit
  <2>3. Owed = {}
    BY <2>2 DEF Owed
  <2>4. ASSUME NEW h, IsSum(h, Extra(times), Scenarios) PROVE h[Scenarios] = 0
    <3>1. PICK v \in [Scenarios -> Nat] : v = Extra(times)
      BY <2>1, ExtraType DEF CountsInv
    <3>2. \A q \in Scenarios : v[q] = 0
      BY <2>2, <3>1 DEF Extra, Again
    <3> DEFINE zero == [s \in SUBSET Scenarios |-> 0]
    <3>3. IsSum(zero, v, Scenarios)
      <4>1. \A s \in SUBSET Scenarios :
              s # {} => AnyOf(s) \in Scenarios /\ s \ {AnyOf(s)} \in SUBSET Scenarios
        BY DEF AnyOf
      <4> QED
        BY <3>2, <4>1 DEF IsSum, SumStep
    <3>4. {} \in SUBSET Scenarios /\ Cardinality({}) = 0
          /\ \A q \in Scenarios : v[q] <= v[q] + (IF q \in {} THEN 1 ELSE 0)
      BY FS_EmptySet
    <3>5. zero[Scenarios] = 0
      OBVIOUS
    <3> HIDE DEF zero
    <3>6. h[Scenarios] \in Nat /\ h[Scenarios] <= zero[Scenarios] + 0
      BY <2>4, <3>1, <3>3, <3>4, ScenariosFinite, SumsCompare
    <3> QED
      BY <3>5, <3>6
  <2>5. OwedInv
    BY <2>2, <2>3, <2>4, FS_EmptySet, PipelineAssumption DEF OwedInv
  <2>6. OnceInv
    BY <2>2 DEF OnceInv
  <2> QED
    BY <2>1, <2>5, <2>6 DEF RetrainInv
<1>2. RetrainInv /\ [ResumeNext]_resumeVars => RetrainInv'
  <2>1. ASSUME RetrainInv, [ResumeNext]_resumeVars PROVE RetrainInv'
    BY <2>1, RunTypeNext, CountsNext, OnceNext, OwedNext DEF RetrainInv
  <2> QED
    BY <2>1
<1>o. ASSUME RetrainInv, NEW s \in Scenarios PROVE times[s] <= restarts + 1
  BY <1>o DEF RetrainInv, OnceInv, CountsInv
<1>3. RetrainInv => RetrainingBounded
  <2> SUFFICES ASSUME RetrainInv, ~misled
               PROVE  MapThenSumSet(Retrained, Scenarios) <= restarts * MaxBatch
    BY <1>o DEF RetrainingBounded
  <2>1. PICK h : /\ IsSum(h, Extra(times), Scenarios)
                 /\ MapThenSumSet(Retrained, Scenarios) = h[Scenarios]
    BY RetrainedSum
  <2>2. h[Scenarios] + Cardinality(Owed) <= restarts * MaxBatch
    BY <2>1 DEF RetrainInv, OwedInv
  <2>3. PICK v \in [Scenarios -> Nat] : v = Extra(times)
    BY ExtraType DEF RetrainInv, CountsInv
  <2>4. h[Scenarios] \in Nat
    <3>1. {} \in SUBSET Scenarios /\ IsSum(h, v, Scenarios)
          /\ \A q \in Scenarios : v[q] <= v[q] + (IF q \in {} THEN 1 ELSE 0)
      BY <2>1, <2>3
    <3> QED
      BY <3>1, ScenariosFinite, SumsCompare
  <2>5. PICK most \in Nat : most = restarts * MaxBatch
    BY PipelineAssumption DEF RetrainInv, CountsInv
  <2>6. Cardinality(Owed) \in Nat
    BY OwedFinite
  <2>7. h[Scenarios] <= most
    BY ONLY <2>2, <2>4, <2>5, <2>6
  <2> QED
    BY <2>1, <2>5, <2>7
<1> QED
  BY <1>1, <1>2, <1>3, PTL DEF ResumeSpec

-----------------------------------------------------------------------------
(* What a run does to the batch it trains on, and to what an eval is about.  *)

Along ==
  /\ UNCHANGED <<current_step, last_eval_step>>
  /\ \/ UNCHANGED <<tpc, batch, should_eval>>
     \/ tpc \in Between /\ tpc' \in Between \cup {"failed"}
     \/ /\ UNCHANGED <<batch, should_eval>>
        /\ tpc \in {"train"} \cup AfterStep /\ tpc' = "failed"
     \/ /\ UNCHANGED <<batch, should_eval>>
        /\ tpc \in AfterStep /\ tpc' \in AfterStep

LEMMA RunAlong ==
  ASSUME [Next]_vars
  PROVE  Along \/ BeginTrain \/ StepLogged \/ \E step \in Steps : TrainReturns(step)
<1> USE DEF Along
<1>1. ASSUME NEW w \in Workers, WorkerStep(w) PROVE Along
  BY <1>1 DEF WorkerStep, TakeScenario, ScenariosExhausted, WaitForPolicy,
       GiveUpScenario, StartRollout, RolloutFails, RolloutReturns, PutGroup,
       PutTimesOut, stateVars, trainVars
<1>2. CASE RequestStop \/ StopNotifies \/ StopPuts \/ RolloutStageJoins
           \/ RolloutStagePuts \/ UNCHANGED vars \/ EvalStep
  BY <1>2 DEF RequestStop, StopNotifies, StopPuts, RolloutStageJoins,
       RolloutStagePuts, EvalStep, EvalStageTakes, EvalStageCreates,
       EvalStageLeaves, EvalStageEnds, EvalStarts, EvalReturns, EvalCompletes,
       EvalFails, vars, stateVars, trainVars
<1>3. CASE BeginCollect \/ CollectStep \/ FinishTraining
  <2>1. /\ UNCHANGED <<current_step, last_eval_step>>
        /\ tpc \in Between /\ tpc' \in Between \cup {"failed"}
    BY <1>3 DEF BeginCollect, CollectStep, CollectSentinel, CollectAllFailed,
       CollectStale, CollectZeroVariance, CollectGroup, CollectSuspends,
       Dequeue, Between, stateVars, FinishTraining, BatchCollected
  <2> QED
    BY <2>1
<1>4. CASE AdaptersPruned \/ RetentionRan \/ TrainingRaises
  BY <1>4 DEF AdaptersPruned, RetentionRan, TrainingRaises, AfterStep, stateVars
<1> QED
  BY <1>1, <1>2, <1>3, <1>4
     DEF Next, System, TaskStep, TrainingStep, BackendStep, Returned

\* Between two batches there is none, and a stage that is over stays so.
LEMMA EmptyBetween ==
  ASSUME [Next]_vars, tpc \in {"loop", "finish", "finished"} => batch = <<>>
  PROVE  /\ tpc' \in {"loop", "finish", "finished"} => batch' = <<>>
         /\ tpc \in {"finish", "finished"} => tpc' \in {"finish", "finished"}
<1>1. CASE UNCHANGED <<tpc, batch>>
  BY <1>1
<1>2. CASE TrainingStep \/ BackendStep
  BY <1>2 DEF TrainingStep, BackendStep, BeginCollect, CollectStep,
       CollectSentinel, CollectAllFailed, CollectStale, CollectZeroVariance,
       CollectGroup, CollectSuspends, Dequeue, BeginTrain, BatchCollected,
       StepLogged, TrainingRaises, FinishTraining, TrainReturns,
       AdaptersPruned, RetentionRan
<1>3. ASSUME NEW w \in Workers, WorkerStep(w) PROVE UNCHANGED <<tpc, batch>>
  BY <1>3 DEF WorkerStep, TakeScenario, ScenariosExhausted, WaitForPolicy,
       GiveUpScenario, StartRollout, RolloutFails, RolloutReturns, PutGroup,
       PutTimesOut, trainVars
<1>4. CASE RequestStop \/ StopNotifies \/ StopPuts \/ RolloutStageJoins
           \/ RolloutStagePuts \/ UNCHANGED vars \/ EvalStep
  BY <1>4 DEF RequestStop, StopNotifies, StopPuts, RolloutStageJoins,
       RolloutStagePuts, EvalStep, EvalStageTakes, EvalStageCreates,
       EvalStageLeaves, EvalStageEnds, EvalStarts, EvalReturns, EvalCompletes,
       EvalFails, vars, trainVars
<1> QED
  BY <1>1, <1>2, <1>3, <1>4 DEF Next, System, TaskStep, Returned

\* What is stored of the run: how far it took scenarios, the last eval.
LEMMA StoredWith ==
  ASSUME [Next]_vars
  PROVE  /\ persisted'.scenario_offset \in {persisted.scenario_offset, scenario_offset'}
         /\ \/ persisted'.last_eval_step = last_eval_step'
            \/ UNCHANGED <<persisted, last_eval_step>>
<1>1. CASE StepLogged \/ FinishTraining \/ EvalCompletes
  <2>1. \E step, offset, completed :
          persisted' = Persisted(step, offset, last_eval_step', completed)
    BY <1>1 DEF StepLogged, FinishTraining, EvalCompletes
  <2> QED
    BY <2>1, OffsetStored DEF Persisted
<1>2. CASE ~(StepLogged \/ FinishTraining \/ EvalCompletes)
  <2>1. UNCHANGED persisted
    <3>1. Elsewhere \/ BeginTrain \/ (\E step \in Steps : TrainReturns(step))
            => UNCHANGED persisted
      BY DEF Elsewhere, BeginTrain, TrainReturns
    <3>2. CASE UNCHANGED vars
      BY <3>2 DEF vars, stateVars
    <3> QED
      BY <1>2, <3>1, <3>2, RunSteps
  <2>2. UNCHANGED last_eval_step
    BY <1>2, RunAlong DEF Along, BeginTrain, TrainReturns
  <2> QED
    BY <2>1, <2>2, OffsetStored
<1> QED
  BY <1>1, <1>2

LEMMA OffsetGrows ==
  ASSUME TypeOK, [Next]_vars
  PROVE  scenario_offset' \in {scenario_offset, scenario_offset + 1}
<1>1. ASSUME NEW w \in Workers, WorkerStep(w)
      PROVE  scenario_offset' \in {scenario_offset, scenario_offset + 1}
  BY <1>1 DEF WorkerStep, TakeScenario, ScenariosExhausted, WaitForPolicy,
       GiveUpScenario, StartRollout, RolloutFails, RolloutReturns, PutGroup,
       PutTimesOut, stateVars
<1>2. CASE RequestStop \/ StopNotifies \/ StopPuts \/ RolloutStageJoins
           \/ RolloutStagePuts \/ UNCHANGED vars \/ EvalStep
  BY <1>2 DEF RequestStop, StopNotifies, StopPuts, RolloutStageJoins,
       RolloutStagePuts, EvalStep, EvalStageTakes, EvalStageCreates,
       EvalStageLeaves, EvalStageEnds, EvalStarts, EvalReturns, EvalCompletes,
       EvalFails, vars, stateVars
<1>3. CASE TrainingStep \/ BackendStep
  BY <1>3 DEF TrainingStep, BackendStep, BeginCollect, CollectStep,
       CollectSentinel, CollectAllFailed, CollectStale, CollectZeroVariance,
       CollectGroup, CollectSuspends, BeginTrain, StepLogged, TrainingRaises,
       FinishTraining, TrainReturns, AdaptersPruned, RetentionRan, stateVars
<1> QED
  BY <1>1, <1>2, <1>3 DEF Next, System, TaskStep, Returned

-----------------------------------------------------------------------------
(* Where the scenarios are that a run took: each is in a place until it has  *)
(* a fate or went into the weights.                                          *)

Placed(s) == HeldByWorkers(s) # {} \/ Queued(s) # {} \/ InBatch(s)

Followed(s) == s <= scenario_offset /\ fate[s] = "none" => Placed(s)

LEMMA FollowedElsewhere ==
  ASSUME TypeOK, UNCHANGED <<scenario_offset, batch>>,
         \A w \in Workers :
           /\ worker'[w].scenario = worker[w].scenario \/ worker[w].pc \notin HeldPc
           /\ worker'[w].pc \in HeldPc <=> worker[w].pc \in HeldPc,
         \/ output_queue' = output_queue
         \/ output_queue' = Append(output_queue, Sentinel),
         NEW s \in Scenarios, Followed(s), fate'[s] = fate[s] \/ fate'[s] # "none"
  PROVE  Followed(s)'
<1>1. HeldByWorkers(s)' = HeldByWorkers(s)
  BY DEF HeldByWorkers, HeldPc
<1>2. Queued(s)' = Queued(s)
  <2>1. CASE output_queue' = output_queue
    BY <2>1 DEF Queued
  <2>2. CASE output_queue' = Append(output_queue, Sentinel)
    <3>1. Sentinel.scenario # s
      BY PipelineAssumption DEF Sentinel, Scenarios
    <3> QED
      BY <2>2, <3>1, QueuedAppended, SentinelType DEF TypeOK
  <2> QED
    BY <2>1, <2>2
<1>3. InBatch(s)' <=> InBatch(s)
  BY DEF InBatch
<1> QED
  BY <1>1, <1>2, <1>3 DEF Followed, Placed

LEMMA FollowedShuffled ==
  ASSUME TypeOK, Shuffles, NEW s \in Scenarios, Followed(s),
         StepLogged => ~InBatch(s)
  PROVE  Followed(s)'
<1>1. /\ UNCHANGED <<scenario_offset, fate>>
      /\ worker' = worker \/ worker' = Woken
      /\ \/ output_queue' = output_queue
         \/ output_queue' = Append(output_queue, Sentinel)
      /\ batch' = batch \/ StepLogged
  <2>1. CASE RequestStop \/ StopNotifies \/ StopPuts \/ RolloutStageJoins
             \/ RolloutStagePuts \/ EvalStep
    BY <2>1 DEF RequestStop, StopNotifies, StopPuts, RolloutStageJoins,
       RolloutStagePuts, EvalStep, EvalStageTakes, EvalStageCreates,
       EvalStageLeaves, EvalStageEnds, EvalStarts, EvalReturns, EvalCompletes,
       EvalFails, stateVars, queueVars, rolloutVars, trainVars
  <2>2. CASE BeginCollect \/ CollectSuspends \/ BeginTrain \/ FinishTraining
             \/ (TrainingRaises /\ tpc # "train") \/ AdaptersPruned \/ RetentionRan
    BY <2>2 DEF BeginCollect, CollectSuspends, BeginTrain,
       TrainingRaises, AdaptersPruned, RetentionRan, FinishTraining,
       stateVars, queueVars, rolloutVars
  <2>3. CASE StepLogged
    BY <2>3 DEF StepLogged, queueVars
  <2> QED
    BY <2>1, <2>2, <2>3 DEF Shuffles
<1>2. \A w \in Workers :
        /\ worker'[w].scenario = worker[w].scenario
        /\ worker'[w].pc \in HeldPc <=> worker[w].pc \in HeldPc
  BY <1>1, WokenPlaces
<1>3. CASE batch' = batch
  BY <1>1, <1>2, <1>3, FollowedElsewhere
<1>4. CASE StepLogged
  <2>1. HeldByWorkers(s)' = HeldByWorkers(s)
    BY <1>2 DEF HeldByWorkers, HeldPc
  <2>2. Queued(s)' = Queued(s)
    BY <1>4 DEF StepLogged, queueVars, Queued
  <2> QED
    BY <1>1, <1>4, <2>1, <2>2 DEF Followed, Placed
<1> QED
  BY <1>1, <1>3, <1>4

LEMMA FollowedByWorker ==
  ASSUME TypeOK, NEW w \in Workers, WorkerStep(w), NEW s \in Scenarios, Followed(s)
  PROVE  Followed(s)'
<1>t. /\ worker \in [Workers -> Worker] /\ scenario_offset \in Nat /\ s \in Nat
      /\ QueueTypeOK /\ fate \in [Scenarios -> Fates]
  BY PipelineAssumption DEF TypeOK, RolloutTypeOK, StateTypeOK, Scenarios
<1>1. CASE TakeScenario(w)
  <2>1. /\ \A v \in Workers \ {w} : worker'[v] = worker[v]
        /\ worker[w].pc = "fetch" /\ worker'[w].pc = "check"
        /\ worker'[w].scenario = scenario_offset + 1
        /\ scenario_offset' = scenario_offset + 1
        /\ UNCHANGED <<output_queue, batch, fate>>
    BY <1>1, <1>t DEF TakeScenario, Worker, trainVars, queueVars
  <2>2. Queued(s)' = Queued(s) /\ (InBatch(s)' <=> InBatch(s))
    BY <2>1 DEF Queued, InBatch
  <2>3. HeldByWorkers(s)' =
          HeldByWorkers(s) \cup (IF s = scenario_offset + 1 THEN {w} ELSE {})
    BY <2>1 DEF HeldByWorkers
  <2>4. s <= scenario_offset' => s <= scenario_offset \/ s = scenario_offset + 1
    BY <1>t, <2>1
  <2> QED
    BY <2>1, <2>2, <2>3, <2>4 DEF Followed, Placed
<1>2. CASE Retires(w) \/ Delivers(w)
  <2>1. /\ \A v \in Workers \ {w} : worker'[v] = worker[v]
        /\ worker[w].pc \in HeldPc /\ worker'[w].pc \notin HeldPc
        /\ UNCHANGED <<scenario_offset, batch>>
    BY <1>2 DEF Retires, Delivers, HeldPc, trainVars
  <2>2. HeldByWorkers(s)' = HeldByWorkers(s) \ {w}
        /\ (w \in HeldByWorkers(s) => worker[w].scenario = s)
    BY <2>1 DEF HeldByWorkers, HeldPc
  <2>3. InBatch(s)' <=> InBatch(s)
    BY <2>1 DEF InBatch
  <2>4. CASE Retires(w)
    <3>1. Queued(s)' = Queued(s)
      BY <2>4 DEF Retires, Queued
    <3>2. /\ worker[w].scenario = s => fate'[s] # "none"
          /\ worker[w].scenario # s => fate'[s] = fate[s]
      BY <1>t, <2>4 DEF Retires
    <3> QED
      BY <2>1, <2>2, <2>3, <3>1, <3>2 DEF Followed, Placed
  <2>5. CASE Delivers(w)
    <3>1. PICK outcome \in GroupKinds :
            output_queue' = Append(output_queue, GroupOf(w, outcome))
      BY <2>5 DEF Delivers
    <3>2. GroupOf(w, outcome) \in Group /\ GroupOf(w, outcome).scenario = worker[w].scenario
      <4>1. GroupOf(w, outcome) \in Group
        BY <3>1, GroupOfType DEF TypeOK
      <4> QED
        BY <4>1 DEF GroupOf
    <3>3. Queued(s)' = Queued(s) \cup
            (IF worker[w].scenario = s THEN {Len(output_queue) + 1} ELSE {})
      BY <1>t, <3>1, <3>2, QueuedAppended
    <3>4. UNCHANGED fate
      BY <2>5 DEF Delivers
    <3> QED
      BY <2>1, <2>2, <2>3, <3>3, <3>4 DEF Followed, Placed
  <2> QED
    BY <1>2, <2>4, <2>5
<1>3. CASE GoesOn(w)
  <2>1. \A v \in Workers :
           /\ worker'[v].scenario = worker[v].scenario \/ worker[v].pc \notin HeldPc
           /\ worker'[v].pc \in HeldPc <=> worker[v].pc \in HeldPc
    BY <1>3 DEF GoesOn
  <2> QED
    BY <1>3, <2>1, FollowedElsewhere DEF GoesOn, trainVars
<1> QED
  BY <1>1, <1>2, <1>3, WorkerDoes

\* What collecting does to the fates, and to the batch.
LEMMA CollectedFate ==
  ASSUME TypeOK, CollectStep, ~CollectSuspends, NEW s \in Scenarios
  PROVE  /\ Dequeue /\ UNCHANGED <<worker, scenario_offset>>
         /\ \/ UNCHANGED batch /\ (fate'[s] = fate[s] \/ fate'[s] # "none")
            \/ UNCHANGED fate /\ batch' = Append(batch, Item) /\ Item.kind = "ok"
            \/ batch' = <<>> /\ (fate'[s] = fate[s] \/ fate'[s] # "none")
               /\ (InBatch(s) => fate'[s] # "none")
         /\ Item.scenario = s => fate'[s] # "none" \/ batch' = Append(batch, Item)
<1>t. fate \in [Scenarios -> Fates]
  BY DEF TypeOK
<1>1. Dequeue /\ UNCHANGED <<worker, scenario_offset>>
  BY DEF CollectStep, CollectSentinel, CollectAllFailed, CollectStale,
         CollectZeroVariance, CollectGroup, Dequeue, stateVars, rolloutVars
<1>2. CASE CollectSentinel
  <2>1. Item.scenario # s
    BY <1>2 DEF CollectSentinel, Sentinel, Scenarios
  <2> QED
    BY <1>1, <1>2, <2>1 DEF CollectSentinel
<1>3. CASE CollectAllFailed
  <2>1. /\ UNCHANGED batch
        /\ fate'[s] = IF Item.scenario = s THEN "error" ELSE BatchFate("dropped")[s]
    BY <1>3 DEF CollectAllFailed, BatchFate
  <2>2. BatchFate("dropped")[s] \in {"dropped", fate[s]}
    BY DEF BatchFate
  <2> QED
    BY <1>1, <2>1, <2>2
<1>4. CASE CollectStale
  BY <1>1, <1>4, <1>t DEF CollectStale
<1>5. CASE CollectZeroVariance
  <2>1. CASE discard_count + 1 < DiscardLimit /\ UNCHANGED batch
             /\ fate' = [fate EXCEPT ![Item.scenario] = "zero"]
    BY <1>1, <1>t, <2>1
  <2>2. CASE batch' = <<>> /\ fate' = [BatchFate("dropped") EXCEPT ![Item.scenario] = "zero"]
    <3>1. fate'[s] = IF Item.scenario = s THEN "zero" ELSE BatchFate("dropped")[s]
      BY <2>2 DEF BatchFate
    <3>2. /\ BatchFate("dropped")[s] \in {"dropped", fate[s]}
          /\ InBatch(s) => BatchFate("dropped")[s] = "dropped"
      BY DEF BatchFate
    <3> QED
      BY <1>1, <2>2, <3>1, <3>2
  <2> QED
    BY <1>5, <2>1, <2>2 DEF CollectZeroVariance
<1>6. CASE CollectGroup
  BY <1>1, <1>6 DEF CollectGroup
<1> QED
  BY <1>2, <1>3, <1>4, <1>5, <1>6 DEF CollectStep

LEMMA FollowedCollecting ==
  ASSUME TypeOK, CollectStep, ~CollectSuspends, NEW s \in Scenarios,
         Apart(s), Followed(s)
  PROVE  Followed(s)'
<1>1. HeldByWorkers(s)' = HeldByWorkers(s) /\ UNCHANGED scenario_offset
  BY CollectedFate DEF HeldByWorkers
<1>2. Item.scenario # s => (Queued(s)' = {} <=> Queued(s) = {})
  BY CollectedFate, QueuedShifted DEF Apart, TypeOK
<1>3. CASE batch' = Append(batch, Item) /\ Item.kind = "ok"
  <2>1. batch \in Seq(Group) /\ Item \in Group
    <3>1. output_queue \in Seq(Group) /\ output_queue # <<>> /\ batch \in Seq(Group)
      BY CollectedFate DEF TypeOK, QueueTypeOK, TrainTypeOK, Dequeue
    <3> QED
      BY <3>1 DEF Item
  <2>2. /\ DOMAIN batch' = 1..(Len(batch) + 1) /\ DOMAIN batch = 1..Len(batch)
        /\ Len(batch) \in Nat
        /\ \A i \in DOMAIN batch : batch'[i] = batch[i]
        /\ batch'[Len(batch) + 1] = Item
    BY <1>3, <2>1
  <2>3. (InBatch(s) \/ Item.scenario = s) => InBatch(s)'
    <3>1. DOMAIN batch \subseteq DOMAIN batch' /\ Len(batch) + 1 \in DOMAIN batch'
      BY <2>2
    <3> QED
      BY <2>2, <3>1 DEF InBatch
  <2>4. fate'[s] = fate[s] \/ fate'[s] # "none"
    BY CollectedFate
  <2> QED
    BY <1>1, <1>2, <2>3, <2>4 DEF Followed, Placed
<1>4. CASE UNCHANGED batch
  <2>1. InBatch(s)' <=> InBatch(s)
    BY <1>4 DEF InBatch
  <2>2. /\ fate'[s] = fate[s] \/ fate'[s] # "none"
        /\ Item.scenario = s => fate'[s] # "none" \/ batch' = Append(batch, Item)
    BY CollectedFate
  <2>3. ~(batch' = Append(batch, Item))
    <3>1. batch \in Seq(Group)
      BY DEF TypeOK, TrainTypeOK
    <3>2. Item \in Group
      <4>1. output_queue \in Seq(Group) /\ output_queue # <<>>
        BY CollectedFate DEF TypeOK, QueueTypeOK, Dequeue
      <4> QED
        BY <4>1 DEF Item
    <3>3. Len(Append(batch, Item)) # Len(batch)
      BY <3>1, <3>2
    <3> QED
      BY <1>4, <3>3
  <2> QED
    BY <1>1, <1>2, <2>1, <2>2, <2>3 DEF Followed, Placed
<1>5. CASE /\ batch' = <<>> /\ (fate'[s] = fate[s] \/ fate'[s] # "none")
           /\ (InBatch(s) => fate'[s] # "none")
  <2>1. ~(batch' = Append(batch, Item))
    <3>1. batch \in Seq(Group)
      BY DEF TypeOK, TrainTypeOK
    <3>2. Item \in Group
      <4>1. output_queue \in Seq(Group) /\ output_queue # <<>>
        BY CollectedFate DEF TypeOK, QueueTypeOK, Dequeue
      <4> QED
        BY <4>1 DEF Item
    <3>3. Len(batch) + 1 \in DOMAIN Append(batch, Item)
      BY <3>1, <3>2
    <3>4. DOMAIN batch' = {}
      BY <1>5
    <3> QED
      BY <3>3, <3>4
  <2>2. Item.scenario = s => fate'[s] # "none"
    BY <2>1, CollectedFate
  <2> QED
    BY <1>1, <1>2, <1>5, <2>2 DEF Followed, Placed
<1> QED
  BY <1>3, <1>4, <1>5, CollectedFate

LEMMA FollowedNext ==
  ASSUME TypeOK, [Next]_vars, NEW s \in Scenarios, Apart(s), Followed(s),
         StepLogged => ~InBatch(s)
  PROVE  Followed(s)'
<1>1. CASE UNCHANGED vars \/ TrainingRaises \/ \E step \in Steps : TrainReturns(step)
  <2>1. UNCHANGED <<scenario_offset, worker, output_queue, batch>>
    BY <1>1 DEF vars, stateVars, rolloutVars, queueVars, trainVars,
                TrainingRaises, TrainReturns
  <2>2. fate'[s] = fate[s] \/ fate'[s] # "none"
    BY <1>1 DEF vars, TrainingRaises, TrainReturns, BatchFate
  <2> QED
    BY <2>1, <2>2, FollowedElsewhere
<1>2. ASSUME NEW w \in Workers, WorkerStep(w) PROVE Followed(s)'
  BY <1>2, FollowedByWorker
<1>3. CASE Shuffles
  BY <1>3, FollowedShuffled
<1>4. CASE CollectStep /\ ~CollectSuspends
  BY <1>4, FollowedCollecting
<1> QED
  BY <1>1, <1>2, <1>3, <1>4
     DEF Next, System, TaskStep, TrainingStep, BackendStep, Returned, Shuffles

-----------------------------------------------------------------------------
(* The scenarios a run gives up: one by each worker, which then stops, and   *)
(* those of the batch by which it ends.                                      *)

GivenUp ==
  {s \in Scenarios : fate[s] = "dropped" /\ times[s] = 0 /\ s \notin lost /\ ~InBatch(s)}
Stopped == {w \in Workers : worker[w].pc = "stopped"}
Debt == IF tpc \in {"finish", "finished"} THEN MaxBatch ELSE 0

LEMMA WorkerGivesUp ==
  ASSUME TypeOK, NEW w \in Workers, WorkerStep(w)
  PROVE  /\ UNCHANGED trainVars
         /\ \A v \in Workers \ {w} : worker'[v] = worker[v]
         /\ worker[w].pc # "stopped"
         /\ \/ UNCHANGED fate
            \/ fate' = [fate EXCEPT ![worker[w].scenario] = "error"]
            \/ /\ fate' = [fate EXCEPT ![worker[w].scenario] = "dropped"]
               /\ worker'[w].pc = "stopped"
<1>t. worker \in [Workers -> Worker]
  BY DEF TypeOK, RolloutTypeOK
<1>1. CASE TakeScenario(w) \/ ScenariosExhausted(w) \/ WaitForPolicy(w) \/ StartRollout(w)
           \/ RolloutFails(w)
  BY <1>1, <1>t DEF TakeScenario, ScenariosExhausted, WaitForPolicy, StartRollout,
     RolloutFails
<1>2. CASE GiveUpScenario(w) \/ PutTimesOut(w)
  BY <1>2, <1>t DEF GiveUpScenario, PutTimesOut, WorkerAt
<1>3. ASSUME NEW outcome \in Outcomes, RolloutReturns(w, outcome)
      PROVE  /\ UNCHANGED trainVars
             /\ \A v \in Workers \ {w} : worker'[v] = worker[v]
             /\ worker[w].pc # "stopped"
             /\ \/ UNCHANGED fate
                \/ /\ fate' = [fate EXCEPT ![worker[w].scenario] = "dropped"]
                   /\ worker'[w].pc = "stopped"
  BY <1>3, <1>t DEF RolloutReturns, WorkerAt
<1>4. CASE PutGroup(w)
  BY <1>4, <1>t DEF PutGroup
<1> QED
  BY <1>1, <1>2, <1>3, <1>4 DEF WorkerStep

LEMMA StoppedStay ==
  ASSUME TypeOK, [Next]_vars
  PROVE  Stopped \subseteq Stopped'
<1>1. ASSUME NEW w \in Workers, WorkerStep(w) PROVE Stopped \subseteq Stopped'
  BY <1>1, WorkerGivesUp DEF Stopped
<1>2. CASE ~ \E w \in Workers : WorkerStep(w)
  <2>1. UNCHANGED worker \/ worker' = Woken
    BY <1>2 DEF Next, System, TaskStep, Returned, RequestStop, StopNotifies,
       StopPuts, RolloutStageJoins, RolloutStagePuts, TrainingStep,
       BeginCollect, CollectStep, CollectSentinel, CollectAllFailed,
       CollectStale, CollectZeroVariance, CollectGroup, CollectSuspends,
       BeginTrain, StepLogged, TrainingRaises, FinishTraining, BackendStep,
       TrainReturns, AdaptersPruned, RetentionRan, EvalStep, EvalStageTakes,
       EvalStageCreates, EvalStageLeaves, EvalStageEnds, EvalStarts,
       EvalReturns, EvalCompletes, EvalFails, vars, rolloutVars
  <2> QED
    BY <2>1 DEF Stopped, Woken
<1> QED
  BY <1>1, <1>2

LEMMA GivenUpFinite ==
  /\ IsFiniteSet(GivenUp) /\ Cardinality(GivenUp) \in Nat
  /\ IsFiniteSet(GivenUp') /\ Cardinality(GivenUp') \in Nat
  /\ IsFiniteSet(Stopped) /\ Cardinality(Stopped) \in Nat
  /\ IsFiniteSet(Stopped') /\ Cardinality(Stopped') \in Nat
<1>1. /\ GivenUp \in SUBSET Scenarios /\ GivenUp' \in SUBSET Scenarios
      /\ Stopped \in SUBSET Workers /\ Stopped' \in SUBSET Workers
  BY DEF GivenUp, Stopped
<1> QED
  BY <1>1, ScenariosFinite, PipelineAssumption, FS_Subset, FS_CardinalityType

\* What a step adds, if it takes no scenario out of the batch that is new.
LEMMA GivenUpStep ==
  ASSUME [Next]_vars, UNCHANGED <<times, lost>>, TypeOK, times \in [Scenarios -> Nat],
         StepLogged => \A s \in Scenarios : InBatch(s) => times[s] >= 1
  PROVE  \/ GivenUp' \subseteq GivenUp
         \/ /\ GivenUp' \subseteq GivenUp \cup {s \in Scenarios : InBatch(s)}
            /\ tpc \notin {"finish", "finished"} /\ tpc' = "finish"
         \/ \E w \in Workers :
              /\ GivenUp' \subseteq GivenUp \cup {worker[w].scenario}
              /\ w \in Stopped' \ Stopped
<1>t. fate \in [Scenarios -> Fates]
  BY DEF TypeOK
<1> DEFINE InBatchStays == \A s \in Scenarios : InBatch(s) => InBatch(s)'
<1>1. ASSUME \A s \in Scenarios : fate'[s] = "dropped" => fate[s] = "dropped" \/ InBatch(s)',
             InBatchStays
      PROVE  GivenUp' \subseteq GivenUp
  <2>1. \A s \in Scenarios : InBatch(s) => InBatch(s)'
    BY <1>1
  <2> HIDE DEF InBatchStays
  <2> QED
    BY <1>1, <2>1 DEF GivenUp
<1>2. UNCHANGED batch => InBatchStays
  BY DEF InBatch
<1> HIDE DEF InBatchStays
<1>3. ASSUME UNCHANGED <<fate, batch>> PROVE GivenUp' \subseteq GivenUp
  BY <1>1, <1>2, <1>3
<1>4. ASSUME NEW w \in Workers, WorkerStep(w)
      PROVE  \/ GivenUp' \subseteq GivenUp
             \/ /\ GivenUp' \subseteq GivenUp \cup {worker[w].scenario}
                /\ w \in Stopped' \ Stopped
  <2>0. UNCHANGED batch
    BY <1>4, WorkerGivesUp DEF trainVars
  <2>1. CASE UNCHANGED fate
    BY <1>3, <2>0, <2>1
  <2>2. CASE fate' = [fate EXCEPT ![worker[w].scenario] = "error"]
    <3>1. \A s \in Scenarios : fate'[s] = "dropped" => fate[s] = "dropped"
      BY <1>t, <2>2
    <3> QED
      BY <1>1, <1>2, <2>0, <3>1
  <2>3. CASE /\ fate' = [fate EXCEPT ![worker[w].scenario] = "dropped"]
             /\ worker'[w].pc = "stopped"
    <3>1. \A s \in Scenarios : s # worker[w].scenario => fate'[s] = fate[s]
      BY <1>t, <2>3
    <3>2. \A s \in Scenarios : InBatch(s)' <=> InBatch(s)
      BY <2>0 DEF InBatch
    <3>3. GivenUp' \subseteq GivenUp \cup {worker[w].scenario}
      BY <3>1, <3>2 DEF GivenUp
    <3>4. w \in Stopped' \ Stopped
      BY <1>4, <2>3, WorkerGivesUp DEF Stopped
    <3> QED
      BY <3>3, <3>4
  <2> QED
    BY <1>4, <2>1, <2>2, <2>3, WorkerGivesUp
<1>5. CASE CollectStep /\ ~CollectSuspends
  <2>1. CASE CollectSentinel
    BY <1>3, <2>1 DEF CollectSentinel
  <2>2. CASE CollectAllFailed
    <3>1. \A s \in Scenarios : fate'[s] = "dropped" => fate[s] = "dropped" \/ InBatch(s)
      BY <2>2 DEF CollectAllFailed, BatchFate
    <3>2. UNCHANGED batch
      BY <2>2 DEF CollectAllFailed
    <3> QED
      BY <1>1, <1>2, <3>1, <3>2 DEF InBatch
  <2>3. CASE CollectStale
    <3>1. \A s \in Scenarios : fate'[s] = "dropped" => fate[s] = "dropped"
      BY <1>t, <2>3 DEF CollectStale
    <3> QED
      BY <1>1, <1>2, <2>3, <3>1 DEF CollectStale
  <2>4. CASE CollectZeroVariance
    <3>1. CASE fate' = [fate EXCEPT ![Item.scenario] = "zero"] /\ UNCHANGED batch
      <4>1. \A s \in Scenarios : fate'[s] = "dropped" => fate[s] = "dropped"
        BY <1>t, <3>1
      <4> QED
        BY <1>1, <1>2, <3>1, <4>1
    <3>2. CASE /\ fate' = [BatchFate("dropped") EXCEPT ![Item.scenario] = "zero"]
               /\ tpc' = "finish"
      <4>1. \A s \in Scenarios : fate'[s] = "dropped" => fate[s] = "dropped" \/ InBatch(s)
        BY <3>2 DEF BatchFate
      <4>2. GivenUp' \subseteq GivenUp \cup {s \in Scenarios : InBatch(s)}
        BY <4>1 DEF GivenUp
      <4>3. tpc \notin {"finish", "finished"}
        BY <2>4 DEF CollectZeroVariance, Dequeue
      <4> QED
        BY <3>2, <4>2, <4>3
    <3> QED
      BY <2>4, <3>1, <3>2 DEF CollectZeroVariance
  <2>5. CASE CollectGroup
    <3>1. UNCHANGED fate
      BY <2>5 DEF CollectGroup
    <3>2. InBatchStays
      <4>1. batch \in Seq(Group) /\ Item \in Group
        <5>1. output_queue \in Seq(Group) /\ output_queue # <<>> /\ batch \in Seq(Group)
          BY <2>5 DEF TypeOK, QueueTypeOK, TrainTypeOK, Dequeue, CollectGroup
        <5> QED
          BY <5>1 DEF Item
      <4>2. batch' = Append(batch, Item)
        BY <2>5 DEF CollectGroup
      <4>3. \A i \in DOMAIN batch : i \in DOMAIN batch' /\ batch'[i] = batch[i]
        BY <4>1, <4>2
      <4> QED
        BY <4>3 DEF InBatch, InBatchStays
    <3> QED
      BY <1>1, <3>1, <3>2
  <2> QED
    BY <1>5, <2>1, <2>2, <2>3, <2>4, <2>5 DEF CollectStep
<1>6. CASE StepLogged
  <2>1. UNCHANGED fate /\ \A s \in Scenarios : InBatch(s) => times[s] # 0
    BY <1>6 DEF StepLogged
  <2> QED
    BY <2>1 DEF GivenUp
<1>7. CASE TrainingRaises \/ \E step \in Steps : TrainReturns(step)
  <2>1. UNCHANGED batch /\ (UNCHANGED fate \/ fate' = BatchFate("dropped") \/ fate' = BatchFate("trained"))
    BY <1>7 DEF TrainingRaises, TrainReturns
  <2>2. \A s \in Scenarios : fate'[s] = "dropped" => fate[s] = "dropped" \/ InBatch(s)
    BY <2>1 DEF BatchFate
  <2> QED
    BY <1>1, <1>2, <2>1, <2>2 DEF InBatch
<1>8. CASE RequestStop \/ StopNotifies \/ StopPuts \/ RolloutStageJoins \/ RolloutStagePuts
           \/ EvalStep \/ UNCHANGED vars
  <2>1. UNCHANGED <<fate, batch>>
    BY <1>8 DEF RequestStop, StopNotifies, StopPuts, RolloutStageJoins,
       RolloutStagePuts, EvalStep, EvalStageTakes, EvalStageCreates,
       EvalStageLeaves, EvalStageEnds, EvalStarts, EvalReturns, EvalCompletes,
       EvalFails, vars, trainVars
  <2> QED
    BY <1>3, <2>1
<1>9. CASE BeginCollect \/ CollectSuspends \/ BeginTrain \/ AdaptersPruned \/ RetentionRan
           \/ FinishTraining
  <2>1. UNCHANGED <<fate, batch>>
    BY <1>9 DEF BeginCollect, CollectSuspends, BeginTrain, AdaptersPruned, RetentionRan,
       FinishTraining
  <2> QED
    BY <1>3, <2>1
<1> QED
  BY <1>4, <1>5, <1>6, <1>7, <1>8, <1>9
     DEF Next, System, TaskStep, TrainingStep, BackendStep, Returned

LEMMA GivenUpNext ==
  ASSUME [Next]_vars, UNCHANGED <<times, lost>>, TypeOK, times \in [Scenarios -> Nat],
         StepLogged => \A s \in Scenarios : InBatch(s) => times[s] >= 1,
         tpc \in {"loop", "finish", "finished"} => batch = <<>>,
         Len(batch) <= MaxBatch,
         Cardinality(GivenUp) <= Cardinality(Stopped) + Debt
  PROVE  Cardinality(GivenUp') <= Cardinality(Stopped') + Debt'
<1>1. Debt \in Nat /\ Debt' \in Nat /\ Debt <= Debt' /\ MaxBatch \in Nat
  BY EmptyBetween, PipelineAssumption DEF Debt
<1>2. Stopped \subseteq Stopped' /\ Cardinality(Stopped) <= Cardinality(Stopped')
  BY StoppedStay, GivenUpFinite, FS_Subset
<1>3. CASE GivenUp' \subseteq GivenUp
  <2>1. Cardinality(GivenUp') <= Cardinality(GivenUp)
    BY <1>3, GivenUpFinite, FS_Subset
  <2> QED
    BY <1>1, <1>2, <2>1, GivenUpFinite
<1>4. CASE /\ GivenUp' \subseteq GivenUp \cup {s \in Scenarios : InBatch(s)}
           /\ tpc \notin {"finish", "finished"} /\ tpc' = "finish"
  <2> DEFINE B == {s \in Scenarios : InBatch(s)}
  <2>1. IsFiniteSet(B) /\ Cardinality(B) \in Nat /\ Cardinality(B) <= MaxBatch
    BY BatchScenarios
  <2>2. GivenUp' \subseteq GivenUp \cup B
    BY <1>4
  <2> HIDE DEF B
  <2>3. Cardinality(GivenUp') <= Cardinality(GivenUp) + Cardinality(B)
    <3>1. /\ IsFiniteSet(GivenUp \cup B)
          /\ Cardinality(GivenUp \cup B) =
               Cardinality(GivenUp) + Cardinality(B) - Cardinality(GivenUp \cap B)
      BY <2>1, GivenUpFinite, FS_Union
    <3>2. Cardinality(GivenUp \cap B) \in Nat
      BY GivenUpFinite, FS_Intersection, FS_CardinalityType
    <3>3. Cardinality(GivenUp') <= Cardinality(GivenUp \cup B)
      BY <2>2, <3>1, FS_Subset
    <3> QED
      BY <2>1, <3>1, <3>2, <3>3, GivenUpFinite
  <2>4. Debt = 0 /\ Debt' = MaxBatch
    BY <1>4 DEF Debt
  <2> QED
    BY <1>1, <1>2, <2>1, <2>3, <2>4, GivenUpFinite
<1>5. ASSUME NEW w \in Workers, GivenUp' \subseteq GivenUp \cup {worker[w].scenario},
             w \in Stopped' \ Stopped
      PROVE  Cardinality(GivenUp') <= Cardinality(Stopped') + Debt'
  <2>1. /\ IsFiniteSet(GivenUp \cup {worker[w].scenario})
        /\ Cardinality(GivenUp \cup {worker[w].scenario}) \in
             {Cardinality(GivenUp), Cardinality(GivenUp) + 1}
    BY GivenUpFinite, FS_AddElement
  <2>2. Cardinality(GivenUp') <= Cardinality(GivenUp) + 1
    BY <1>5, <2>1, GivenUpFinite, FS_Subset
  <2>3. Cardinality(Stopped) + 1 <= Cardinality(Stopped')
    <3>1. Stopped \cup {w} \subseteq Stopped' /\ w \notin Stopped
      BY <1>2, <1>5
    <3>2. IsFiniteSet(Stopped \cup {w}) /\ Cardinality(Stopped \cup {w}) = Cardinality(Stopped) + 1
      BY <3>1, GivenUpFinite, FS_AddElement
    <3> QED
      BY <3>1, <3>2, GivenUpFinite, FS_Subset
  <2> QED
    BY <1>1, <2>2, <2>3, GivenUpFinite
<1> QED
  BY <1>3, <1>4, <1>5, GivenUpStep

-----------------------------------------------------------------------------
(* What is known of the scenarios a run took, and of what its weights saw.   *)

\* The weights have seen the batch.
Stepped == tpc = "train" /\ (backend # current_step \/ progress # "idle")

SeenInv ==
  /\ kind \in Backends /\ lost \subseteq Scenarios
  /\ persisted.scenario_offset <= scenario_offset
  /\ tpc \in {"loop", "finish", "finished"} => batch = <<>>
  /\ progress # "idle" => tpc \in {"train", "failed"} /\ backend = current_step
  /\ Stepped \/ tpc \in AfterStep => \A s \in Scenarios : InBatch(s) => times[s] >= 1
  /\ \A s \in Scenarios : fate[s] = "trained" => times[s] >= 1
  /\ kind = "local" => kept = times
  /\ \A s \in Scenarios : times[s] = 0 /\ s \notin lost => Followed(s)
  /\ Cardinality(GivenUp) <= Cardinality(Stopped) + Debt

\* A step of the run that is not the backend's, or none.
RunsOn ==
  /\ [Next]_vars
  /\ UNCHANGED <<kind, backend, saved, progress, restarts, times, kept, lost>>
  /\ tpc = "train" /\ tpc' = "prune" => policy_version' = backend

LEMMA RunsOnWhen ==
  ASSUME Aside \/ RunStep
  PROVE  RunsOn
<1>1. CASE Aside
  <2>1. UNCHANGED <<vars, backendStepVars, restarts, historyVars>>
    BY <1>1, AsideKeeps
  <2>2. UNCHANGED tpc
    BY <2>1 DEF vars, trainVars
  <2> QED
    BY <2>1, <2>2 DEF RunsOn, backendStepVars, historyVars
<1>2. CASE RunStep
  BY <1>2 DEF RunStep, RunsOn, backendStepVars
<1> QED
  BY <1>1, <1>2

\* The step of a batch is a new one, whose weights the backend has.
LEMMA StepReturned ==
  ASSUME RunTypeInv, SeenInv, "same_step" \notin Environment, RunsOn,
         NEW step \in Steps, TrainReturns(step)
  PROVE  /\ tpc = "train" /\ tpc' = "prune" /\ step = current_step + 1
         /\ backend = current_step + 1 /\ current_step' = current_step + 1
         /\ UNCHANGED <<batch, should_eval, last_eval_step>> /\ Stepped /\ progress = "idle"
<1>1. /\ tpc = "train" /\ tpc' = "prune" /\ step = current_step + 1
      /\ current_step' = step /\ policy_version' = step
      /\ UNCHANGED <<batch, should_eval, last_eval_step>>
  BY DEF TrainReturns
<1>2. backend = current_step + 1
  BY <1>1 DEF RunsOn
<1>3. current_step \in Nat
  BY DEF RunTypeInv, StepsInv
<1> QED
  BY <1>1, <1>2, <1>3 DEF Stepped, SeenInv

LEMMA SeenRunsOn ==
  ASSUME RunTypeInv, CountsInv, SeenInv, "same_step" \notin Environment, RunsOn
  PROVE  SeenInv'
<1>t. /\ TypeOK /\ current_step \in Nat /\ times \in [Scenarios -> Nat]
      /\ scenario_offset \in Nat /\ persisted.scenario_offset \in Nat
      /\ scenario_offset' \in Nat
      /\ [Next]_vars /\ UNCHANGED <<kind, backend, progress, times, kept, lost>>
  <2>1. TypeOK /\ current_step \in Nat /\ times \in [Scenarios -> Nat]
    BY DEF RunTypeInv, StepsInv, CountsInv
  <2>2. /\ scenario_offset \in Nat /\ persisted.scenario_offset \in Nat
    BY <2>1, PipelineAssumption DEF TypeOK, StateTypeOK
  <2>3. [Next]_vars /\ UNCHANGED <<kind, backend, progress, times, kept, lost>>
    BY DEF RunsOn
  <2> QED
    BY <2>1, <2>2, <2>3, OffsetGrows
<1>1. persisted'.scenario_offset <= scenario_offset'
  BY <1>t, OffsetGrows, StoredWith DEF SeenInv
<1>2. tpc' \in {"loop", "finish", "finished"} => batch' = <<>>
  BY <1>t, EmptyBetween DEF SeenInv
<1>3. /\ (progress' # "idle" => tpc' \in {"train", "failed"} /\ backend' = current_step')
      /\ (Stepped' \/ tpc' \in AfterStep =>
            UNCHANGED batch /\ (Stepped \/ tpc \in AfterStep))
  <2>1. CASE Along
    BY <1>t, <2>1 DEF Along, SeenInv, Stepped, AfterStep, Between
  <2>2. CASE BeginTrain
    <3>1. tpc = "drain" /\ tpc' = "train" /\ UNCHANGED current_step
      BY <2>2 DEF BeginTrain, BatchCollected
    <3>2. backend = current_step /\ progress = "idle"
      BY <3>1 DEF RunTypeInv, StepsInv, SeenInv
    <3> QED
      BY <1>t, <3>1, <3>2 DEF Stepped, AfterStep
  <2>3. CASE StepLogged
    <3>1. tpc = "log" /\ tpc' = "loop"
      BY <2>3 DEF StepLogged
    <3> QED
      BY <1>t, <3>1 DEF Stepped, AfterStep, SeenInv
  <2>4. ASSUME NEW step \in Steps, TrainReturns(step)
        PROVE  /\ progress' = "idle" /\ UNCHANGED batch /\ Stepped
    BY <1>t, <2>4, StepReturned
  <2> QED
    BY <1>t, <2>1, <2>2, <2>3, <2>4, RunAlong
<1>4. Stepped' \/ tpc' \in AfterStep => \A s \in Scenarios : InBatch(s)' => times'[s] >= 1
  BY <1>t, <1>3 DEF SeenInv, InBatch
<1>5. ASSUME NEW s \in Scenarios, fate'[s] = "trained" PROVE times'[s] >= 1
  <2>1. CASE \E step \in Steps : TrainReturns(step)
    <3>1. Stepped /\ fate' = BatchFate("trained")
      BY <2>1, StepReturned DEF TrainReturns
    <3> QED
      BY <1>5, <1>t, <3>1 DEF BatchFate, SeenInv
  <2>2. CASE ~ \E step \in Steps : TrainReturns(step)
    <3>0. fate \in [Scenarios -> Fates]
      BY <1>t DEF TypeOK
    <3>1. fate[s] = "trained"
      <4>1. ASSUME NEW w \in Workers, WorkerStep(w) PROVE fate[s] = "trained"
        <5>1. \/ UNCHANGED fate
              \/ fate' = [fate EXCEPT ![worker[w].scenario] = "error"]
              \/ fate' = [fate EXCEPT ![worker[w].scenario] = "dropped"]
          BY <1>t, <4>1, WorkerGivesUp
        <5> QED
          BY <1>5, <3>0, <5>1
      <4>2. CASE CollectStep
        BY <1>5, <3>0, <4>2 DEF CollectStep, CollectSentinel, CollectAllFailed,
           CollectStale, CollectZeroVariance, CollectGroup, CollectSuspends, BatchFate
      <4>3. CASE TrainingRaises
        BY <1>5, <4>3 DEF TrainingRaises, BatchFate
      <4>4. CASE RequestStop \/ StopNotifies \/ StopPuts \/ RolloutStageJoins
                 \/ RolloutStagePuts \/ EvalStep \/ UNCHANGED vars
        <5>1. UNCHANGED fate
          BY <4>4 DEF RequestStop, StopNotifies, StopPuts, RolloutStageJoins,
             RolloutStagePuts, EvalStep, EvalStageTakes, EvalStageCreates,
             EvalStageLeaves, EvalStageEnds, EvalStarts, EvalReturns, EvalCompletes,
             EvalFails, vars
        <5> QED
          BY <1>5, <5>1
      <4>5. CASE BeginCollect \/ BeginTrain \/ StepLogged \/ AdaptersPruned
                 \/ RetentionRan \/ FinishTraining
        <5>1. UNCHANGED fate
          BY <4>5 DEF BeginCollect, BeginTrain, StepLogged, AdaptersPruned, RetentionRan,
             FinishTraining
        <5> QED
          BY <1>5, <5>1
      <4> QED
        BY <1>t, <2>2, <4>1, <4>2, <4>3, <4>4, <4>5
           DEF Next, System, TaskStep, TrainingStep, BackendStep, Returned
    <3> QED
      BY <1>t, <3>1 DEF SeenInv
  <2> QED
    BY <2>1, <2>2
<1>6. StepLogged => \A s \in Scenarios : InBatch(s) => times[s] >= 1
  BY DEF StepLogged, SeenInv, AfterStep
<1>7. ASSUME NEW s \in Scenarios, times'[s] = 0, s \notin lost' PROVE Followed(s)'
  <2>1. Followed(s) /\ Apart(s)
    BY <1>t, <1>7 DEF SeenInv, CountsInv
  <2>2. StepLogged => ~InBatch(s)
    BY <1>t, <1>6, <1>7
  <2> QED
    BY <1>t, <2>1, <2>2, FollowedNext
<1>8. Cardinality(GivenUp') <= Cardinality(Stopped') + Debt'
  BY <1>t, <1>6, GivenUpNext DEF SeenInv, CountsInv
<1>9. /\ kind' \in Backends /\ lost' \subseteq Scenarios
      /\ kind' = "local" => kept' = times'
  BY <1>t DEF SeenInv
<1> QED
  BY <1>1, <1>2, <1>3, <1>4, <1>5, <1>7, <1>8, <1>9 DEF SeenInv

LEMMA SeenInit == ResumeInit => SeenInv
<1> SUFFICES ASSUME ResumeInit PROVE SeenInv
  OBVIOUS
<1>1. /\ kind \in Backends /\ progress = "idle" /\ times = [s \in Scenarios |-> 0]
      /\ kept = times /\ lost = {} /\ batch = <<>> /\ tpc = "loop"
      /\ fate = [s \in Scenarios |-> "none"]
  BY DEF ResumeInit, Init, StartFrom
<1>2. scenario_offset = 0 /\ persisted.scenario_offset = 0
  <2>1. FreshState.scenario_offset = 0
    BY DEF FreshState, Persisted
  <2>2. scenario_offset = 0
    BY <2>1, PipelineAssumption DEF ResumeInit, Init, StartFrom
  <2>3. persisted = FreshState \/ \E step, last, completed : persisted = Persisted(step, 0, last, completed)
    BY <2>2 DEF ResumeInit, Init, StartFrom
  <2> QED
    BY <2>1, <2>2, <2>3 DEF Persisted
<1>4. \A s \in Scenarios : Followed(s)
  BY <1>2, PipelineAssumption DEF Followed, Scenarios
<1>5. Cardinality(GivenUp) <= Cardinality(Stopped) + Debt
  <2>1. GivenUp = {}
    BY <1>1 DEF GivenUp
  <2>2. Cardinality(GivenUp) = 0
    BY <2>1, FS_EmptySet
  <2>3. Debt = 0
    BY <1>1 DEF Debt
  <2> QED
    BY <2>2, <2>3, GivenUpFinite
<1> QED
  BY <1>1, <1>2, <1>4, <1>5 DEF SeenInv, Stepped, AfterStep

LEMMA SeenBackend ==
  ASSUME RunTypeInv, CountsInv, SeenInv, BackendTrains
  PROVE  SeenInv'
<1>t. /\ UNCHANGED <<vars, kind, lost>> /\ times \in [Scenarios -> Nat]
      /\ current_step \in Nat /\ Training
  BY BackendCounts
     DEF BackendTrains, LocalSaves, NativeSteps, NativeSaves, NativeAdvances,
         historyVars, RunTypeInv, StepsInv, CountsInv
<1>v. UNCHANGED <<persisted, scenario_offset, worker, output_queue, tpc, current_step, batch, fate>>
  BY <1>t DEF vars, stateVars, queueVars, rolloutVars, trainVars
<1>b. tpc = "train" /\ backend = current_step
  BY <1>t DEF Training
<1>1. progress' # "idle" => backend' = current_step'
  BY <1>b, <1>v DEF BackendTrains, LocalSaves, NativeSteps, NativeSaves, NativeAdvances,
     SeenInv, CountsInv
<1>2. /\ times' \in [Scenarios -> Nat] /\ \A s \in Scenarios : times[s] <= times'[s]
      /\ Stepped' => Stepped \/ \A s \in Scenarios : InBatch(s) => times'[s] >= 1
  <2>1. CASE times' = times /\ UNCHANGED <<backend, progress>>
    BY <1>t, <1>v, <2>1 DEF Stepped
  <2>2. CASE times' = times /\ (backend # current_step \/ progress # "idle")
    BY <1>t, <1>b, <2>2 DEF Stepped
  <2>3. CASE WeightsStepped
    BY <1>t, <2>3 DEF WeightsStepped
  <2> QED
    BY <2>1, <2>2, <2>3, BackendCounts
<1>3. Stepped' \/ tpc' \in AfterStep => \A s \in Scenarios : InBatch(s)' => times'[s] >= 1
  <2>1. tpc' \notin AfterStep
    BY <1>b, <1>v DEF AfterStep
  <2>2. \A s \in Scenarios : InBatch(s)' <=> InBatch(s)
    BY <1>v DEF InBatch
  <2>3. Stepped => \A s \in Scenarios : InBatch(s) => times'[s] >= 1
    BY <1>t, <1>2 DEF SeenInv
  <2> QED
    BY <1>2, <2>1, <2>2, <2>3
<1>4. \A s \in Scenarios : fate'[s] = "trained" => times'[s] >= 1
  BY <1>t, <1>v, <1>2 DEF SeenInv
<1>5. kind' = "local" => kept' = times'
  BY <1>t DEF BackendTrains, LocalSaves, NativeSteps, NativeSaves, NativeAdvances,
     CountsInv
<1>6. ASSUME NEW s \in Scenarios, times'[s] = 0, s \notin lost' PROVE Followed(s)'
  <2>1. Followed(s)
    BY <1>t, <1>2, <1>6 DEF SeenInv
  <2> QED
    BY <1>v, <2>1 DEF Followed, Placed, HeldByWorkers, Queued, InBatch
<1>7. Cardinality(GivenUp') <= Cardinality(Stopped') + Debt'
  <2>1. GivenUp' \subseteq GivenUp
    BY <1>t, <1>v, <1>2 DEF GivenUp, InBatch
  <2>2. Stopped' = Stopped /\ Debt' = Debt
    BY <1>v DEF Stopped, Debt
  <2>3. Cardinality(GivenUp') <= Cardinality(GivenUp) /\ Debt \in Nat
    BY <2>1, GivenUpFinite, FS_Subset, PipelineAssumption DEF Debt
  <2> QED
    BY <2>2, <2>3, GivenUpFinite DEF SeenInv
<1> QED
  BY <1>t, <1>b, <1>v, <1>1, <1>3, <1>4, <1>5, <1>6, <1>7 DEF SeenInv

\* What the next run knows of a scenario, and how far it got.
LEMMA RestartFate ==
  ASSUME RunTypeInv, NEW again \in BOOLEAN, NextRun(again),
         state_json = persisted
  PROVE  LET offset == persisted.scenario_offset
         IN  /\ scenario_offset' = offset /\ persisted'.scenario_offset = offset
             /\ lost' = lost \cup Skipped(offset)
             /\ \A s \in Scenarios :
                  fate'[s] = CASE s > offset -> "none"
                               [] s \in Skipped(offset) -> "dropped"
                               [] OTHER -> fate[s]
             /\ batch' = <<>> /\ tpc' = "loop" /\ progress' = "idle"
             /\ UNCHANGED <<kind, kept, saved>> /\ times' = IF again THEN times ELSE kept
<1>1. ~torn /\ Restart(persisted, again)
  BY DEF NextRun, ReadStates
<1>2. Min({persisted.scenario_offset, NumScenarios}) = persisted.scenario_offset
  BY StoredOffset DEF RunTypeInv
<1>3. scenario_offset' = persisted.scenario_offset
  BY <1>1, <1>2 DEF Restart
<1>4. persisted'.scenario_offset = persisted.scenario_offset
  <2>1. \/ persisted' = persisted
        \/ \E step, last, completed :
             persisted' = Persisted(step, persisted.scenario_offset, last, completed)
    BY <1>1, <1>2 DEF Restart
  <2> QED
    BY <2>1 DEF Persisted
<1>5. lost' = lost \cup Skipped(persisted.scenario_offset)
  BY <1>1, <1>2 DEF Restart
<1>6. fate' = [s \in Scenarios |->
                 CASE s > persisted.scenario_offset -> "none"
                   [] s \in Skipped(persisted.scenario_offset) -> "dropped"
                   [] OTHER -> fate[s]]
  BY <1>1, <1>2 DEF Restart
<1>7. batch' = <<>> /\ tpc' = "loop"
  BY <1>1 DEF Restart
<1> QED
  BY <1>3, <1>4, <1>5, <1>6, <1>7 DEF NextRun

LEMMA SeenRestart ==
  ASSUME RunTypeInv, CountsInv, SeenInv, NEW again \in BOOLEAN, NextRun(again),
         state_json = persisted
  PROVE  SeenInv'
<1> DEFINE offset == persisted.scenario_offset
<1>t. /\ offset \in Nat /\ times' \in [Scenarios -> Nat] /\ fate \in [Scenarios -> Fates]
      /\ \A s \in Scenarios : s \in Nat
  BY PipelineAssumption
     DEF NextRun, CountsInv, RunTypeInv, TypeOK, StateTypeOK, Scenarios
<1>r. /\ scenario_offset' = offset /\ persisted'.scenario_offset = offset
      /\ lost' = lost \cup Skipped(offset)
      /\ \A s \in Scenarios :
           fate'[s] = CASE s > offset -> "none"
                        [] s \in Skipped(offset) -> "dropped"
                        [] OTHER -> fate[s]
      /\ batch' = <<>> /\ tpc' = "loop" /\ progress' = "idle"
      /\ UNCHANGED <<kind, kept>> /\ times' = IF again THEN times ELSE kept
  BY RestartFate
<1> HIDE DEF offset
<1>1. ASSUME NEW s \in Scenarios, s <= offset, times'[s] = 0
      PROVE  /\ fate'[s] = "dropped" => s \in lost'
             /\ fate'[s] \notin {"none", "trained"}
  <2>1. s \in Skipped(offset) <=> fate[s] \in {"none", "dropped", "trained"}
    BY <1>1 DEF Skipped
  <2>2. ~(s > offset)
    BY <1>t, <1>1
  <2>3. fate'[s] = IF s \in Skipped(offset) THEN "dropped" ELSE fate[s]
    BY <1>r, <2>2
  <2> QED
    BY <1>r, <2>1, <2>3
<1>2. ASSUME NEW s \in Scenarios PROVE s <= offset \/ fate'[s] = "none"
  <2>0. s > offset => s \notin Skipped(offset)
    BY <1>t DEF Skipped
  <2>1. s > offset => fate'[s] = "none"
    BY <1>r, <2>0
  <2>2. s <= offset \/ s > offset
    BY <1>t
  <2> QED
    BY <2>1, <2>2
<1>3. \A s \in Scenarios : times'[s] >= 1 \/ times'[s] = 0
  BY <1>t
<1>4. GivenUp' = {}
  BY <1>1, <1>2, <1>3 DEF GivenUp
<1>5. Cardinality(GivenUp') <= Cardinality(Stopped') + Debt'
  <2>1. Cardinality(GivenUp') = 0 /\ Debt' = 0
    BY <1>4, <1>r, FS_EmptySet DEF Debt
  <2> QED
    BY <2>1, GivenUpFinite
<1>6. \A s \in Scenarios : times'[s] = 0 /\ s \notin lost' => Followed(s)'
  BY <1>1, <1>r DEF Followed
<1>7. kind' = "local" => kept' = times'
  BY <1>r DEF SeenInv
<1>8. lost' \subseteq Scenarios
  BY <1>r DEF SeenInv, Skipped
<1>9. \A s \in Scenarios : fate'[s] = "trained" => times'[s] >= 1
  BY <1>1, <1>2, <1>3
<1> QED
  BY <1>t, <1>r, <1>5, <1>6, <1>7, <1>8, <1>9 DEF SeenInv, Stepped, AfterStep

LEMMA SeenNext ==
  ASSUME RunTypeInv, CountsInv, SeenInv, "same_step" \notin Environment,
         [ResumeNext]_resumeVars, ~misled'
  PROVE  SeenInv'
<1>1. CASE Aside \/ RunStep
  BY <1>1, RunsOnWhen, SeenRunsOn
<1>2. CASE BackendTrains
  BY <1>2, SeenBackend
<1>3. ASSUME NEW again \in BOOLEAN, NextRun(again) PROVE SeenInv'
  BY <1>3, SeenRestart, NotMisled
<1> QED
  BY <1>1, <1>2, <1>3 DEF ResumeNext, Aside

-----------------------------------------------------------------------------
(* Where checkpoints are only saved when they are asked for, none of what is *)
(* in memory alone is left when the step of an eval returns, and the last    *)
(* eval was of no later step than the newest checkpoint.                     *)

\* The checkpoint to train on from has not seen it, the weights have.
InMemory == {s \in Scenarios : times[s] >= 1 /\ kept[s] = 0}

SavedInv ==
  /\ persisted.last_eval_step = last_eval_step
  /\ kind = "native" =>
       /\ last_eval_step <= current_step
       /\ tpc \in AfterStep => last_eval_step < current_step
       /\ ~EvalAtStart => last_eval_step <= saved
       /\ saved <= backend + 1
       /\ tpc = "train" => should_eval = ShouldEvalStep(current_step + 1)
       /\ tpc \in AfterStep => should_eval = ShouldEvalStep(current_step)
       /\ tpc = "train" /\ should_eval /\ (progress = "saved" \/ backend # current_step) =>
            saved = current_step + 1 /\ InMemory = {}
       /\ tpc \in AfterStep /\ should_eval => saved = current_step /\ InMemory = {}

SavedTypes ==
  /\ current_step \in Nat /\ last_eval_step \in Nat /\ backend \in Nat /\ saved \in Nat
  /\ should_eval \in BOOLEAN

LEMMA SavedTyped ==
  ASSUME RunTypeInv
  PROVE  SavedTypes
  BY PipelineAssumption
     DEF SavedTypes, RunTypeInv, TypeOK, StateTypeOK, TrainTypeOK, Steps

LEMMA SavedInit == ResumeInit => SavedInv
<1> SUFFICES ASSUME ResumeInit PROVE SavedInv
  OBVIOUS
<1>1. /\ current_step = 0 /\ tpc = "loop" /\ backend = 0 /\ saved = 0
  BY DEF ResumeInit, Init, StartFrom
<1>2. FreshState.last_eval_step = 0
  BY DEF FreshState, Persisted
<1>3. last_eval_step = 0
  BY <1>2 DEF ResumeInit, Init, StartFrom
<1>4. persisted.last_eval_step = 0
  <2>1. \/ persisted = FreshState
        \/ \E step, offset, completed : persisted = Persisted(step, offset, 0, completed)
    BY <1>3 DEF ResumeInit, Init, StartFrom
  <2> QED
    BY <1>2, <2>1 DEF Persisted
<1> QED
  BY <1>1, <1>3, <1>4 DEF SavedInv, AfterStep

LEMMA SavedRunsOn ==
  ASSUME RunTypeInv, SeenInv, SavedInv, "same_step" \notin Environment, RunsOn
  PROVE  SavedInv'
<1>t. /\ SavedTypes /\ [Next]_vars /\ UNCHANGED <<kind, backend, saved, progress, times, kept>>
  BY SavedTyped DEF RunsOn
<1>1. persisted'.last_eval_step = last_eval_step'
  BY <1>t, StoredWith DEF SavedInv
<1>2. InMemory' = InMemory
  BY <1>t DEF InMemory
<1> SUFFICES ASSUME kind = "native" PROVE SavedInv'
  BY <1>1, <1>t DEF SavedInv
<1>3. CASE Along
  <2>1. UNCHANGED <<current_step, last_eval_step>>
    BY <1>3 DEF Along
  <2>2. \/ UNCHANGED <<tpc, should_eval>>
        \/ tpc' \notin {"train"} \cup AfterStep
        \/ UNCHANGED should_eval /\ tpc \in AfterStep /\ tpc' \in AfterStep
    BY <1>3 DEF Along, Between, AfterStep
  <2>3. \A step : ShouldEvalStep(step)' = ShouldEvalStep(step)
    BY <2>1 DEF ShouldEvalStep
  <2>4. tpc' \in AfterStep => tpc' # "train" /\ tpc \in AfterStep
    BY <1>3 DEF Along, Between, AfterStep
  <2>5. tpc' = "train" => tpc = "train"
    BY <1>3 DEF Along, Between, AfterStep
  <2> QED
    BY <1>t, <1>1, <1>2, <2>1, <2>2, <2>3, <2>4, <2>5 DEF SavedInv, ShouldEvalStep
<1>4. CASE BeginTrain
  <2>1. /\ tpc = "drain" /\ tpc' = "train" /\ UNCHANGED <<current_step, last_eval_step>>
        /\ should_eval' = ShouldEvalStep(current_step + 1)
    BY <1>4 DEF BeginTrain, BatchCollected
  <2>2. backend = current_step /\ progress = "idle"
    BY <2>1 DEF RunTypeInv, StepsInv, SeenInv
  <2>3. ShouldEvalStep(current_step + 1)' = ShouldEvalStep(current_step + 1)
    BY <2>1 DEF ShouldEvalStep
  <2> QED
    BY <1>t, <1>1, <2>1, <2>2, <2>3 DEF SavedInv, AfterStep, ShouldEvalStep
<1>5. CASE StepLogged
  <2>1. /\ tpc = "log" /\ tpc' = "loop" /\ UNCHANGED current_step
        /\ last_eval_step' = IF HasEval /\ should_eval THEN current_step ELSE last_eval_step
    BY <1>5 DEF StepLogged
  <2> QED
    BY <1>t, <1>1, <2>1 DEF SavedInv, SavedTypes, AfterStep
<1>6. ASSUME NEW step \in Steps, TrainReturns(step) PROVE SavedInv'
  <2>1. /\ tpc = "train" /\ tpc' = "prune" /\ backend = current_step + 1
        /\ current_step' = current_step + 1
        /\ UNCHANGED <<should_eval, last_eval_step>>
    BY <1>6, StepReturned
  <2>2. ShouldEvalStep(current_step)' = ShouldEvalStep(current_step + 1)
    BY <2>1 DEF ShouldEvalStep
  <2> QED
    BY <1>t, <1>1, <1>2, <2>1, <2>2 DEF SavedInv, SavedTypes, AfterStep, ShouldEvalStep
<1> QED
  BY <1>t, <1>3, <1>4, <1>5, <1>6, RunAlong

LEMMA SavedBackend ==
  ASSUME RunTypeInv, CountsInv, SavedInv, BackendTrains
  PROVE  SavedInv'
<1>t. /\ SavedTypes /\ UNCHANGED <<vars, kind>> /\ tpc = "train" /\ backend = current_step
      /\ times \in [Scenarios -> Nat]
  BY SavedTyped, BackendCounts
     DEF BackendTrains, LocalSaves, NativeSteps, NativeSaves, NativeAdvances, Training, CountsInv
<1>v. UNCHANGED <<persisted, last_eval_step, current_step, tpc, should_eval>>
  BY <1>t DEF vars, stateVars, trainVars
<1> SUFFICES ASSUME kind = "native" PROVE SavedInv'
  BY <1>t, <1>v DEF SavedInv
<1>1. \A step : ShouldEvalStep(step)' = ShouldEvalStep(step)
  BY <1>v DEF ShouldEvalStep
<1>2. \/ UNCHANGED <<backend, saved>> /\ progress' = "stepped"
      \/ UNCHANGED backend /\ saved' = current_step + 1 /\ kept' = times /\ times' = times
      \/ /\ backend' = current_step + 1 /\ UNCHANGED <<saved, times, kept>>
         /\ should_eval => progress = "saved"
  BY DEF BackendTrains, LocalSaves, NativeSteps, NativeSaves, NativeAdvances,
     ShouldCheckpoint, historyVars
<1>3. kept' = times /\ times' = times => InMemory' = {}
  BY <1>t DEF InMemory
<1>4. times' = times /\ kept' = kept => InMemory' = InMemory
  BY DEF InMemory
<1>5. saved <= backend + 1 /\ (~EvalAtStart => last_eval_step <= saved)
  BY DEF SavedInv
<1>6. CASE UNCHANGED <<backend, saved>> /\ progress' = "stepped"
  BY <1>t, <1>v, <1>1, <1>6 DEF SavedInv, AfterStep, ShouldEvalStep
<1>7. CASE UNCHANGED backend /\ saved' = current_step + 1 /\ kept' = times /\ times' = times
  BY <1>t, <1>v, <1>1, <1>3, <1>5, <1>7 DEF SavedInv, SavedTypes, AfterStep, ShouldEvalStep
<1>8. CASE /\ backend' = current_step + 1 /\ UNCHANGED <<saved, times, kept>>
           /\ should_eval => progress = "saved"
  BY <1>t, <1>v, <1>1, <1>4, <1>5, <1>8 DEF SavedInv, SavedTypes, AfterStep, ShouldEvalStep
<1> QED
  BY <1>2, <1>6, <1>7, <1>8

LEMMA SavedRestart ==
  ASSUME RunTypeInv, SavedInv, "native" \in Backends => HasEval,
         kind \in Backends, NEW again \in BOOLEAN, NextRun(again),
         state_json = persisted
  PROVE  SavedInv'
<1>t. SavedTypes
  BY SavedTyped
<1>1. /\ ~torn /\ Restart(persisted, again) /\ UNCHANGED <<kind, saved>>
      /\ backend' = (IF again THEN backend ELSE saved)
  BY DEF NextRun, ReadStates
<1>2. StartStep(persisted, again) = backend'
  BY <1>1 DEF StartStep
<1>3. /\ current_step' = backend' /\ tpc' = "loop"
      /\ last_eval_step' = IF HasEval /\ EvalAtStart THEN backend' ELSE persisted.last_eval_step
  BY <1>1, <1>2 DEF Restart
<1>4. persisted'.last_eval_step = last_eval_step'
  <2>1. CASE HasEval /\ EvalAtStart
    <3>1. \E step, offset, completed : persisted' = Persisted(step, offset, last_eval_step', completed)
      BY <1>1, <1>2, <1>3, <2>1 DEF Restart
    <3> QED
      BY <3>1 DEF Persisted
  <2>2. CASE ~(HasEval /\ EvalAtStart)
    BY <1>1, <1>3, <2>2 DEF Restart
  <2> QED
    BY <2>1, <2>2
<1>5. ASSUME kind = "native" PROVE last_eval_step' <= current_step'
  <2>1. CASE EvalAtStart
    BY <1>t, <1>1, <1>3, <1>5, <2>1 DEF SavedTypes
  <2>2. CASE ~EvalAtStart
    <3>1. last_eval_step' = last_eval_step /\ last_eval_step <= saved
      BY <1>3, <1>5, <2>2 DEF SavedInv
    <3>2. last_eval_step <= backend
      <4>1. backend \in {current_step, current_step + 1} /\ last_eval_step <= current_step
        BY <1>5 DEF RunTypeInv, StepsInv, SavedInv
      <4> QED
        BY <1>t, <4>1 DEF SavedTypes
    <3> QED
      BY <1>1, <1>3, <3>1, <3>2
  <2> QED
    BY <2>1, <2>2, PipelineAssumption
<1>6. kind = "native" /\ ~EvalAtStart => last_eval_step' <= saved'
  BY <1>1, <1>3 DEF SavedInv
<1>7. kind = "native" => saved' <= backend' + 1
  BY <1>t, <1>1 DEF SavedInv, SavedTypes
<1> QED
  BY <1>1, <1>3, <1>4, <1>5, <1>6, <1>7 DEF SavedInv, AfterStep

-----------------------------------------------------------------------------
(* The scenarios no run will train.                                          *)

\* What a new run may lose: the premises are that a step that trains nothing
\* is not taken, and that a backend which saves on request is asked to.
LossPremise ==
  /\ "same_step" \notin Environment
  /\ "native" \in Backends => HasEval /\ EvalEvery > 0

Budget == Cardinality(Workers) + QueueMax + (1 + UnsavedSteps) * MaxBatch

\* The steps since the last eval that are done with.
Lag == IF tpc \in AfterStep THEN current_step - 1 - last_eval_step
       ELSE current_step - last_eval_step

\* How many of them the checkpoint may lack.
LoggedSteps ==
  IF kind = "local" THEN 0
  ELSE IF tpc = "failed" THEN EvalEvery - 1
  ELSE IF Lag < EvalEvery THEN Lag ELSE 0

\* Lost, or lost with this process, the batch apart.
Behind == {s \in lost \cup InMemory : ~Counted(s)}

LostInv ==
  /\ Cardinality(lost) <= restarts * Budget
  /\ Cardinality(Behind) <= restarts * Budget + LoggedSteps * MaxBatch

LEMMA LossNumbers ==
  ASSUME LossPremise, RunTypeInv, SeenInv, SavedInv
  PROVE  /\ UnsavedSteps \in Nat /\ LoggedSteps \in Nat /\ LoggedSteps <= UnsavedSteps
         /\ Budget \in Nat /\ MaxBatch \in Nat /\ QueueMax \in Nat
         /\ IsFiniteSet(Workers) /\ Cardinality(Workers) \in Nat
         /\ Budget = Cardinality(Workers) + QueueMax + MaxBatch + UnsavedSteps * MaxBatch
<1>1. /\ MaxBatch \in Nat /\ QueueMax \in Nat /\ EvalEvery \in Nat
      /\ IsFiniteSet(Workers) /\ Cardinality(Workers) \in Nat
  BY PipelineAssumption, FS_CardinalityType
<1>2. kind \in {"local", "native"} /\ (kind = "native" => EvalEvery > 0)
  BY ResumeAssumption DEF LossPremise, SeenInv
<1>3. UnsavedSteps \in Nat
  BY <1>1, <1>2 DEF UnsavedSteps
<1>4. kind = "native" => Lag \in Nat
  <2>1. current_step \in Nat /\ last_eval_step \in Nat
    BY SavedTyped DEF SavedTypes
  <2>2. kind = "native" =>
          /\ last_eval_step <= current_step
          /\ tpc \in AfterStep => last_eval_step < current_step
    BY DEF SavedInv
  <2> QED
    BY <2>1, <2>2 DEF Lag
<1>5. LoggedSteps \in Nat /\ LoggedSteps <= UnsavedSteps
  <2>1. CASE kind = "local"
    BY <2>1 DEF LoggedSteps, UnsavedSteps
  <2>2. CASE kind = "native"
    <3>1. PICK l \in Nat : l = Lag
      BY <1>4, <2>2
    <3>2. LoggedSteps \in {EvalEvery - 1, IF l < EvalEvery THEN l ELSE 0}
      BY <2>2, <3>1 DEF LoggedSteps
    <3>3. UnsavedSteps = EvalEvery - 1
      BY <2>2 DEF UnsavedSteps
    <3> QED
      BY <1>1, <1>2, <2>2, <3>2, <3>3
  <2> QED
    BY <1>2, <2>1, <2>2
<1>6. (1 + UnsavedSteps) * MaxBatch \in Nat /\ UnsavedSteps * MaxBatch \in Nat
      /\ (1 + UnsavedSteps) * MaxBatch = MaxBatch + UnsavedSteps * MaxBatch
  BY <1>1, <1>3
<1>7. PICK m \in Nat, n \in Nat : m = (1 + UnsavedSteps) * MaxBatch /\ n = UnsavedSteps * MaxBatch
  BY <1>6
<1>8. Budget = Cardinality(Workers) + QueueMax + m /\ m = MaxBatch + n
  BY <1>6, <1>7 DEF Budget
<1> QED
  BY <1>1, <1>3, <1>5, <1>7, <1>8

LEMMA LostFinite ==
  ASSUME SeenInv
  PROVE  /\ IsFiniteSet(lost) /\ Cardinality(lost) \in Nat
         /\ IsFiniteSet(Behind) /\ Cardinality(Behind) \in Nat
<1>1. lost \in SUBSET Scenarios /\ Behind \in SUBSET Scenarios
  BY DEF SeenInv, Behind, InMemory
<1> QED
  BY <1>1, ScenariosFinite, FS_Subset, FS_CardinalityType

LEMMA UnionSize ==
  ASSUME NEW S, IsFiniteSet(S), NEW T, IsFiniteSet(T)
  PROVE  /\ IsFiniteSet(S \cup T) /\ Cardinality(S \cup T) \in Nat
         /\ Cardinality(S) \in Nat /\ Cardinality(T) \in Nat
         /\ Cardinality(S \cup T) <= Cardinality(S) + Cardinality(T)
<1>1. /\ IsFiniteSet(S \cup T)
      /\ Cardinality(S \cup T) = Cardinality(S) + Cardinality(T) - Cardinality(S \cap T)
  BY FS_Union
<1>2. Cardinality(S \cap T) \in Nat
  BY FS_Intersection, FS_CardinalityType
<1> QED
  BY <1>1, <1>2, FS_CardinalityType

\* The values of a function are no more than its arguments.
LEMMA ImageSize ==
  ASSUME NEW D, IsFiniteSet(D), NEW f, NEW E, \A e \in E : \E d \in D : f[d] = e
  PROVE  IsFiniteSet(E) /\ Cardinality(E) \in Nat /\ Cardinality(E) <= Cardinality(D)
<1> DEFINE At == {d \in D : f[d] \in E}
           g == [d \in At |-> f[d]]
<1>1. IsFiniteSet(At) /\ Cardinality(At) <= Cardinality(D) /\ Cardinality(At) \in Nat
  <2>1. At \in SUBSET D
    OBVIOUS
  <2> HIDE DEF At
  <2> QED
    BY <2>1, FS_Subset, FS_CardinalityType
<1>2. g \in Surjection(At, E)
  <2>1. g \in [At -> E]
    OBVIOUS
  <2>2. \A e \in E : \E d \in At : g[d] = e
    OBVIOUS
  <2> HIDE DEF At, g
  <2> QED
    BY <2>1, <2>2 DEF Surjection
<1>3. IsFiniteSet(E) /\ Cardinality(E) <= Cardinality(At)
  <2> HIDE DEF At, g
  <2> QED
    BY <1>1, <1>2, FS_Surjection
<1>4. Cardinality(E) \in Nat /\ Cardinality(D) \in Nat
  BY <1>3, FS_CardinalityType
<1> HIDE DEF At
<1> QED
  BY <1>1, <1>3, <1>4

HeldScenarios == {s \in Scenarios : HeldByWorkers(s) # {}}
QueuedScenarios == {s \in Scenarios : Queued(s) # {}}
BatchOnes == {s \in Scenarios : InBatch(s)}

\* What a run has in hand when it ends is bounded.
LEMMA HeldSize ==
  ASSUME TypeOK
  PROVE  /\ IsFiniteSet(HeldScenarios) /\ Cardinality(HeldScenarios) \in Nat
         /\ Cardinality(HeldScenarios) + Cardinality(Stopped) <= Cardinality(Workers)
<1> DEFINE D == {w \in Workers : worker[w].pc \in HeldPc}
           f == [w \in Workers |-> worker[w].scenario]
<1>1. IsFiniteSet(D) /\ Cardinality(D) \in Nat
  <2>1. D \in SUBSET Workers
    OBVIOUS
  <2> HIDE DEF D
  <2> QED
    BY <2>1, PipelineAssumption, FS_Subset, FS_CardinalityType
<1>2. \A s \in HeldScenarios : \E w \in D : f[w] = s
  BY DEF HeldScenarios, HeldByWorkers, HeldPc
<1>3. D \cap Stopped = {} /\ D \cup Stopped \subseteq Workers
  BY DEF Stopped, HeldPc
<1> HIDE DEF D, f
<1>4. /\ IsFiniteSet(HeldScenarios) /\ Cardinality(HeldScenarios) \in Nat
      /\ Cardinality(HeldScenarios) <= Cardinality(D)
  BY <1>1, <1>2, ImageSize
<1>5. Cardinality(D) + Cardinality(Stopped) <= Cardinality(Workers)
  <2>1. /\ IsFiniteSet(D \cup Stopped)
        /\ Cardinality(D \cup Stopped) = Cardinality(D) + Cardinality(Stopped) - Cardinality({})
    BY <1>1, <1>3, GivenUpFinite, FS_Union
  <2>2. Cardinality({}) = 0
    BY FS_EmptySet
  <2>3. Cardinality(D \cup Stopped) <= Cardinality(Workers) /\ Cardinality(Workers) \in Nat
    BY <1>3, PipelineAssumption, FS_Subset, FS_CardinalityType
  <2> QED
    BY <1>1, <2>1, <2>2, <2>3, GivenUpFinite
<1>6. Cardinality(Workers) \in Nat
  BY PipelineAssumption, FS_CardinalityType
<1> QED
  BY <1>1, <1>4, <1>5, <1>6, GivenUpFinite

LEMMA QueuedSize ==
  ASSUME TypeOK
  PROVE  /\ IsFiniteSet(QueuedScenarios) /\ Cardinality(QueuedScenarios) \in Nat
         /\ Cardinality(QueuedScenarios) <= QueueMax
<1> DEFINE f == [i \in DOMAIN output_queue |-> output_queue[i].scenario]
<1>1. PICK n \in Nat : n = Len(output_queue) /\ DOMAIN output_queue = 1..n /\ n <= QueueMax
  <2>1. output_queue \in Seq(Group) /\ Len(output_queue) <= QueueMax
    BY DEF TypeOK, QueueTypeOK
  <2> QED
    BY <2>1
<1>2. IsFiniteSet(1..n) /\ Cardinality(1..n) = n
  BY FS_Interval
<1>3. \A s \in QueuedScenarios : \E i \in 1..n : f[i] = s
  BY <1>1 DEF QueuedScenarios, Queued
<1> HIDE DEF f
<1>4. /\ IsFiniteSet(QueuedScenarios) /\ Cardinality(QueuedScenarios) \in Nat
      /\ Cardinality(QueuedScenarios) <= n
  BY <1>2, <1>3, ImageSize
<1> QED
  BY <1>1, <1>4, PipelineAssumption

LossInv == RunTypeInv /\ CountsInv /\ SeenInv /\ SavedInv /\ LostInv

\* A step of the run lets nothing fall behind but the batch it logged.
LEMMA BehindRunsOn ==
  ASSUME LossPremise, RunTypeInv, CountsInv, SeenInv, SavedInv, RunsOn
  PROVE  \/ Behind' \subseteq Behind /\ LoggedSteps <= LoggedSteps'
         \/ Behind' \subseteq lost
         \/ Behind' \subseteq Behind \cup BatchOnes /\ LoggedSteps' = LoggedSteps + 1
<1>t. /\ SavedTypes /\ TypeOK /\ [Next]_vars /\ MaxBatch \in Nat /\ EvalEvery \in Nat
      /\ UNCHANGED <<kind, backend, saved, progress, times, kept, lost>>
      /\ kind \in {"local", "native"} /\ (kind = "native" => HasEval /\ EvalEvery > 0)
  BY SavedTyped, PipelineAssumption, ResumeAssumption
     DEF RunsOn, RunTypeInv, LossPremise, SeenInv
<1>m. InMemory' = InMemory
  BY <1>t DEF InMemory
<1>n. LoggedSteps \in Nat
  BY LossNumbers
<1>1. CASE StepLogged
  <2>1. /\ tpc = "log" /\ tpc' = "loop" /\ UNCHANGED current_step
        /\ ~should_eval => UNCHANGED last_eval_step
    BY <1>1 DEF StepLogged
  <2>2. CASE InMemory = {}
    BY <1>m, <1>t, <2>2 DEF Behind
  <2>3. CASE InMemory # {}
    <3>1. kind = "native"
      BY <1>t, <2>3 DEF SeenInv, InMemory
    <3>2. ~should_eval /\ should_eval = ShouldEvalStep(current_step) /\ last_eval_step < current_step
      BY <2>1, <2>3, <3>1 DEF SavedInv, AfterStep
    <3>3. current_step - last_eval_step < EvalEvery
      <4>1. ~ShouldEvalStep(current_step) /\ HasEval /\ EvalEvery > 0
        BY <1>t, <3>1, <3>2
      <4>2. current_step \in Nat /\ last_eval_step \in Nat
        BY <1>t DEF SavedTypes
      <4> QED
        BY <1>t, <4>1, <4>2 DEF ShouldEvalStep
    <3>4. Lag = current_step - 1 - last_eval_step /\ Lag' = current_step - last_eval_step
      BY <2>1, <3>2 DEF Lag, AfterStep
    <3>5. LoggedSteps' = LoggedSteps + 1
      <4>1. LoggedSteps = IF Lag < EvalEvery THEN Lag ELSE 0
        BY <2>1, <3>1 DEF LoggedSteps
      <4>2. LoggedSteps' = IF Lag' < EvalEvery THEN Lag' ELSE 0
        BY <1>t, <2>1, <3>1 DEF LoggedSteps
      <4>3. current_step \in Nat /\ last_eval_step \in Nat
        BY <1>t DEF SavedTypes
      <4> QED
        BY <1>t, <3>3, <3>4, <4>1, <4>2, <4>3
    <3>6. Behind' \subseteq Behind \cup BatchOnes
      <4>1. lost' \cup InMemory' \subseteq Scenarios
        BY <1>t DEF SeenInv, InMemory
      <4> QED
        BY <1>t, <1>m, <4>1 DEF Behind, BatchOnes, Counted
    <3> QED
      BY <3>5, <3>6
  <2> QED
    BY <2>2, <2>3
<1>2. CASE ~StepLogged
  <2>1. Behind' \subseteq Behind
    <3>1. BatchKept
      BY <1>2, <1>t, BatchNext
    <3>2. \A s : Counted(s) => Counted(s)'
      BY <1>t, <3>1 DEF BatchKept, Counted, InBatch
    <3> QED
      BY <1>t, <1>m, <3>2 DEF Behind
  <2>2. LoggedSteps <= LoggedSteps'
    <3>1. CASE kind = "local"
      BY <1>t, <3>1 DEF LoggedSteps
    <3>2. CASE kind = "native" /\ tpc' = "failed"
      <4>1. LoggedSteps' = EvalEvery - 1 /\ UnsavedSteps = EvalEvery - 1
        BY <1>t, <3>2 DEF LoggedSteps, UnsavedSteps
      <4> QED
        BY <4>1, LossNumbers
    <3>3. CASE kind = "native" /\ tpc' # "failed"
      <4>1. tpc # "failed"
        BY <1>t, <3>3, EndingStays
      <4>2. Lag' = Lag
        <5>1. CASE Along
          BY <4>1, <5>1, <3>3 DEF Along, Lag, AfterStep, Between
        <5>2. CASE BeginTrain
          BY <5>2 DEF BeginTrain, BatchCollected, Lag, AfterStep
        <5>3. ASSUME NEW step \in Steps, TrainReturns(step) PROVE Lag' = Lag
          <6>1. /\ tpc = "train" /\ tpc' = "prune" /\ current_step' = current_step + 1
                /\ UNCHANGED last_eval_step
            BY <5>3, StepReturned DEF LossPremise
          <6> QED
            BY <1>t, <6>1 DEF Lag, AfterStep, SavedTypes
        <5> QED
          BY <1>2, <1>t, <5>1, <5>2, <5>3, RunAlong
      <4>3. LoggedSteps' = LoggedSteps
        BY <1>t, <3>3, <4>1, <4>2 DEF LoggedSteps
      <4> QED
        BY <1>n, <4>3
    <3> QED
      BY <1>t, <3>1, <3>2, <3>3
  <2> QED
    BY <2>1, <2>2
<1> QED
  BY <1>1, <1>2

LEMMA LoggedThen ==
  ASSUME LossPremise, kind' \in Backends, RunTypeInv', SavedInv'
  PROVE  LoggedSteps' \in Nat
<1>1. kind' \in {"local", "native"} /\ EvalEvery \in Nat /\ (kind' = "native" => EvalEvery > 0)
  BY PipelineAssumption, ResumeAssumption DEF LossPremise
<1>2. CASE kind' = "local"
  BY <1>2 DEF LoggedSteps
<1>3. CASE kind' = "native"
  <2>1. current_step' \in Nat /\ last_eval_step' \in Nat
    BY PipelineAssumption DEF RunTypeInv, TypeOK, StateTypeOK, TrainTypeOK, Steps
  <2>2. /\ last_eval_step' <= current_step'
        /\ tpc' \in AfterStep => last_eval_step' < current_step'
    BY <1>3 DEF SavedInv, AfterStep
  <2>3. Lag' \in Nat
    <3>1. PICK c \in Nat, e \in Nat : c = current_step' /\ e = last_eval_step'
      BY <2>1
    <3>2. e <= c /\ (tpc' \in AfterStep => e < c)
      BY <2>2, <3>1
    <3>3. Lag' = IF tpc' \in AfterStep THEN c - 1 - e ELSE c - e
      BY <3>1 DEF Lag, AfterStep
    <3>4. c - e \in Nat /\ (e < c => c - 1 - e \in Nat)
      BY <3>2
    <3> QED
      BY <3>2, <3>3, <3>4
  <2>4. PICK l \in Nat : l = Lag'
    BY <2>3
  <2>5. LoggedSteps' \in {EvalEvery - 1, IF l < EvalEvery THEN l ELSE 0}
    BY <1>3, <2>4 DEF LoggedSteps
  <2> QED
    BY <1>1, <1>3, <2>5
<1> QED
  BY <1>1, <1>2, <1>3

LEMMA TimesGrows ==
  ASSUME NEW x \in Nat, NEW y \in Nat, x <= y, NEW k \in Nat
  PROVE  x * k <= y * k
<1>1. y - x \in Nat /\ y = x + (y - x)
  OBVIOUS
<1>2. PICK d \in Nat : y = x + d
  BY <1>1
<1>3. y * k = x * k + d * k /\ d * k \in Nat /\ x * k \in Nat
  BY <1>2
<1> QED
  BY <1>3

\* The bound after such a step.
LEMMA LostKeeps ==
  ASSUME LossPremise, LossInv, RunTypeInv', SeenInv', SavedInv',
         UNCHANGED <<kind, restarts, lost>>,
         \/ Behind' \subseteq Behind /\ LoggedSteps <= LoggedSteps'
         \/ Behind' \subseteq lost
         \/ Behind' \subseteq Behind \cup BatchOnes /\ LoggedSteps' = LoggedSteps + 1
  PROVE  LostInv'
<1>1. /\ Budget \in Nat /\ MaxBatch \in Nat /\ LoggedSteps \in Nat /\ restarts \in Nat
      /\ IsFiniteSet(lost) /\ Cardinality(lost) \in Nat
      /\ IsFiniteSet(Behind) /\ Cardinality(Behind) \in Nat
  BY LossNumbers, LostFinite DEF LossInv, CountsInv
<1>2. LoggedSteps' \in Nat
  BY LoggedThen DEF SeenInv
<1>3. IsFiniteSet(Behind') /\ Cardinality(Behind') \in Nat
  <2>1. Behind' \in SUBSET Scenarios
    BY DEF SeenInv, Behind, InMemory
  <2> QED
    BY <2>1, ScenariosFinite, FS_Subset, FS_CardinalityType
<1>4. Budget' = Budget
  BY DEF Budget, UnsavedSteps
<1>5. PICK b \in Nat, m \in Nat, n \in Nat :
        b = restarts * Budget /\ m = LoggedSteps * MaxBatch /\ n = LoggedSteps' * MaxBatch
  <2>1. /\ restarts * Budget \in Nat /\ LoggedSteps * MaxBatch \in Nat
        /\ LoggedSteps' * MaxBatch \in Nat
    <3>1. \A x \in Nat, y \in Nat : x * y \in Nat
      OBVIOUS
    <3> QED
      BY ONLY <1>1, <1>2, <3>1
  <2> QED
    BY ONLY <2>1
<1>6. Cardinality(lost) <= b /\ Cardinality(Behind) <= b + m
  BY <1>5 DEF LossInv, LostInv
<1>7. Cardinality(Behind') <= b + n
  <2>1. CASE Behind' \subseteq Behind /\ LoggedSteps <= LoggedSteps'
    <3>1. Cardinality(Behind') <= Cardinality(Behind)
      BY <1>1, <2>1, FS_Subset
    <3>2. m <= n
      <4>1. PICK x \in Nat, y \in Nat : x = LoggedSteps /\ y = LoggedSteps' /\ x <= y
        BY <1>1, <1>2, <2>1
      <4>2. x * MaxBatch <= y * MaxBatch
        BY <1>1, <4>1, TimesGrows
      <4> QED
        BY <1>5, <4>1, <4>2
    <3> QED
      BY <1>1, <1>3, <1>6, <3>1, <3>2
  <2>2. CASE Behind' \subseteq lost
    <3>1. Cardinality(Behind') <= Cardinality(lost)
      BY <1>1, <2>2, FS_Subset
    <3> QED
      BY <1>1, <1>3, <1>6, <3>1
  <2>3. CASE Behind' \subseteq Behind \cup BatchOnes /\ LoggedSteps' = LoggedSteps + 1
    <3>1. IsFiniteSet(BatchOnes) /\ Cardinality(BatchOnes) \in Nat /\ Cardinality(BatchOnes) <= MaxBatch
      BY BatchScenarios DEF LossInv, RunTypeInv, CountsInv, BatchOnes
    <3>2. /\ IsFiniteSet(Behind \cup BatchOnes) /\ Cardinality(Behind \cup BatchOnes) \in Nat
          /\ Cardinality(Behind \cup BatchOnes) <= Cardinality(Behind) + Cardinality(BatchOnes)
      BY <1>1, <3>1, UnionSize
    <3>3. Cardinality(Behind') <= Cardinality(Behind \cup BatchOnes)
      BY <2>3, <3>2, FS_Subset
    <3>4. n = m + MaxBatch
      BY <1>1, <1>5, <2>3
    <3> QED
      BY <1>1, <1>3, <1>6, <3>1, <3>2, <3>3, <3>4
  <2> QED
    BY <2>1, <2>2, <2>3
<1>8. /\ restarts' * Budget' = b /\ LoggedSteps' * MaxBatch = n /\ lost' = lost
  BY <1>4, <1>5
<1> QED
  BY <1>6, <1>7, <1>8 DEF LostInv

\* A step of the backend lets nothing fall behind: what it trains on is the
\* batch the trainer still holds.
LEMMA LostBackend ==
  ASSUME LossPremise, LossInv, BackendTrains, RunTypeInv', SeenInv', SavedInv'
  PROVE  LostInv'
<1>t. /\ UNCHANGED <<vars, restarts, kind, lost>> /\ times \in [Scenarios -> Nat]
      /\ kept \in [Scenarios -> Nat] /\ RunTypeInv /\ CountsInv /\ SeenInv
  BY BackendCounts
     DEF BackendTrains, LocalSaves, NativeSteps, NativeSaves, NativeAdvances,
         historyVars, LossInv, CountsInv
<1>v. UNCHANGED <<current_step, last_eval_step, tpc, batch>>
  BY <1>t DEF vars, stateVars, trainVars
<1>1. LoggedSteps' = LoggedSteps
  BY <1>t, <1>v DEF LoggedSteps, Lag, AfterStep
<1>2. \A s : InBatch(s)' <=> InBatch(s)
  BY <1>v DEF InBatch
<1>3. Behind' \subseteq Behind
  <2>1. CASE /\ times' = times /\ kept' \in {kept, times}
             /\ \/ UNCHANGED <<backend, progress>>
                \/ /\ tpc = "train"
                   /\ backend # current_step \/ progress # "idle"
                   /\ backend' # current_step \/ progress' # "idle"
    <3>1. InMemory' \subseteq InMemory
      BY <1>t, <2>1 DEF InMemory
    <3>2. \A s : Counted(s)' <=> Counted(s)
      BY <1>v, <1>2, <2>1 DEF Counted, AfterTraining
    <3> QED
      BY <1>t, <3>1, <3>2 DEF Behind
  <2>2. CASE /\ tpc = "train" /\ backend = current_step /\ progress = "idle"
             /\ backend' # current_step \/ progress' # "idle"
             /\ WeightsStepped /\ kept' \in {kept, times'}
    <3>1. \A s \in InMemory' : s \in InMemory \/ InBatch(s)
      <4>1. SUFFICES ASSUME NEW s \in InMemory', ~InBatch(s) PROVE s \in InMemory
        OBVIOUS
      <4>2. s \in Scenarios /\ times'[s] >= 1 /\ kept'[s] = 0
        BY DEF InMemory
      <4>3. times'[s] = times[s]
        BY <4>1, <4>2, <2>2 DEF WeightsStepped
      <4>4. kept' = kept
        BY <2>2, <4>2
      <4> QED
        BY <4>2, <4>3, <4>4 DEF InMemory
    <3>2. \A s : InBatch(s) => Counted(s)'
      BY <1>v, <1>2, <2>2 DEF Counted
    <3>3. \A s : ~Counted(s)
      BY <2>2 DEF Counted, AfterTraining
    <3> QED
      BY <1>t, <3>1, <3>2, <3>3 DEF Behind
  <2> QED
    BY <1>t, <2>1, <2>2, BackendCounts
<1>4. LoggedSteps <= LoggedSteps'
  <2>1. LoggedSteps \in Nat
    BY LossNumbers DEF LossInv
  <2> QED
    BY <1>1, <2>1
<1> QED
  BY <1>t, <1>3, <1>4, LostKeeps

LEMMA LostRunsOn ==
  ASSUME LossPremise, LossInv, RunsOn, RunTypeInv', SeenInv', SavedInv'
  PROVE  LostInv'
<1>1. UNCHANGED <<kind, restarts, lost>>
  BY DEF RunsOn
<1> QED
  BY <1>1, BehindRunsOn, LostKeeps DEF LossInv

\* What a new run loses, or may still lose, the one before had in hand.
InHand == BatchOnes \cup HeldScenarios \cup QueuedScenarios \cup GivenUp

LEMMA RestartLoses ==
  ASSUME RunTypeInv, CountsInv, SeenInv, NEW again \in BOOLEAN, NextRun(again),
         state_json = persisted
  PROVE  lost' \cup InMemory' \subseteq Behind \cup InHand
<1> DEFINE offset == persisted.scenario_offset
<1>t. /\ offset \in Nat /\ scenario_offset \in Nat /\ offset <= scenario_offset
      /\ times \in [Scenarios -> Nat] /\ kept \in [Scenarios -> Nat]
      /\ \A s \in Scenarios : s \in Nat
  BY PipelineAssumption
     DEF CountsInv, SeenInv, RunTypeInv, TypeOK, StateTypeOK, Scenarios
<1>r. /\ lost' = lost \cup Skipped(offset)
      /\ kept' = kept /\ times' = IF again THEN times ELSE kept
  BY RestartFate
<1> HIDE DEF offset
<1>1. lost \cup InMemory \subseteq Behind \cup BatchOnes
  <2>1. lost \cup InMemory \subseteq Scenarios
    BY DEF SeenInv, InMemory
  <2> QED
    BY <2>1 DEF Behind, BatchOnes, Counted
<1>2. InMemory' \subseteq InMemory
  BY <1>t, <1>r DEF InMemory
<1>3. ASSUME NEW s \in Skipped(offset) PROVE s \in lost \cup InMemory \cup InHand
  <2>1. /\ s \in Scenarios /\ s <= offset /\ times'[s] = 0
        /\ fate[s] \in {"none", "dropped", "trained"}
    BY DEF Skipped
  <2>2. times[s] \in Nat /\ kept[s] \in Nat
    BY <1>t, <2>1
  <2>3. CASE times[s] >= 1
    <3>1. kept[s] = 0
      BY <1>r, <2>1, <2>2, <2>3
    <3> QED
      BY <2>1, <2>3, <3>1 DEF InMemory
  <2>4. CASE times[s] = 0 /\ s \notin lost /\ fate[s] = "dropped"
    BY <2>1, <2>4 DEF GivenUp, BatchOnes, InHand
  <2>5. CASE times[s] = 0 /\ s \notin lost /\ fate[s] = "none"
    <3>1. s <= scenario_offset
      BY <1>t, <2>1
    <3>2. Placed(s)
      BY <2>1, <2>5, <3>1 DEF SeenInv, Followed
    <3> QED
      BY <2>1, <3>2 DEF Placed, BatchOnes, HeldScenarios, QueuedScenarios, InHand
  <2>6. fate[s] = "trained" => times[s] >= 1
    BY <2>1 DEF SeenInv
  <2>7. times[s] = 0 \/ times[s] >= 1
    BY <2>2
  <2> QED
    BY <2>1, <2>3, <2>4, <2>5, <2>6, <2>7
<1>4. BatchOnes \subseteq InHand
  BY DEF InHand
<1> QED
  BY <1>r, <1>1, <1>2, <1>3, <1>4

LEMMA InHandSize ==
  ASSUME RunTypeInv, CountsInv, SeenInv
  PROVE  /\ IsFiniteSet(InHand) /\ Cardinality(InHand) \in Nat
         /\ Cardinality(InHand) <= Cardinality(Workers) + QueueMax + MaxBatch
<1>1. /\ MaxBatch \in Nat /\ QueueMax \in Nat /\ Cardinality(Workers) \in Nat
      /\ TypeOK /\ Len(batch) <= MaxBatch
  BY PipelineAssumption, FS_CardinalityType DEF RunTypeInv, CountsInv
<1>2. IsFiniteSet(BatchOnes) /\ Cardinality(BatchOnes) \in Nat /\ Cardinality(BatchOnes) <= MaxBatch
  BY <1>1, BatchScenarios DEF BatchOnes
<1>3. Debt \in Nat /\ Cardinality(BatchOnes) + Debt <= MaxBatch
  <2>1. CASE tpc \in {"finish", "finished"}
    <3>1. batch = <<>> /\ Debt = MaxBatch
      BY <2>1 DEF SeenInv, Debt
    <3>2. BatchOnes = {}
      BY <3>1 DEF BatchOnes, InBatch
    <3> QED
      BY <1>1, <3>1, <3>2, FS_EmptySet
  <2>2. CASE tpc \notin {"finish", "finished"}
    BY <1>1, <1>2, <2>2 DEF Debt
  <2> QED
    BY <2>1, <2>2
<1>4. /\ IsFiniteSet(HeldScenarios) /\ Cardinality(HeldScenarios) \in Nat
      /\ Cardinality(HeldScenarios) + Cardinality(Stopped) <= Cardinality(Workers)
  BY <1>1, HeldSize
<1>5. /\ IsFiniteSet(QueuedScenarios) /\ Cardinality(QueuedScenarios) \in Nat
      /\ Cardinality(QueuedScenarios) <= QueueMax
  BY <1>1, QueuedSize
<1>6. /\ IsFiniteSet(GivenUp) /\ Cardinality(GivenUp) \in Nat /\ Cardinality(Stopped) \in Nat
      /\ Cardinality(GivenUp) <= Cardinality(Stopped) + Debt
  BY GivenUpFinite DEF SeenInv
<1> DEFINE A == BatchOnes \cup HeldScenarios
           B == A \cup QueuedScenarios
<1>7. /\ IsFiniteSet(A) /\ Cardinality(A) \in Nat
      /\ Cardinality(A) <= Cardinality(BatchOnes) + Cardinality(HeldScenarios)
  BY <1>2, <1>4, UnionSize
<1> HIDE DEF A
<1>8. /\ IsFiniteSet(B) /\ Cardinality(B) \in Nat
      /\ Cardinality(B) <= Cardinality(A) + Cardinality(QueuedScenarios)
  BY <1>5, <1>7, UnionSize
<1>9. InHand = B \cup GivenUp
  BY DEF InHand, A
<1> HIDE DEF B
<1>10. /\ IsFiniteSet(InHand) /\ Cardinality(InHand) \in Nat
       /\ Cardinality(InHand) <= Cardinality(B) + Cardinality(GivenUp)
  BY <1>6, <1>8, <1>9, UnionSize
<1>11. /\ Cardinality(A) <= Cardinality(BatchOnes) + Cardinality(HeldScenarios)
       /\ Cardinality(B) <= Cardinality(A) + Cardinality(QueuedScenarios)
       /\ Cardinality(BatchOnes) + Debt <= MaxBatch
       /\ Cardinality(HeldScenarios) + Cardinality(Stopped) <= Cardinality(Workers)
       /\ Cardinality(QueuedScenarios) <= QueueMax
       /\ Cardinality(GivenUp) <= Cardinality(Stopped) + Debt
       /\ Cardinality(InHand) <= Cardinality(B) + Cardinality(GivenUp)
  BY <1>3, <1>4, <1>5, <1>6, <1>7, <1>8, <1>10
<1>12. /\ Cardinality(A) \in Nat /\ Cardinality(B) \in Nat /\ Debt \in Nat
       /\ Cardinality(BatchOnes) \in Nat /\ Cardinality(HeldScenarios) \in Nat
       /\ Cardinality(QueuedScenarios) \in Nat /\ Cardinality(GivenUp) \in Nat
       /\ Cardinality(Stopped) \in Nat /\ Cardinality(Workers) \in Nat
       /\ QueueMax \in Nat /\ MaxBatch \in Nat /\ Cardinality(InHand) \in Nat
  BY <1>1, <1>2, <1>3, <1>4, <1>5, <1>6, <1>7, <1>8, <1>10
<1>13. Cardinality(InHand) <= Cardinality(Workers) + QueueMax + MaxBatch
  BY ONLY <1>11, <1>12
<1> QED
  BY <1>10, <1>13

LEMMA LostRestart ==
  ASSUME LossPremise, LossInv, NEW again \in BOOLEAN, NextRun(again),
         state_json = persisted, RunTypeInv', SeenInv', SavedInv'
  PROVE  LostInv'
<1>i. RunTypeInv /\ CountsInv /\ SeenInv /\ SavedInv /\ LostInv /\ restarts \in Nat
  BY DEF LossInv, CountsInv
<1>1. /\ UnsavedSteps \in Nat /\ LoggedSteps \in Nat /\ LoggedSteps <= UnsavedSteps
      /\ Budget \in Nat /\ MaxBatch \in Nat
      /\ IsFiniteSet(Behind) /\ Cardinality(Behind) \in Nat
      /\ Budget = Cardinality(Workers) + QueueMax + MaxBatch + UnsavedSteps * MaxBatch
  BY <1>i, LossNumbers, LostFinite
<1>2. restarts' = restarts + 1 /\ kind' = kind
  BY DEF NextRun
<1>3. Budget' = Budget
  BY <1>2 DEF Budget, UnsavedSteps
<1>4. LoggedSteps' \in Nat
  BY LoggedThen DEF SeenInv
<1> DEFINE U == Behind \cup InHand
<1>5. /\ IsFiniteSet(U) /\ Cardinality(U) \in Nat
      /\ Cardinality(InHand) \in Nat
      /\ Cardinality(U) <= Cardinality(Behind) + Cardinality(InHand)
      /\ Cardinality(InHand) <= Cardinality(Workers) + QueueMax + MaxBatch
  BY <1>i, <1>1, InHandSize, UnionSize
<1>6. lost' \subseteq U /\ Behind' \subseteq U
  <2>1. lost' \cup InMemory' \subseteq U
    BY <1>i, RestartLoses
  <2> QED
    BY <2>1 DEF Behind
<1> HIDE DEF U
<1>7. /\ Cardinality(lost') <= Cardinality(U) /\ Cardinality(Behind') <= Cardinality(U)
      /\ Cardinality(lost') \in Nat /\ Cardinality(Behind') \in Nat
  BY <1>5, <1>6, FS_Subset, FS_CardinalityType
<1>8. PICK b \in Nat, m \in Nat, n \in Nat, u \in Nat :
        /\ b = restarts * Budget /\ m = LoggedSteps * MaxBatch
        /\ n = LoggedSteps' * MaxBatch /\ u = UnsavedSteps * MaxBatch
  <2>1. \A x \in Nat, y \in Nat : x * y \in Nat
    OBVIOUS
  <2>2. /\ restarts * Budget \in Nat /\ LoggedSteps * MaxBatch \in Nat
        /\ LoggedSteps' * MaxBatch \in Nat /\ UnsavedSteps * MaxBatch \in Nat
    BY ONLY <1>i, <1>1, <1>4, <2>1
  <2> QED
    BY ONLY <2>2
<1>9. m <= u
  BY <1>1, <1>8, TimesGrows
<1>10. Cardinality(Behind) <= b + m
  BY <1>i, <1>8 DEF LostInv
<1>11. restarts' * Budget' = b + Budget
  <2>1. \A x \in Nat, y \in Nat : (x + 1) * y = x * y + y
    OBVIOUS
  <2> QED
    BY ONLY <1>i, <1>1, <1>2, <1>3, <1>8, <2>1
<1>12. Cardinality(Workers) \in Nat /\ QueueMax \in Nat
  BY PipelineAssumption, FS_CardinalityType
<1>13. Budget = Cardinality(Workers) + QueueMax + MaxBatch + u
  BY <1>1, <1>8
<1>14. Cardinality(U) <= b + Budget
  BY ONLY b \in Nat, m \in Nat, u \in Nat, <1>1, <1>5, <1>9, <1>10, <1>12, <1>13
<1>15. Cardinality(lost') <= b + Budget /\ Cardinality(Behind') <= b + Budget + n
  BY <1>1, <1>5, <1>7, <1>14
<1> QED
  BY <1>8, <1>11, <1>15 DEF LostInv

LEMMA LossNext ==
  ASSUME LossPremise, LossInv, [ResumeNext]_resumeVars, ~misled'
  PROVE  LossInv'
<1>1. RunTypeInv' /\ CountsInv' /\ SeenInv'
  BY RunTypeNext, CountsNext, SeenNext DEF LossInv, LossPremise
<1>2. SavedInv' /\ LostInv'
  <2>1. CASE Aside \/ RunStep
    <3>1. RunsOn
      BY <2>1, RunsOnWhen
    <3>2. SavedInv'
      BY <3>1, SavedRunsOn DEF LossInv, LossPremise
    <3> QED
      BY <1>1, <3>1, <3>2, LostRunsOn
  <2>2. CASE BackendTrains
    <3>1. SavedInv'
      BY <2>2, SavedBackend DEF LossInv
    <3> QED
      BY <1>1, <2>2, <3>1, LostBackend
  <2>3. ASSUME NEW again \in BOOLEAN, NextRun(again) PROVE SavedInv' /\ LostInv'
    <3>1. SavedInv'
      BY <2>3, NotMisled, SavedRestart DEF LossInv, LossPremise, SeenInv
    <3> QED
      BY <1>1, <2>3, <3>1, NotMisled, LostRestart
  <2> QED
    BY <2>1, <2>2, <2>3 DEF ResumeNext, Aside
<1> QED
  BY <1>1, <1>2 DEF LossInv

LEMMA LossInit == LossPremise /\ ResumeInit => LossInv
<1> SUFFICES ASSUME LossPremise, ResumeInit PROVE LossInv
  OBVIOUS
<1>1. RunTypeInv /\ CountsInv /\ SeenInv /\ SavedInv
  BY RunTypeInit, CountsInit, SeenInit, SavedInit
<1>2. /\ Budget \in Nat /\ MaxBatch \in Nat /\ LoggedSteps \in Nat
  BY <1>1, LossNumbers
<1>3. lost = {} /\ InMemory = {} /\ restarts = 0
  BY DEF ResumeInit, InMemory
<1>4. Behind = {} /\ Cardinality({}) = 0
  BY <1>3, FS_EmptySet DEF Behind
<1>5. restarts * Budget = 0 /\ LoggedSteps * MaxBatch \in Nat
  BY <1>2, <1>3
<1>6. LostInv
  BY <1>3, <1>4, <1>5 DEF LostInv
<1> QED
  BY <1>1, <1>6 DEF LossInv

\* For a run that is misled only its types are known.
LossKnown == RunTypeInv /\ CountsInv /\ (~misled => LossInv)

(* What a restart loses is bounded by what a run can have in hand and by the *)
(* steps since the last eval (train, should_checkpoint, _skip_scenarios):    *)
(* unless a step trains nothing, a backend that saves where it is asked to   *)
(* is never asked, or a run resumed from the state that an eval which        *)
(* outlived an earlier run had put back.                                     *)
THEOREM LossIsBounded == LossPremise => (ResumeSpec => []LossBounded)
<1>1. LossPremise /\ ResumeInit => LossKnown
  BY LossInit DEF LossKnown, LossInv
<1>2. ASSUME LossPremise, LossKnown, [ResumeNext]_resumeVars PROVE LossKnown'
  <2>1. RunTypeInv' /\ CountsInv'
    BY <1>2, RunTypeNext, CountsNext DEF LossKnown
  <2>2. ~misled' => LossInv'
    BY <1>2, NotMisled, LossNext DEF LossKnown
  <2> QED
    BY <2>1, <2>2 DEF LossKnown
<1>3. LossKnown => LossBounded
  BY DEF LossKnown, LossInv, LostInv, LossBounded, Budget
<1>4. CASE LossPremise
  <2>1. ResumeInit => LossKnown
    BY <1>1, <1>4
  <2>2. LossKnown /\ [ResumeNext]_resumeVars => LossKnown'
    BY <1>2, <1>4
  <2> QED
    BY <1>3, <2>1, <2>2, PTL DEF ResumeSpec
<1> QED
  BY <1>4

=============================================================================
