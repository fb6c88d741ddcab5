-------------------------- MODULE PipelineTrainer --------------------------
(***************************************************************************)
(* src/art/pipeline_trainer/trainer.py: one call of PipelineTrainer.train. *)
(*                                                                         *)
(* Rollout workers take scenarios, wait until the served policy is recent  *)
(* enough, roll out under a checkpoint lease and put a trajectory group in *)
(* a bounded queue.  The training stage collects batches from the queue,   *)
(* discards stale and zero-variance groups, trains, and publishes the new  *)
(* policy version.  The eval stage evaluates the steps the training stage  *)
(* schedules.  Any of them may see `done` at any await.                    *)
(*                                                                         *)
(* The tasks share one asyncio event loop: code between two awaits is one  *)
(* action here, and the training stage's run over a non-empty queue, which *)
(* never suspends, is a run of actions no other task can interrupt         *)
(* (Yielded).                                                              *)
(***************************************************************************)
EXTENDS Integers, Sequences, FiniteSets

CONSTANTS
  Workers,       \* the rollout worker tasks (num_rollout_workers of them)
  NumScenarios,  \* length of the scenario iterator
  MinBatch,      \* min_batch_size
  MaxBatch,      \* max_batch_size
  MaxOffPolicy,  \* max_steps_off_policy
  QueueMax,      \* queue_maxsize
  MaxSteps,      \* max_steps, Unlimited for None
  DiscardLimit,  \* discard_queue_multiplier * min_batch_size
  HasEval,       \* eval_fn is not None
  EvalAtStart,   \* eval_at_start
  EvalEvery,     \* eval_every_n_steps
  Outcomes,      \* what a rollout may yield: a subset of GroupKinds
  Environment,   \* what may happen from outside: a subset of Events
  StepBound      \* bound of the model: no step beyond this one is trained

Unlimited == -1

\* "ok": rewards differ.  "zero": all rewards equal, or a single trajectory.
\* "empty": neither trajectories nor exceptions, so no policy version either.
\* "failed": only exceptions.
GroupKinds == {"ok", "zero", "empty", "failed"}

\* request_stop() or a signal; backend.train, pruning, retention or logging
\* raises; rollout_fn raises or returns no group; eval_fn raises;
\* backend.train returns the step it started from (no trainable data).
Events == {"stop", "train_raises", "rollout_fails", "eval_fails", "same_step"}

ASSUME PipelineAssumption ==
  /\ IsFiniteSet(Workers)
  /\ NumScenarios \in Nat
  /\ MinBatch \in Nat \ {0}
  /\ MaxBatch \in Nat /\ MaxBatch >= MinBatch
  /\ MaxOffPolicy \in Nat
  /\ QueueMax \in Nat \ {0}
  /\ MaxSteps \in Nat \cup {Unlimited}
  /\ DiscardLimit \in Nat \ {0}
  /\ HasEval \in BOOLEAN
  /\ EvalAtStart \in BOOLEAN
  /\ EvalEvery \in Nat
  /\ Outcomes \subseteq GroupKinds
  /\ Environment \subseteq Events
  /\ StepBound \in Nat

Scenarios == 1..NumScenarios
Steps == 0..StepBound

\* A trajectory group in the queue: the scenario it was rolled out for, the
\* oldest policy version of its trajectories, and what its rewards are like.
Group == [scenario : 0..NumScenarios, version : Steps,
          kind : GroupKinds \cup {"sentinel"}]

\* The None the queue carries to end training.
Sentinel == [scenario |-> 0, version |-> 0, kind |-> "sentinel"]

VARIABLES
  \* PipelineState
  done, policy_version, next_training_step, scenario_offset, last_eval_step,
  completed_eval_steps,
  \* what _persist_state last wrote to state.json
  persisted,
  \* fields of PipelineTrainer
  output_queue, eval_queue, discard_count, lease_counts, scheduled_eval_steps,
  \* per worker task: where it is, its scenario, the version it rolls out
  \* with and the kind of the group it is putting
  worker,
  \* where _rollout_stage is, and the tasks request_stop left behind
  rstage, stop_tasks,
  \* locals of _training_stage: where it is, current_step, stop_at_step, the
  \* batch, whether the sentinel was seen, should_eval_step
  tpc, current_step, stop_at_step, batch, saw_sentinel, should_eval,
  \* locals of _eval_stage: where it is, the step it took while the previous
  \* eval still runs, and the _run_eval task
  epc, eval_next, etask,
  \* history, read by no action: what became of each scenario
  fate

stateVars == <<done, policy_version, next_training_step, scenario_offset,
               last_eval_step, completed_eval_steps, persisted>>
queueVars == <<output_queue, lease_counts>>
rolloutVars == <<worker, rstage, stop_tasks>>
trainVars == <<tpc, current_step, stop_at_step, batch, saw_sentinel,
               should_eval, discard_count>>
evalVars == <<eval_queue, scheduled_eval_steps, epc, eval_next, etask>>
vars == <<stateVars, queueVars, rolloutVars, trainVars, evalVars, fate>>

WorkerPc == {"fetch", "check", "blocked", "rollout", "put", "stopped"}
Worker == [pc : WorkerPc, scenario : 0..NumScenarios, version : Steps,
           kind : GroupKinds]
TrainPc == {"loop", "collect", "drain", "finish", "train", "prune", "retain",
            "log", "finished", "failed"}
Fates == {"none", "trained", "stale", "zero", "error", "dropped"}
NoEval == [pc |-> "none", step |-> 0]

-----------------------------------------------------------------------------
(* Shared helpers. *)

\* No other task runs while the training stage holds the event loop, and none
\* after the TaskGroup was cancelled by an exception.
Yielded == tpc \notin {"drain", "loop", "finish", "failed"}

\* _run_eval is a task of its own, not one of the TaskGroup: a failed train()
\* leaves it running, unless _eval_stage was awaiting it and took it along.
EvalRuns == Yielded \/ (tpc = "failed" /\ epc = "poll")

HasRoom == Len(output_queue) < QueueMax

\* Mutant: notify() instead of notify_all().
MutWoken ==
  LET asleep == {w \in Workers : worker[w].pc = "blocked"}
  IN  [w \in Workers |->
         IF asleep # {} /\ w = CHOOSE v \in asleep : TRUE
         THEN [worker[w] EXCEPT !.pc = "check"] ELSE worker[w]]

\* policy_updated.notify_all(): every worker in wait() will test again.
Woken == [w \in Workers |->
            IF worker[w].pc = "blocked" THEN [worker[w] EXCEPT !.pc = "check"]
            ELSE worker[w]]

\* _persist_state(training_step), with what the caller just assigned.
Persisted(step, offset, last, completed) ==
  [scenario_offset |-> offset, training_step |-> step,
   last_eval_step |-> last, completed_eval_steps |-> completed]

\* The step a worker may not lag behind: _wait_for_policy's condition.
PolicyTooOld == policy_version < next_training_step - MaxOffPolicy

\* Mutant: the lease of the current policy is released, not the one taken.
MutRelease(step) == [lease_counts EXCEPT ![policy_version] = @ - 1]

Lease(step) == [lease_counts EXCEPT ![step] = @ + 1]
Release(step) == [lease_counts EXCEPT ![step] = @ - 1]

\* Mutant: the group is stamped with the version at its end, not its start.
MutGroupOf(w, kind) ==
  [scenario |-> worker[w].scenario, version |-> policy_version, kind |-> kind]

GroupOf(w, kind) ==
  [scenario |-> worker[w].scenario, version |-> worker[w].version,
   kind |-> kind]

\* A worker between scenarios.
WorkerAt(pc) == [pc |-> pc, scenario |-> 0, version |-> 0, kind |-> "ok"]

\* `while not self.state.done` at the top of _rollout_worker.
NextIteration == WorkerAt(IF done THEN "stopped" ELSE "fetch")

InBatch(s) == \E i \in DOMAIN batch : batch[i].scenario = s

\* The history after every group of the batch met the same end.
BatchFate(end) == [s \in Scenarios |-> IF InBatch(s) THEN end ELSE fate[s]]

-----------------------------------------------------------------------------
(* train(): resume from the stored state, then start the stages. *)

FreshState == Persisted(0, 0, 0, {})

\* The state in which the stages start when the backend is at `step` and
\* state.json holds `stored`.  _skip_scenarios stops at the iterator's end.
StartFrom(step, stored) ==
  LET offset == IF stored.scenario_offset < NumScenarios
                THEN stored.scenario_offset ELSE NumScenarios
      evalFirst == HasEval /\ EvalAtStart
      last == IF evalFirst THEN step ELSE stored.last_eval_step
  IN  /\ done = FALSE
      /\ policy_version = step /\ next_training_step = step
      /\ scenario_offset = offset
      /\ last_eval_step = last
      /\ completed_eval_steps = stored.completed_eval_steps
      /\ persisted = IF evalFirst
                     THEN Persisted(step, offset, last,
                                    stored.completed_eval_steps)
                     ELSE stored
      /\ output_queue = <<>>
      /\ eval_queue = IF evalFirst THEN <<step>> ELSE <<>>
      /\ scheduled_eval_steps = IF evalFirst THEN {step} ELSE {}
      /\ discard_count = 0
      /\ lease_counts = [s \in Steps |-> 0]
      /\ worker = [w \in Workers |-> WorkerAt("fetch")]
      /\ rstage = "working" /\ stop_tasks = {}
      /\ tpc = "loop" /\ current_step = step /\ batch = <<>>
      /\ stop_at_step = IF MaxSteps = Unlimited THEN Unlimited
                        ELSE step + MaxSteps
      /\ saw_sentinel = FALSE /\ should_eval = FALSE
      /\ epc = IF HasEval THEN "poll" ELSE "done"
      /\ eval_next = 0 /\ etask = NoEval

Init == StartFrom(0, FreshState) /\ fate = [s \in Scenarios |-> "none"]

-----------------------------------------------------------------------------
(* request_stop(), and the two tasks it may create. *)

RequestStop ==
  /\ "stop" \in Environment /\ Yielded
  /\ ~done
  /\ done' = TRUE
  /\ IF HasRoom
     THEN /\ output_queue' = Append(output_queue, Sentinel)
          /\ stop_tasks' = {"notify"}
     ELSE /\ stop_tasks' = {"notify", "put"}
          /\ UNCHANGED output_queue
  /\ UNCHANGED <<policy_version, next_training_step, scenario_offset,
                 last_eval_step, completed_eval_steps, persisted,
                 lease_counts, worker, rstage, trainVars, evalVars, fate>>

StopNotifies ==
  /\ "notify" \in stop_tasks /\ Yielded
  /\ stop_tasks' = stop_tasks \ {"notify"}
  /\ worker' = Woken
  /\ UNCHANGED <<stateVars, queueVars, rstage, trainVars, evalVars, fate>>

StopPuts ==
  /\ "put" \in stop_tasks /\ Yielded /\ HasRoom
  /\ stop_tasks' = stop_tasks \ {"put"}
  /\ output_queue' = Append(output_queue, Sentinel)
  /\ UNCHANGED <<stateVars, lease_counts, worker, rstage, trainVars, evalVars,
                 fate>>

-----------------------------------------------------------------------------
(* _rollout_worker and the methods it awaits. *)

\* _get_next_scenario: the iterator yields one.
TakeScenario(w) ==
  /\ worker[w].pc = "fetch" /\ Yielded
  /\ scenario_offset < NumScenarios
  /\ scenario_offset' = scenario_offset + 1
  /\ worker' = [worker EXCEPT ![w].pc = "check",
                              ![w].scenario = scenario_offset + 1]
  /\ UNCHANGED <<done, policy_version, next_training_step, last_eval_step,
                 completed_eval_steps, persisted, queueVars, rstage,
                 stop_tasks, trainVars, evalVars, fate>>

\* _get_next_scenario: StopAsyncIteration.
ScenariosExhausted(w) ==
  /\ worker[w].pc = "fetch" /\ Yielded
  /\ scenario_offset = NumScenarios
  /\ worker' = [worker EXCEPT ![w] = WorkerAt("stopped")]
  /\ UNCHANGED <<stateVars, queueVars, rstage, stop_tasks, trainVars,
                 evalVars, fate>>

\* _wait_for_policy: the condition does not hold yet.
WaitForPolicy(w) ==
  /\ worker[w].pc = "check" /\ Yielded
  /\ ~done /\ PolicyTooOld
  /\ worker' = [worker EXCEPT ![w].pc = "blocked"]
  /\ UNCHANGED <<stateVars, queueVars, rstage, stop_tasks, trainVars,
                 evalVars, fate>>

\* _wait_for_policy returned because of done: the scenario is given up.
GiveUpScenario(w) ==
  /\ worker[w].pc = "check" /\ Yielded
  /\ done
  /\ worker' = [worker EXCEPT ![w] = WorkerAt("stopped")]
  /\ fate' = [fate EXCEPT ![worker[w].scenario] = "dropped"]
  /\ UNCHANGED <<stateVars, queueVars, rstage, stop_tasks, trainVars,
                 evalVars>>

\* initial_version is read and its checkpoint leased without an await between.
StartRollout(w) ==
  /\ worker[w].pc = "check" /\ Yielded
  /\ ~done /\ ~PolicyTooOld
  /\ lease_counts' = Lease(policy_version)
  /\ worker' = [worker EXCEPT ![w].pc = "rollout",
                              ![w].version = policy_version]
  /\ UNCHANGED <<stateVars, output_queue, rstage, stop_tasks, trainVars,
                 evalVars, fate>>

\* rollout_fn raises, or returns something that is not a TrajectoryGroup.
RolloutFails(w) ==
  /\ "rollout_fails" \in Environment
  /\ worker[w].pc = "rollout" /\ Yielded
  /\ lease_counts' = Release(worker[w].version)
  /\ worker' = [worker EXCEPT ![w] = NextIteration]
  /\ fate' = [fate EXCEPT ![worker[w].scenario] = "error"]
  /\ UNCHANGED <<stateVars, output_queue, rstage, stop_tasks, trainVars,
                 evalVars>>

\* rollout_fn returns a group, which is dropped if done, else put at once if
\* the queue has room, else the worker waits in wait_for(put(group)).
RolloutReturns(w, kind) ==
  /\ worker[w].pc = "rollout" /\ Yielded
  /\ lease_counts' = Release(worker[w].version)
  /\ \/ /\ done
        /\ worker' = [worker EXCEPT ![w] = WorkerAt("stopped")]
        /\ fate' = [fate EXCEPT ![worker[w].scenario] = "dropped"]
        /\ UNCHANGED output_queue
     \/ /\ ~done /\ HasRoom
        /\ output_queue' = Append(output_queue, GroupOf(w, kind))
        /\ worker' = [worker EXCEPT ![w] = WorkerAt("fetch")]
        /\ UNCHANGED fate
     \/ /\ ~done /\ ~HasRoom
        /\ worker' = [worker EXCEPT ![w].pc = "put", ![w].kind = kind]
        /\ UNCHANGED <<output_queue, fate>>
  /\ UNCHANGED <<stateVars, rstage, stop_tasks, trainVars, evalVars>>

\* Mutant: no return after the put, the loop puts the group again.
MutPutGroup(w) ==
  /\ worker[w].pc = "put" /\ Yielded /\ HasRoom
  /\ output_queue' = Append(output_queue, GroupOf(w, worker[w].kind))
  /\ UNCHANGED <<stateVars, lease_counts, rolloutVars, trainVars, evalVars,
                 fate>>

\* The put goes through, even after done if it was waiting before.
PutGroup(w) ==
  /\ worker[w].pc = "put" /\ Yielded /\ HasRoom
  /\ output_queue' = Append(output_queue, GroupOf(w, worker[w].kind))
  /\ worker' = [worker EXCEPT ![w] = NextIteration]
  /\ UNCHANGED <<stateVars, lease_counts, rstage, stop_tasks, trainVars,
                 evalVars, fate>>

\* wait_for times out.  Unless done the loop in _put_output_group tries again,
\* which changes nothing.
PutTimesOut(w) ==
  /\ worker[w].pc = "put" /\ Yielded
  /\ done
  /\ worker' = [worker EXCEPT ![w] = WorkerAt("stopped")]
  /\ fate' = [fate EXCEPT ![worker[w].scenario] = "dropped"]
  /\ UNCHANGED <<stateVars, queueVars, rstage, stop_tasks, trainVars,
                 evalVars>>

-----------------------------------------------------------------------------
(* _rollout_stage after its TaskGroup: the sentinel that ends training. *)

\* Mutant: the stage ends without a sentinel.
MutRolloutStageJoins ==
  /\ rstage = "working" /\ Yielded
  /\ \A w \in Workers : worker[w].pc = "stopped"
  /\ rstage' = "done"
  /\ UNCHANGED <<stateVars, queueVars, worker, stop_tasks, trainVars,
                 evalVars, fate>>

RolloutStageJoins ==
  /\ rstage = "working" /\ Yielded
  /\ \A w \in Workers : worker[w].pc = "stopped"
  /\ \/ done /\ rstage' = "done" /\ UNCHANGED output_queue
     \/ /\ ~done /\ HasRoom
        /\ output_queue' = Append(output_queue, Sentinel)
        /\ rstage' = "done"
     \/ ~done /\ ~HasRoom /\ rstage' = "put" /\ UNCHANGED output_queue
  /\ UNCHANGED <<stateVars, lease_counts, worker, stop_tasks, trainVars,
                 evalVars, fate>>

RolloutStagePuts ==
  /\ rstage = "put" /\ Yielded /\ HasRoom
  /\ output_queue' = Append(output_queue, Sentinel)
  /\ rstage' = "done"
  /\ UNCHANGED <<stateVars, lease_counts, worker, stop_tasks, trainVars,
                 evalVars, fate>>

-----------------------------------------------------------------------------
(* _training_stage and _collect_batch. *)

LimitReached == stop_at_step # Unlimited /\ current_step >= stop_at_step

\* The top of the loop: another batch is wanted.
BeginCollect ==
  /\ tpc = "loop"
  /\ ~saw_sentinel /\ ~LimitReached
  /\ tpc' = "drain"
  /\ UNCHANGED <<stateVars, queueVars, rolloutVars, current_step,
                 stop_at_step, batch, saw_sentinel, should_eval,
                 discard_count, evalVars, fate>>

\* get() or get_nowait() returns an item: the batch is not complete yet.
Dequeue ==
  /\ tpc \in {"collect", "drain"}
  /\ ~saw_sentinel /\ Len(batch) < MaxBatch
  /\ output_queue # <<>>
  /\ output_queue' = Tail(output_queue)

\* The item it returns.
Item == Head(output_queue)

\* Mutant: one version too lenient.
MutIsStale(item) ==
  item.kind # "empty" /\ item.version + 1 < current_step - MaxOffPolicy

IsStale(item) ==
  item.kind # "empty" /\ item.version < current_step - MaxOffPolicy

CollectSentinel ==
  /\ Dequeue /\ Item = Sentinel
  /\ saw_sentinel' = TRUE
  /\ tpc' = "drain"
  /\ UNCHANGED <<stateVars, lease_counts, rolloutVars, current_step,
                 stop_at_step, batch, should_eval, discard_count, evalVars,
                 fate>>

\* _check_all_failed raises and the pipeline's TaskGroup is cancelled.
CollectAllFailed ==
  /\ Dequeue /\ Item.kind = "failed"
  /\ tpc' = "failed"
  /\ fate' = [BatchFate("dropped") EXCEPT ![Item.scenario] = "error"]
  /\ UNCHANGED <<stateVars, lease_counts, rolloutVars, current_step,
                 stop_at_step, batch, saw_sentinel, should_eval,
                 discard_count, evalVars>>

CollectStale ==
  /\ Dequeue /\ Item.kind \in {"ok", "zero"} /\ IsStale(Item)
  /\ tpc' = "drain"
  /\ fate' = [fate EXCEPT ![Item.scenario] = "stale"]
  /\ UNCHANGED <<stateVars, lease_counts, rolloutVars, current_step,
                 stop_at_step, batch, saw_sentinel, should_eval,
                 discard_count, evalVars>>

\* _record_zero_variance; at the limit _trigger_collapse sets done and the
\* groups already in the batch are given up with it.
CollectZeroVariance ==
  /\ Dequeue /\ Item.kind \in {"zero", "empty"} /\ ~IsStale(Item)
  /\ discard_count' = discard_count + 1
  /\ \/ /\ discard_count + 1 < DiscardLimit
        /\ tpc' = "drain"
        /\ fate' = [fate EXCEPT ![Item.scenario] = "zero"]
        /\ UNCHANGED <<done, batch>>
     \/ /\ discard_count + 1 >= DiscardLimit
        /\ done' = TRUE
        /\ batch' = <<>>
        /\ tpc' = "finish"
        /\ fate' = [BatchFate("dropped") EXCEPT ![Item.scenario] = "zero"]
  /\ UNCHANGED <<policy_version, next_training_step, scenario_offset,
                 last_eval_step, completed_eval_steps, persisted,
                 lease_counts, rolloutVars, current_step, stop_at_step,
                 saw_sentinel, should_eval, evalVars>>

CollectGroup ==
  /\ Dequeue /\ Item.kind = "ok" /\ ~IsStale(Item)
  /\ batch' = Append(batch, Item)
  /\ tpc' = "drain"
  /\ UNCHANGED <<stateVars, lease_counts, rolloutVars, current_step,
                 stop_at_step, saw_sentinel, should_eval, discard_count,
                 evalVars, fate>>

\* The blocking get() suspends: fewer than min_batch_size and nothing queued.
CollectSuspends ==
  /\ tpc = "drain"
  /\ ~saw_sentinel /\ Len(batch) < MinBatch /\ output_queue = <<>>
  /\ tpc' = "collect"
  /\ UNCHANGED <<stateVars, queueVars, rolloutVars, current_step,
                 stop_at_step, batch, saw_sentinel, should_eval,
                 discard_count, evalVars, fate>>

\* _collect_batch returns.
BatchCollected ==
  /\ tpc = "drain"
  /\ \/ saw_sentinel
     \/ Len(batch) = MaxBatch
     \/ Len(batch) >= MinBatch /\ output_queue = <<>>

\* _should_eval_step(expected_step).
ShouldEvalStep(step) ==
  HasEval /\ EvalEvery > 0 /\ step - last_eval_step >= EvalEvery

\* next_training_step is announced and backend.train is called.
BeginTrain ==
  /\ BatchCollected /\ batch # <<>>
  /\ current_step < StepBound
  /\ next_training_step' = current_step + 1
  /\ should_eval' = ShouldEvalStep(current_step + 1)
  /\ worker' = Woken
  /\ tpc' = "train"
  /\ UNCHANGED <<done, policy_version, scenario_offset, last_eval_step,
                 completed_eval_steps, persisted, queueVars, rstage,
                 stop_tasks, current_step, stop_at_step, batch, saw_sentinel,
                 discard_count, evalVars, fate>>

\* backend.train returns result.step: the policy is published before anything
\* else is awaited, but nobody is notified yet.
TrainReturns(step) ==
  /\ tpc = "train"
  /\ \/ step = current_step + 1
     \/ step = current_step /\ "same_step" \in Environment
  /\ current_step' = step
  /\ policy_version' = step
  /\ next_training_step' = step
  /\ fate' = BatchFate("trained")
  /\ tpc' = "prune"
  /\ UNCHANGED <<done, scenario_offset, last_eval_step, completed_eval_steps,
                 persisted, queueVars, rolloutVars, stop_at_step, batch,
                 saw_sentinel, should_eval, discard_count, evalVars>>

\* _prune_model_adapters returns.
AdaptersPruned ==
  /\ tpc = "prune"
  /\ tpc' = "retain"
  /\ UNCHANGED <<stateVars, queueVars, rolloutVars, current_step,
                 stop_at_step, batch, saw_sentinel, should_eval,
                 discard_count, evalVars, fate>>

\* _run_checkpoint_retention returns.
RetentionRan ==
  /\ tpc = "retain"
  /\ tpc' = "log"
  /\ UNCHANGED <<stateVars, queueVars, rolloutVars, current_step,
                 stop_at_step, batch, saw_sentinel, should_eval,
                 discard_count, evalVars, fate>>

\* model.log and _log_zero_variance_groups return; the eval is scheduled, the
\* state stored and the waiting workers notified without another suspension.
StepLogged ==
  /\ tpc = "log"
  /\ discard_count' = 0
  /\ IF HasEval /\ should_eval
     THEN /\ scheduled_eval_steps' = scheduled_eval_steps \cup {current_step}
          /\ eval_queue' = Append(eval_queue, current_step)
          /\ last_eval_step' = current_step
     ELSE UNCHANGED <<last_eval_step, eval_queue, scheduled_eval_steps>>
  /\ persisted' = Persisted(current_step, scenario_offset, last_eval_step',
                            completed_eval_steps)
  /\ worker' = Woken
  /\ batch' = <<>>
  /\ should_eval' = FALSE
  /\ tpc' = "loop"
  /\ UNCHANGED <<done, policy_version, next_training_step, scenario_offset,
                 completed_eval_steps, queueVars, rstage, stop_tasks,
                 current_step, stop_at_step, saw_sentinel, epc, eval_next,
                 etask, fate>>

\* An exception of backend.train, the pruning, the retention or the logging
\* leaves _training_stage and cancels the other stages.
TrainingRaises ==
  /\ "train_raises" \in Environment
  /\ tpc \in {"train", "prune", "retain", "log"}
  /\ tpc' = "failed"
  /\ fate' = IF tpc = "train" THEN BatchFate("dropped") ELSE fate
  /\ UNCHANGED <<stateVars, queueVars, rolloutVars, current_step,
                 stop_at_step, batch, saw_sentinel, should_eval,
                 discard_count, evalVars>>

\* The stage ends: after max_steps, after the batch that came with the
\* sentinel, or because _collect_batch returned no batch.
FinishTraining ==
  /\ \/ tpc = "loop" /\ (saw_sentinel \/ LimitReached)
     \/ BatchCollected /\ batch = <<>>
     \/ tpc = "finish"
  /\ done' = TRUE
  /\ persisted' = Persisted(current_step, scenario_offset, last_eval_step,
                            completed_eval_steps)
  /\ worker' = Woken
  /\ tpc' = "finished"
  /\ UNCHANGED <<policy_version, next_training_step, scenario_offset,
                 last_eval_step, completed_eval_steps, queueVars, rstage,
                 stop_tasks, current_step, stop_at_step, batch, saw_sentinel,
                 should_eval, discard_count, evalVars, fate>>

-----------------------------------------------------------------------------
(* _eval_stage and _run_eval. *)

Task(step) == [pc |-> "created", step |-> step]

\* eval_queue.get() returns a step; the previous eval must end first.
EvalStageTakes ==
  /\ epc = "poll" /\ Yielded
  /\ eval_queue # <<>>
  /\ eval_queue' = Tail(eval_queue)
  /\ IF etask = NoEval
     THEN etask' = Task(Head(eval_queue)) /\ UNCHANGED <<epc, eval_next>>
     ELSE /\ epc' = "wait" /\ eval_next' = Head(eval_queue)
          /\ UNCHANGED etask
  /\ UNCHANGED <<stateVars, queueVars, rolloutVars, trainVars,
                 scheduled_eval_steps, fate>>

\* `await pending_eval` returns.
EvalStageCreates ==
  /\ epc = "wait" /\ Yielded
  /\ etask = NoEval
  /\ etask' = Task(eval_next)
  /\ epc' = "poll"
  /\ UNCHANGED <<stateVars, queueVars, rolloutVars, trainVars, eval_queue,
                 scheduled_eval_steps, eval_next, fate>>

\* Mutant: the loop ends with done alone, whatever is still queued.
MutEvalStageLeaves ==
  /\ epc = "poll" /\ Yielded
  /\ done
  /\ epc' = "final"
  /\ UNCHANGED <<stateVars, queueVars, rolloutVars, trainVars, eval_queue,
                 scheduled_eval_steps, eval_next, etask, fate>>

\* get() times out and the loop condition fails; the last eval is awaited.
EvalStageLeaves ==
  /\ epc = "poll" /\ Yielded
  /\ done /\ eval_queue = <<>>
  /\ epc' = "final"
  /\ UNCHANGED <<stateVars, queueVars, rolloutVars, trainVars, eval_queue,
                 scheduled_eval_steps, eval_next, etask, fate>>

EvalStageEnds ==
  /\ epc = "final" /\ Yielded
  /\ etask = NoEval
  /\ epc' = "done"
  /\ UNCHANGED <<stateVars, queueVars, rolloutVars, trainVars, eval_queue,
                 scheduled_eval_steps, eval_next, etask, fate>>

\* The task starts: the step's checkpoint is leased and eval_fn called.
EvalStarts ==
  /\ etask.pc = "created" /\ EvalRuns
  /\ etask' = [etask EXCEPT !.pc = "running"]
  /\ lease_counts' = Lease(etask.step)
  /\ UNCHANGED <<stateVars, output_queue, rolloutVars, trainVars, eval_queue,
                 scheduled_eval_steps, epc, eval_next, fate>>

\* eval_fn returns; its lease ends before the results are logged.
EvalReturns ==
  /\ etask.pc = "running" /\ EvalRuns
  /\ etask' = [etask EXCEPT !.pc = "logging"]
  /\ lease_counts' = Release(etask.step)
  /\ UNCHANGED <<stateVars, output_queue, rolloutVars, trainVars, eval_queue,
                 scheduled_eval_steps, epc, eval_next, fate>>

\* The results are logged: _run_eval's finally with eval_completed.  What it
\* stores as training_step is next_training_step, which is ahead of the
\* backend while a step is being trained.
EvalCompletes ==
  /\ etask.pc = "logging" /\ EvalRuns
  /\ scheduled_eval_steps' = scheduled_eval_steps \ {etask.step}
  /\ completed_eval_steps' = completed_eval_steps \cup {etask.step}
  /\ persisted' = Persisted(next_training_step, scenario_offset,
                            last_eval_step, completed_eval_steps')
  /\ etask' = NoEval
  /\ UNCHANGED <<done, policy_version, next_training_step, scenario_offset,
                 last_eval_step, queueVars, rolloutVars, trainVars,
                 eval_queue, epc, eval_next, fate>>

\* Mutant: a failed eval stays scheduled.
MutEvalFails ==
  /\ "eval_fails" \in Environment
  /\ etask.pc \in {"running", "logging"} /\ EvalRuns
  /\ lease_counts' = IF etask.pc = "running" THEN Release(etask.step)
                     ELSE lease_counts
  /\ etask' = NoEval
  /\ UNCHANGED <<stateVars, output_queue, rolloutVars, trainVars, eval_queue,
                 scheduled_eval_steps, epc, eval_next, fate>>

\* eval_fn or the logging raises: _run_eval's finally without eval_completed.
EvalFails ==
  /\ "eval_fails" \in Environment
  /\ etask.pc \in {"running", "logging"} /\ EvalRuns
  /\ lease_counts' = IF etask.pc = "running" THEN Release(etask.step)
                     ELSE lease_counts
  /\ scheduled_eval_steps' = scheduled_eval_steps \ {etask.step}
  /\ etask' = NoEval
  /\ UNCHANGED <<stateVars, output_queue, rolloutVars, trainVars, eval_queue,
                 epc, eval_next, fate>>

-----------------------------------------------------------------------------
(* The specification. *)

\* train() is over: every stage returned, or an exception cancelled them.
TrainReturned ==
  \/ tpc = "finished" /\ rstage = "done" /\ epc = "done"
  \/ tpc = "failed"

WorkerStep(w) ==
  \/ TakeScenario(w) \/ ScenariosExhausted(w)
  \/ WaitForPolicy(w) \/ GiveUpScenario(w) \/ StartRollout(w)
  \/ RolloutFails(w) \/ \E kind \in Outcomes : RolloutReturns(w, kind)
  \/ PutGroup(w) \/ PutTimesOut(w)

CollectStep ==
  \/ CollectSentinel \/ CollectAllFailed \/ CollectStale
  \/ CollectZeroVariance \/ CollectGroup \/ CollectSuspends

TrainingStep ==
  \/ BeginCollect \/ CollectStep \/ BeginTrain \/ StepLogged
  \/ TrainingRaises \/ FinishTraining

\* The backend's side of _training_stage.
BackendStep ==
  \/ \E step \in Steps : TrainReturns(step)
  \/ AdaptersPruned \/ RetentionRan

EvalStep ==
  \/ EvalStageTakes \/ EvalStageCreates \/ EvalStageLeaves \/ EvalStageEnds
  \/ EvalStarts \/ EvalReturns \/ EvalCompletes \/ EvalFails

\* What the event loop runs once it is due, the backend's side apart.
TaskStep ==
  \/ StopNotifies \/ StopPuts
  \/ \E w \in Workers : WorkerStep(w)
  \/ RolloutStageJoins \/ RolloutStagePuts
  \/ TrainingStep \/ EvalStep

System == TaskStep \/ BackendStep

Returned == TrainReturned /\ UNCHANGED vars

Next == RequestStop \/ System \/ Returned

Spec == Init /\ [][Next]_vars

\* The event loop keeps running what can run, and the awaited calls (rollout
\* function, eval function, backend) return.  Nobody has to request a stop.
FairSpec == Spec /\ WF_vars(System)

-----------------------------------------------------------------------------
(* Properties. *)

StateTypeOK ==
  /\ done \in BOOLEAN
  /\ policy_version \in Steps /\ next_training_step \in Steps
  /\ scenario_offset \in 0..NumScenarios
  /\ last_eval_step \in Steps /\ completed_eval_steps \subseteq Steps
  /\ persisted \in [scenario_offset : 0..NumScenarios, training_step : Steps,
                    last_eval_step : Steps,
                    completed_eval_steps : SUBSET Steps]

QueueTypeOK ==
  /\ output_queue \in Seq(Group) /\ Len(output_queue) <= QueueMax
  /\ lease_counts \in [Steps -> Int]

RolloutTypeOK ==
  /\ worker \in [Workers -> Worker]
  /\ rstage \in {"working", "put", "done"}
  /\ stop_tasks \subseteq {"notify", "put"}

TrainTypeOK ==
  /\ tpc \in TrainPc /\ current_step \in Steps
  /\ stop_at_step \in Nat \cup {Unlimited}
  /\ batch \in Seq(Group)
  /\ saw_sentinel \in BOOLEAN /\ should_eval \in BOOLEAN
  /\ discard_count \in Nat

EvalTypeOK ==
  /\ eval_queue \in Seq(Steps) /\ scheduled_eval_steps \subseteq Steps
  /\ epc \in {"poll", "wait", "final", "done"}
  /\ eval_next \in Steps
  /\ etask \in [pc : {"none", "created", "running", "logging"}, step : Steps]

TypeOK ==
  /\ StateTypeOK /\ QueueTypeOK /\ RolloutTypeOK /\ TrainTypeOK
  /\ EvalTypeOK
  /\ fate \in [Scenarios -> Fates]

(* No gradient step is taken on data more than max_steps_off_policy versions *)
(* older than the policy being trained, whatever the workers, the queue and  *)
(* the trainer did since the rollout started (_wait_for_policy,              *)
(* _apply_policy_versions, _is_group_stale).  Once the step is taken the     *)
(* policy is one version further on, which is what steps_off_policy reports. *)
TrainedPolicyLag == IF tpc \in {"collect", "drain", "train"}
                    THEN MaxOffPolicy ELSE MaxOffPolicy + 1

OffPolicyBound ==
  \A i \in DOMAIN batch :
    batch[i].kind = "ok" /\ batch[i].version \in
      (current_step - TrainedPolicyLag)..current_step

(* The lease counts that keep a checkpoint from being deleted are exactly    *)
(* the rollouts and the eval now using it: no path through a rollout or an   *)
(* eval, failing or not, leaks or doubles a lease (_adapter_lease).          *)
RolloutsUsing(s) ==
  {w \in Workers : worker[w].pc = "rollout" /\ worker[w].version = s}
EvalsUsing(s) == IF etask.pc = "running" /\ etask.step = s THEN 1 ELSE 0

LeasesMatchUse ==
  \A s \in Steps :
    lease_counts[s] = Cardinality(RolloutsUsing(s)) + EvalsUsing(s)

(* Where a scenario taken from the iterator is before it has a fate.         *)
HeldByWorkers(s) ==
  {w \in Workers : worker[w].pc \in {"check", "blocked", "rollout", "put"}
                   /\ worker[w].scenario = s}
Queued(s) == {i \in DOMAIN output_queue : output_queue[i].scenario = s}
InBatchAt(s) ==
  {i \in DOMAIN batch : batch[i].scenario = s /\ tpc \in {"collect", "drain", "train"}}

(* Work is only given up because the run is ending: a scenario is dropped    *)
(* after done was set or after a stage failed, never in normal operation.    *)
DroppedOnlyWhenEnding ==
  (\E s \in Scenarios : fate[s] = "dropped") => done \/ tpc = "failed"

(* Every scenario taken is in exactly one place, and in none once its fate   *)
(* is sealed: a timed-out put is not put twice, no group is trained twice,   *)
(* none disappears, and none is given up before the run is ending            *)
(* (_rollout_worker, _put_output_group, _collect_batch).                     *)
ScenariosAccountedFor ==
  /\ \A s \in Scenarios :
       Cardinality(HeldByWorkers(s)) + Cardinality(Queued(s))
         + Cardinality(InBatchAt(s)) =
       IF s <= scenario_offset /\ fate[s] = "none" THEN 1 ELSE 0
  /\ DroppedOnlyWhenEnding

(* A worker asleep in _wait_for_policy is never forgotten: if it could go on *)
(* then somebody who will notify it is still on the way (policy_updated is   *)
(* notified later than policy_version is assigned).                          *)
NoLostWakeup ==
  \A w \in Workers :
    worker[w].pc = "blocked" /\ (done \/ ~PolicyTooOld) =>
      \/ "notify" \in stop_tasks
      \/ tpc \in {"prune", "retain", "log", "finish", "failed"}

(* Every eval that is queued, taken or running is still in                   *)
(* _scheduled_eval_steps, the set that protects its checkpoint.              *)
PendingEvals ==
  {eval_queue[i] : i \in DOMAIN eval_queue}
    \cup (IF epc = "wait" THEN {eval_next} ELSE {})
    \cup (IF etask = NoEval THEN {} ELSE {etask.step})

PendingEvalsScheduled == PendingEvals = scheduled_eval_steps

(* When train() returns no eval it scheduled was left unrun.                 *)
ScheduledEvalsRun ==
  TrainReturned /\ tpc = "finished" => scheduled_eval_steps = {}

(* train() comes to an end.                                                  *)
TrainReturnsEventually == <>TrainReturned

=============================================================================
