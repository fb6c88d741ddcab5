--------------------------- MODULE PipelineResume ---------------------------
(***************************************************************************)
(* PipelineTrainer.train() over several processes: the process may die at  *)
(* any point, also inside backend.train after the checkpoint was saved and *)
(* inside _persist_state while state.json is open for writing, and train() *)
(* is called again on what it left on disk (trainer.py: train,             *)
(* _skip_scenarios, _read_pipeline_state; model.py: read_state,            *)
(* merge_state, overwrite_state).  The backend saves a checkpoint at every *)
(* step (LocalBackend) or only where it is asked to, and then holds the    *)
(* steps since in memory (tinker_native/backend.py: TinkerNativeBackend).  *)
(* A train() that raised may also be called again in the same process, by  *)
(* a new trainer: then the eval its TaskGroup did not cancel (_run_eval is *)
(* a task of its own) goes on, and stores the old trainer's state over the *)
(* new one's.                                                              *)
(***************************************************************************)
EXTENDS PipelineTrainer, FiniteSetsExt

CONSTANTS
  Backends,    \* a subset of {"local", "native"}
  MaxRestarts  \* bound of the model: calls of train() after the first

ASSUME ResumeAssumption ==
  Backends \subseteq {"local", "native"} /\ MaxRestarts \in Nat

VARIABLES
  kind,       \* which backend trains
  backend,    \* model.get_step(): its step in memory
  saved,      \* the step of its newest checkpoint to train on from
  progress,   \* how far its train() is: "idle", "stepped" or "saved"
  state_json, \* what state.json holds; persisted is what this run stored last
  torn,       \* state.json was truncated and not written again
  restarts,   \* calls of train() after the first
  outlived,   \* what evals of failed runs of this process will still store
  \* history, read by no action but to undo: how many steps in the weights
  \* used each scenario, how many in the checkpoint; the scenarios no run
  \* will train, the steps evaluated in their run; a run resumed from what an
  \* earlier run's eval had stored
  times, kept, lost, evaluated, misled

backendStepVars == <<kind, backend, saved, progress>>
diskVars == <<state_json, torn, restarts, outlived>>
historyVars == <<times, kept, lost, evaluated, misled>>
resumeVars == <<vars, backendStepVars, diskVars, historyVars>>

ResumeInit ==
  /\ Init
  /\ kind \in Backends /\ backend = 0 /\ saved = 0 /\ progress = "idle"
  /\ state_json = persisted /\ torn = FALSE
  /\ restarts = 0 /\ outlived = {}
  /\ times = [s \in Scenarios |-> 0] /\ kept = times
  /\ lost = {} /\ evaluated = {} /\ misled = FALSE

-----------------------------------------------------------------------------
(* One run: what backend.train does before it returns.                     *)

Training == ~torn /\ tpc = "train" /\ backend = current_step

\* The batch went into the weights.
WeightsStepped ==
  times' = [s \in Scenarios |-> IF InBatch(s) THEN times[s] + 1 ELSE times[s]]

\* LocalBackend: the checkpoint directory is the step.
LocalSaves ==
  /\ Training /\ kind = "local"
  /\ WeightsStepped
  /\ backend' = current_step + 1 /\ saved' = current_step + 1 /\ kept' = times'
  /\ UNCHANGED <<vars, kind, progress, diskVars, lost, evaluated, misled>>

\* forward_backward and optim_step on the server's training client.
NativeSteps ==
  /\ Training /\ kind = "native" /\ progress = "idle"
  /\ WeightsStepped
  /\ progress' = "stepped"
  /\ UNCHANGED <<vars, kind, backend, saved, diskVars, kept, lost, evaluated, misled>>

\* Mutant: the checkpoint of the step is never asked for.
MutShouldCheckpoint == FALSE

\* should_checkpoint, with the trainer's save_checkpoint on.
ShouldCheckpoint == should_eval

\* _save_checkpoint: the state the next process can train on from.
NativeSaves ==
  /\ Training /\ progress = "stepped" /\ ShouldCheckpoint
  /\ saved' = current_step + 1 /\ kept' = times
  /\ progress' = "saved"
  /\ UNCHANGED <<vars, kind, backend, diskVars, times, lost, evaluated, misled>>

\* current_step is advanced, and written to state.json beside the trainer's.
NativeAdvances ==
  /\ Training
  /\ progress = IF ShouldCheckpoint THEN "saved" ELSE "stepped"
  /\ backend' = current_step + 1
  /\ progress' = "idle"
  /\ UNCHANGED <<vars, kind, saved, diskVars, historyVars>>

BackendTrains == LocalSaves \/ NativeSteps \/ NativeSaves \/ NativeAdvances

\* The steps of a run that call _persist_state.
Stores == StepLogged \/ FinishTraining \/ EvalCompletes

\* Every other step is PipelineTrainer's; backend.train returns its step.
RunStep ==
  /\ ~torn
  /\ Next
  /\ tpc = "train" /\ tpc' = "prune" => policy_version' = backend
  /\ state_json' = IF Stores THEN persisted' ELSE state_json
  /\ evaluated' = evaluated \cup completed_eval_steps'
  /\ UNCHANGED <<backendStepVars, torn, restarts, outlived, times, kept, lost, misled>>

-----------------------------------------------------------------------------
(* The eval of a failed run, while a new PipelineTrainer runs.             *)

\* What its _persist_state will store: the state of the failed run's trainer,
\* which no task but the eval itself changes any more.
Outlives ==
  IF tpc = "failed" /\ epc = "poll" /\ etask # NoEval
  THEN {Persisted(next_training_step, scenario_offset, last_eval_step,
                  completed_eval_steps \cup {etask.step})}
  ELSE {}

\* _run_eval's finally stores the old trainer's state over the new run's.
OutlivedCompletes(old) ==
  /\ ~torn /\ (Yielded \/ tpc = "failed")
  /\ outlived' = outlived \ {old} /\ state_json' = old
  /\ UNCHANGED <<vars, backendStepVars, torn, restarts, historyVars>>

\* It raises, or is cancelled with the event loop it ran in.
OutlivedFails(old) ==
  /\ ~torn /\ (Yielded \/ tpc = "failed")
  /\ outlived' = outlived \ {old}
  /\ UNCHANGED <<vars, backendStepVars, state_json, torn, restarts, historyVars>>

OutlivedStep ==
  \E old \in outlived : OutlivedCompletes(old) \/ OutlivedFails(old)

-----------------------------------------------------------------------------
(* The process dies, and train() is called in the next one.                *)

\* What writes state.json could run now.
Storing ==
  ENABLED (NativeAdvances \/ Stores \/ \E old \in outlived : OutlivedCompletes(old))

\* overwrite_state truncated the file and json.dump did not get to its end.
DiesWhileStoring ==
  /\ ~torn /\ restarts < MaxRestarts /\ Storing
  /\ torn' = TRUE
  /\ UNCHANGED <<vars, backendStepVars, state_json, restarts, outlived, historyVars>>

\* Mutant: a state.json that does not parse counts as none.
MutReadStates == {IF torn THEN FreshState ELSE state_json}

\* What read_state may return: json.load raises on a truncated file.
ReadStates == IF torn THEN {} ELSE {state_json}

\* Mutant: the stored step is trusted, not the backend's.
MutStartStep(stored, again) == stored.training_step

\* start_step: a stored training_step that differs only draws a warning.  The
\* backend of the same process has its step in memory, that of a new one takes
\* the newest checkpoint (_build_model_state, get_step_from_dir).
StartStep(stored, again) == IF again THEN backend ELSE saved

\* Mutant: the completed evals are not read back.
MutRestoredEvals(stored) == {}

RestoredEvals(stored) == stored.completed_eval_steps

\* Scenarios the next run skips although its weights have not seen them: they
\* were being rolled out, queued or in the batch, or trained on in a step that
\* went with the process.
Skipped(offset) ==
  {s \in Scenarios : s <= offset /\ times'[s] = 0
                     /\ fate[s] \in {"none", "dropped", "trained"}}

\* train(): StartFrom(StartStep(stored, again), stored) as a step.
Restart(stored, again) ==
  LET step == StartStep(stored, again)
      offset == Min({stored.scenario_offset, NumScenarios})
      evalFirst == HasEval /\ EvalAtStart
      last == IF evalFirst THEN step ELSE stored.last_eval_step
      completed == RestoredEvals(stored)
  IN  /\ done' = FALSE
      /\ policy_version' = step /\ next_training_step' = step
      /\ scenario_offset' = offset
      /\ last_eval_step' = last
      /\ completed_eval_steps' = completed
      /\ persisted' = IF evalFirst
                      THEN Persisted(step, offset, last, completed)
                      ELSE stored
      /\ state_json' = persisted'
      /\ output_queue' = <<>>
      /\ eval_queue' = IF evalFirst THEN <<step>> ELSE <<>>
      /\ scheduled_eval_steps' = IF evalFirst THEN {step} ELSE {}
      /\ discard_count' = 0
      /\ lease_counts' = [s \in Steps |-> 0]
      /\ worker' = [w \in Workers |-> WorkerAt("fetch")]
      /\ rstage' = "working" /\ stop_tasks' = {}
      /\ tpc' = "loop" /\ current_step' = step /\ batch' = <<>>
      /\ stop_at_step' = IF MaxSteps = Unlimited THEN Unlimited
                         ELSE step + MaxSteps
      /\ saw_sentinel' = FALSE /\ should_eval' = FALSE
      /\ epc' = IF HasEval THEN "poll" ELSE "done"
      /\ eval_next' = 0 /\ etask' = NoEval
      /\ fate' = [s \in Scenarios |-> CASE s > offset -> "none"
                                        [] s \in Skipped(offset) -> "dropped"
                                        [] OTHER -> fate[s]]
      /\ lost' = lost \cup Skipped(offset)

\* A run that died is followed by one in a new process, one that returned or
\* raised by one in either; in the same process the eval a run that raised left
\* behind goes on.
NextRun(again) ==
  /\ restarts < MaxRestarts
  /\ again => TrainReturned
  /\ backend' = IF again THEN backend ELSE saved
  /\ times' = IF again THEN times ELSE kept
  /\ \E stored \in ReadStates : Restart(stored, again)
  /\ restarts' = restarts + 1
  /\ outlived' = IF again THEN outlived \cup Outlives ELSE {}
  /\ misled' = (misled \/ state_json # persisted)
  /\ torn' = FALSE /\ progress' = "idle"
  /\ UNCHANGED <<kind, saved, kept, evaluated>>

\* read_state raises in every call: train() is over before it began.
StateUnreadable == torn /\ UNCHANGED resumeVars

ResumeNext ==
  \/ BackendTrains \/ RunStep \/ OutlivedStep \/ DiesWhileStoring
  \/ \E again \in BOOLEAN : NextRun(again)
  \/ StateUnreadable

ResumeSpec == ResumeInit /\ [][ResumeNext]_resumeVars

-----------------------------------------------------------------------------
(* Properties. *)

(* The version the workers stamp on rollouts is the backend's step, behind it *)
(* only in backend.train or where that raised, whatever state.json said and   *)
(* whichever steps a process took with it; and what state.json says differs   *)
(* from the backend by one step at most while the run's first eval rewrites   *)
(* it (train warns and takes the backend's step; _run_eval stores             *)
(* next_training_step, a step that may never be made) and no eval of an       *)
(* earlier run of the process has stored its own trainer's step over it.      *)
StepsAgree ==
  /\ policy_version \in {backend - 1, backend}
  /\ policy_version # backend => tpc \in {"train", "failed"}
  /\ HasEval /\ EvalAtStart /\ state_json = persisted =>
       state_json.training_step \in (backend - 1)..(backend + 1)

(* No run trains on a scenario twice, whatever state.json was overwritten     *)
(* with.  And a scenario is trained on again only when a process died between *)
(* the checkpoint and the state that records it: one batch per restart at     *)
(* most, even when the state file was destroyed (_persist_state, read_state), *)
(* as long as every run resumed from what the run before it had stored: an    *)
(* older offset that an outliving eval puts back has the run after it train   *)
(* all again that was trained since.                                          *)
Retrained(s) == IF times[s] > 1 THEN times[s] - 1 ELSE 0

RetrainingBounded ==
  /\ \A s \in Scenarios : times[s] <= restarts + 1
  /\ ~misled => MapThenSumSet(Retrained, Scenarios) <= restarts * MaxBatch

(* The scenarios a restart skips untrained are those the dead run held: one   *)
(* per worker, a queue's worth and a batch (scenario_offset counts what was   *)
(* taken from the iterator, not what was trained); and those of the steps     *)
(* since the last checkpoint, fewer than lie between two evals, because       *)
(* should_checkpoint follows should_eval_step.  An outliving eval may store   *)
(* an offset ahead of the run's, which takes up again what its own run gave   *)
(* up: no bound then holds for the run after it.                              *)
UnsavedSteps == IF kind = "local" THEN 0 ELSE EvalEvery - 1

LossBounded ==
  ~misled =>
    Cardinality(lost) <=
      restarts * (Cardinality(Workers) + QueueMax + (1 + UnsavedSteps) * MaxBatch)

(* An eval that completed stays recorded in every later run, for the          *)
(* retention strategies to see (completed_eval_steps), unless the eval of an  *)
(* earlier run of the process stored the list of its own trainer over it.     *)
EvalsRemembered ==
  ~misled /\ state_json = persisted =>
    evaluated \subseteq state_json.completed_eval_steps

=============================================================================
