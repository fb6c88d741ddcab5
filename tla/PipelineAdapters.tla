-------------------------- MODULE PipelineAdapters --------------------------
(***************************************************************************)
(* PipelineTrainer composed with the LocalBackend it trains with, in       *)
(* dedicated mode with LoRA rollouts: src/art/local/backend.py,            *)
(* src/art/local/adapter_leases.py, src/art/local/checkpoints.py and       *)
(* src/art/unsloth/service.py.                                             *)
(*                                                                         *)
(* The backend keeps one checkpoint directory per step and one adapter     *)
(* per step in vLLM.  After a step the trainer has old adapters unloaded   *)
(* (_prune_model_adapters) and old directories deleted                     *)
(* (_run_checkpoint_retention) while rollouts and evals go on using theirs.*)
(***************************************************************************)
EXTENDS PipelineTrainer, FiniteSetsExt

CONSTANTS
  RetentionInterval  \* checkpoint_retention_interval

ASSUME AdaptersAssumption == RetentionInterval \in Nat \ {0}

VARIABLES
  checkpoints,  \* the steps with a directory under checkpoints/
  loaded,       \* the steps whose adapter vLLM serves, _loaded_adapter_steps
  latest_step,  \* the service's _latest_step, the default inference target
  bpc,          \* where backend.train is
  unloading     \* the steps prune_loaded_adapters has yet to unload

backendVars == <<checkpoints, loaded, latest_step, bpc, unloading>>
allVars == <<vars, backendVars>>

\* get_step_from_dir: the backend's step is the newest directory.
BackendTrainStep == Max(checkpoints)

\* _counts and _checkpoint_lease_counts drop a step at zero.  The trainer and
\* the backend count the same leases: _adapter_lease enters both.
Leased == {s \in Steps : lease_counts[s] > 0}

\* start_openai_server: the adapter of the newest checkpoint is served, and
\* step 0 is saved when there is none.
AdaptersInit ==
  /\ Init
  /\ checkpoints = {0} /\ loaded = {0} /\ latest_step = 0
  /\ bpc = "training" /\ unloading = {}

-----------------------------------------------------------------------------
(* LocalBackend.train in _train_dedicated, or its copy of the checkpoint     *)
(* when no group is trainable: in both the directory of the next step is     *)
(* there before vLLM serves it.                                              *)

CheckpointSaved ==
  /\ tpc = "train" /\ bpc = "training"
  /\ checkpoints' = checkpoints \cup {BackendTrainStep + 1}
  /\ bpc' = "saved"
  /\ UNCHANGED <<vars, loaded, latest_step, unloading>>

\* _reload_adapter returns.
AdapterReloaded ==
  /\ tpc = "train" /\ bpc = "saved"
  /\ loaded' = loaded \cup {BackendTrainStep}
  /\ latest_step' = BackendTrainStep
  /\ bpc' = "reloaded"
  /\ UNCHANGED <<vars, checkpoints, unloading>>

-----------------------------------------------------------------------------
(* The calls of _training_stage after the step. *)

\* _retained_adapter_steps.
RetainedAdapterSteps(step) == {s \in Steps : step - MaxOffPolicy <= s /\ s <= step}

\* Mutant: the leases are forgotten.
MutPrunable(step) == loaded \ (RetainedAdapterSteps(step) \cup {latest_step})

\* prune_model_adapters adds the leased steps, prune_loaded_adapters skips
\* the latest one.
Prunable(step) ==
  loaded \ (RetainedAdapterSteps(step) \cup Leased \cup {latest_step})

\* backend.train returns the step it reads from the directories, and the
\* trainer calls prune_model_adapters before it suspends again.
TrainReturnsStep ==
  /\ bpc = "reloaded"
  /\ TrainReturns(BackendTrainStep)
  /\ unloading' = Prunable(BackendTrainStep)
  /\ bpc' = "training"
  /\ UNCHANGED <<checkpoints, loaded, latest_step>>

\* _unload_adapter: one HTTP call per adapter, oldest first.
AdapterUnloaded ==
  /\ tpc = "prune"
  /\ \E step \in unloading :
       /\ \A s \in unloading : step <= s
       /\ loaded' = loaded \ {step}
       /\ unloading' = unloading \ {step}
  /\ UNCHANGED <<vars, checkpoints, latest_step, bpc>>

PruneReturns ==
  /\ unloading = {}
  /\ AdaptersPruned
  /\ UNCHANGED backendVars

\* Mutant: evals that only wait are not counted.
MutProtectedCheckpointSteps == {current_step} \cup Leased

\* _protected_checkpoint_steps.
ProtectedCheckpointSteps == {current_step} \cup Leased \cup scheduled_eval_steps

\* _run_checkpoint_retention.  The strategy is the caller's: it may keep any
\* of the eligible checkpoints.  delete_checkpoints does not suspend.
CheckpointRetention ==
  LET eligible == IF current_step % RetentionInterval = 0
                  THEN checkpoints \ ProtectedCheckpointSteps ELSE {}
  IN  /\ RetentionRan
      /\ \E kept \in SUBSET eligible :
           checkpoints' = checkpoints \ (eligible \ kept)
      /\ UNCHANGED <<loaded, latest_step, bpc, unloading>>

-----------------------------------------------------------------------------
AdaptersNext ==
  \/ (RequestStop \/ TaskStep \/ Returned) /\ UNCHANGED backendVars
  \/ CheckpointSaved \/ AdapterReloaded \/ TrainReturnsStep
  \/ AdapterUnloaded \/ PruneReturns \/ CheckpointRetention

AdaptersSpec == AdaptersInit /\ [][AdaptersNext]_allVars

-----------------------------------------------------------------------------
(* Properties. *)

AdaptersTypeOK ==
  /\ checkpoints \subseteq Steps /\ checkpoints # {}
  /\ loaded \subseteq Steps /\ latest_step \in Steps
  /\ bpc \in {"training", "saved", "reloaded"}
  /\ unloading \subseteq loaded

(* A rollout's requests name the adapter of the version it started with: it  *)
(* stays loaded until the rollout is over, also when it is older than the    *)
(* window that pruning keeps (_adapter_lease, prune_model_adapters), and a   *)
(* rollout about to start finds the adapter it will name.  So does whoever   *)
(* names none: a new checkpoint is the default inference target only once    *)
(* vLLM serves it (_model_inference_name, prune_loaded_adapters).            *)
NamedAdaptersServed ==
  /\ policy_version \in loaded
  /\ latest_step \in loaded
  /\ \A w \in Workers : worker[w].pc = "rollout" => worker[w].version \in loaded

(* Retention never deletes the checkpoint of a rollout or eval under way, of *)
(* an eval still to run, or the one the next step starts from                *)
(* (_protected_checkpoint_steps, _scheduled_eval_steps).                     *)
NeededCheckpointsKept ==
  {current_step, latest_step} \cup Leased \cup PendingEvals \subseteq checkpoints

(* An eval that is running finds the adapter its requests name.              *)
EvalAdapterServed ==
  etask.pc = "running" => etask.step \in loaded

=============================================================================
