-------------------------- MODULE MegatronTraining --------------------------
(* A training call end to end: LocalBackend packs the rows, MegatronService  *)
(* hands them to the worker in a job, and the ranks of the worker, which are *)
(* the context-parallel ranks of the GDN layers, parse them, plan and run    *)
(* the pass.  The service may fail, be closed or lose the worker at any      *)
(* moment of the pass.  The rows of a first RL call are followed through the  *)
(* pass; of later calls only the job is.                                     *)
EXTENDS TrainingSteps, MegatronJobs

CONSTANT JobsOf   \* for each mode the jobs of its first RL call: a batch and
                  \* a configuration

ASSUME TrainingAssumption ==
  /\ WorldSize = CpSize * DpSize
  /\ Batches = {j.batch : j \in UNION {JobsOf[m] : m \in Modes}}
  /\ Configs = {j.config : j \in UNION {JobsOf[m] : m \in Modes}}

vars == <<passVars, stepVars, jobsVars>>

Init ==
  /\ StepsInit /\ JobsInit
  /\ [batch |-> groups, config |-> config] \in JobsOf[mode]

\* Every rank is in the job: the collectives of the pass can be matched.
Computing ==
  RanksAt("run") /\ OneJob /\ rank[0].kind = "rl"

\* The rows are gone with the job: nothing reads them any more.
ForgetRows ==
  /\ phase' = "over" /\ groups' = <<>> /\ results' = <<>> /\ packed' = 0
  /\ rows' = << <<>> >> /\ ForgetPlan /\ ForgetLayers
  /\ step' = 0 /\ micro' = 0 /\ bundle' = <<>> /\ routed' = 0
  /\ consumed' = [l \in LayerIds |-> 0] /\ lastCall' = [l \in LayerIds |-> 0]
  /\ route' = NoRoute /\ contributed' = <<>>
  /\ UNCHANGED config

\* Once the job cannot be gone on with, or the call is over, the rows go.
RowsFollow ==
  IF phase # "over" /\ phase # "tokenize" /\ ((Computing /\ ~Computing') \/ pc' = "idle")
  THEN ForgetRows ELSE UNCHANGED <<passVars, stepVars>>

BeginFollowed ==
  /\ phase = "tokenize" /\ calls = 0 /\ restarts = 0
  /\ BeginCall("rl") /\ UNCHANGED <<passVars, stepVars>>

BeginOther ==
  /\ phase = "tokenize" \/ phase = "over"
  /\ \/ BeginCall("rl") /\ (calls > 0 \/ restarts > 0)
     \/ BeginCall("sft")
  /\ ForgetRows

\* _get_packed_tensors, within the call and without a suspension.
Packing == pc = "pack" /\ PackStep /\ UNCHANGED <<stepVars, jobsVars>>

Packed ==
  /\ \/ phase \in {"packed", "over"} /\ RowsPacked
     \/ phase \in {"nothing", "over"} /\ NothingToTrain
  /\ UNCHANGED <<passVars, stepVars>>

\* run_megatron_rl_job
Compute == Computing /\ ReplicaStep /\ UNCHANGED jobsVars

\* An error of the parser or of the replay ends the rank, and with it the
\* worker.
RowsRejectedExit == phase \in {"rejected", "raised"} /\ WorkerDies /\ RowsFollow

JobComputed ==
  /\ rank[0].kind = "rl" => StepsDone \/ phase = "over"
  /\ RanksRun /\ RowsFollow

System ==
  \/ Packing \/ Packed \/ Compute \/ RowsRejectedExit \/ JobComputed
  \/ (CallStep \/ WorkerStep) /\ RowsFollow

Next ==
  \/ System \/ BeginFollowed \/ BeginOther
  \/ (StartServer \/ Fault) /\ RowsFollow

=============================================================================
