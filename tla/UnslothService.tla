--------------------------- MODULE UnslothService ---------------------------
(* UnslothService and the training loop it keeps in the background.          *)
(*   src/art/unsloth/service.py   the service, its vLLM and its checkpoints  *)
(*   src/art/unsloth/train.py     the trainer's task and its two queues      *)
(* The trainer's task waits for rows in a nested event loop and computes     *)
(* without suspending: taking a row, the gradient step and the answer are    *)
(* one action.  A client's action goes from one await to the next.  Weights  *)
(* are reduced to the rows that were trained on, {} being the fresh LoRA.    *)
EXTENDS Integers, Sequences

CONSTANTS
  Setups,      \* a subset of {"shared", "dedicated", "merged"}: one set of
               \* GPUs for vLLM and training, or two with LoRA or merged
               \* rollout weights
  CallBound,   \* bound: calls of train and train_sft
  StartBound,  \* bound: services started after the first was closed
  MaxRows      \* bound: rows or batches of a call

ASSUME UnslothAssumption ==
  /\ Setups \subseteq {"shared", "dedicated", "merged"}
  /\ CallBound \in Nat /\ StartBound \in Nat /\ MaxRows \in Nat

VARIABLES
  setup,
  at, job, begun,       \* the client: where it is, its call, how many
  latestStep,           \* _latest_step
  closed, childFailed,  \* _lifecycle.closing, _child_processes._failure
  saved,                \* the checkpoints: for each step its weights
  built, trainer,       \* _state is there; its weights, whether they are
                        \* merged into the model and are on the GPU
  task, attached,       \* the background task; ctx.train_task refers to it
  warmup,               \* warmup_pending
  inputs, answers,      \* inputs_queue and results_queue,
  unfinished, orphans,  \* answers without task_done, abandoned gets
  runtime, names,       \* vLLM, and the weights behind each step it names
  learned, starts       \* history: the rows of calls that returned; a count

clientState == <<at, job, begun>>
serviceState == <<latestStep, closed, childFailed, saved>>
queueState == <<inputs, answers, unfinished, orphans>>
contextState == <<built, trainer, task, attached, warmup, queueState>>
runtimeState == <<runtime, names>>
unslothVars == <<setup, clientState, serviceState, contextState, runtimeState,
                 learned, starts>>

NoCallYet == [id |-> 0, kind |-> "sync", rows |-> 0, yielded |-> <<>>,
              failed |-> FALSE]
FreshTrainer == [weights |-> {}, merged |-> FALSE, onGpu |-> TRUE]

\* What is left of the served weights when sending them breaks off.
Torn == {<<-1, 0>>}

OneGpuSet == setup = "shared"

\* get_step_from_dir
NewestStep == CHOOSE s \in DOMAIN saved : \A t \in DOMAIN saved : t <= s

SavedAs(step, weights) ==
  [s \in DOMAIN saved \cup {step} |-> IF s = step THEN weights ELSE saved[s]]

UnslothInit ==
  /\ setup \in Setups
  /\ at = "new" /\ job = NoCallYet /\ begun = 0
  /\ latestStep = 0 /\ closed = FALSE /\ childFailed = FALSE /\ saved = <<>>
  /\ built = FALSE /\ trainer = FreshTrainer
  /\ task = "none" /\ attached = FALSE /\ warmup = TRUE
  /\ inputs = <<>> /\ answers = <<>> /\ unfinished = 0 /\ orphans = 0
  /\ runtime = "down" /\ names = <<>> /\ learned = {} /\ starts = 0

-----------------------------------------------------------------------------
(* The trainer's task: train() around trainer.train().                       *)

\* What is in the queues: a call's row, a row to warm up with, the sentinel.
Warming(i) == <<0, i>>
Stop == <<0, 0>>

TaskTakes == task = "waiting" /\ inputs # <<>> /\ inputs' = Tail(inputs)

\* StopTrainingLoop
TaskStops ==
  /\ TaskTakes /\ Head(inputs) = Stop
  /\ task' = "done"
  /\ UNCHANGED <<setup, clientState, serviceState, built, trainer, attached,
                 warmup, answers, unfinished, orphans, runtimeState, learned,
                 starts>>

\* compute_loss and the optimizer's step, then log() puts the answer.  The
\* learning rate of a warm-up is next to nothing.
TaskTrains ==
  /\ TaskTakes /\ Head(inputs) # Stop
  /\ trainer' = [trainer EXCEPT !.weights =
                   @ \cup (IF Head(inputs)[1] = 0 THEN {} ELSE {Head(inputs)})]
  /\ answers' = Append(answers, Head(inputs)) /\ unfinished' = unfinished + 1
  /\ UNCHANGED <<setup, clientState, serviceState, built, task, attached,
                 warmup, orphans, runtimeState, learned, starts>>

\* An error on the way, such as running out of memory, ends the task.
TaskRaises ==
  /\ TaskTakes /\ Head(inputs) # Stop
  /\ task' = "raised"
  /\ UNCHANGED <<setup, clientState, serviceState, built, trainer, attached,
                 warmup, answers, unfinished, orphans, runtimeState, learned,
                 starts>>

\* asyncio.wait leaves the get() of a cancelled call behind, and it takes an
\* answer that nobody looks at.
OrphanTakes ==
  /\ orphans > 0 /\ answers # <<>>
  /\ orphans' = orphans - 1 /\ answers' = Tail(answers)
  /\ UNCHANGED <<setup, clientState, serviceState, built, trainer, task,
                 attached, warmup, inputs, unfinished, runtimeState, learned,
                 starts>>

-----------------------------------------------------------------------------
(* Closing and starting.                                                     *)

\* Where the client is suspended and other tasks run.
Suspended == {"boot", "transfer", "sleep", "join", "wait", "cool", "yield",
              "wake", "load", "pause", "begin", "send", "finish",
              "rename", "resume", "register", "stopping"}

\* close()
Closes == closed' = TRUE /\ runtime' = "down" /\ names' = <<>>

\* The call is over, by an exception unless it has published its step.
CallOver == at' = "idle" /\ job' = NoCallYet

\* aclose() with a task that runs puts the sentinel and waits for its end.
StopTask ==
  /\ at = "aclose" /\ attached /\ task = "waiting"
  /\ at' = "stopping" /\ attached' = FALSE /\ inputs' = Append(inputs, Stop)
  /\ UNCHANGED <<setup, job, begun, serviceState, built, trainer, task, warmup,
                 answers, unfinished, orphans, runtimeState, learned, starts>>

\* Without one, or once it has stopped or 5 s are over, the service is closed.
CloseService ==
  /\ \/ at = "aclose" /\ ~(attached /\ task = "waiting")
     \/ at = "stopping" /\ task # "raised"
  /\ CallOver /\ Closes /\ attached' = FALSE
  /\ UNCHANGED <<setup, begun, latestStep, childFailed, saved, built, trainer,
                 task, warmup, queueState, learned, starts>>

\* stop_background_training catches time-outs only: an error of the task goes
\* through aclose() before it has closed anything.
CloseBreaksOff ==
  /\ at = "stopping" /\ task = "raised"
  /\ CallOver
  /\ UNCHANGED <<setup, begun, serviceState, contextState, runtimeState,
                 learned, starts>>

\* LocalBackend.close
BackendCloses ==
  /\ at = "idle" /\ ~closed
  /\ at' = "aclose"
  /\ UNCHANGED <<setup, job, begun, serviceState, contextState, runtimeState,
                 learned, starts>>

\* vLLM exits, and its watcher closes the service.
RuntimeExits ==
  /\ runtime # "down" /\ at \in Suspended \cup {"idle"}
  /\ Closes /\ childFailed' = TRUE
  /\ UNCHANGED <<setup, clientState, latestStep, saved, contextState, learned,
                 starts>>

\* A new service for the same model, in a new process.
StartAgain ==
  /\ closed /\ at = "idle" /\ starts < StartBound
  /\ at' = "new" /\ starts' = starts + 1
  /\ latestStep' = 0 /\ closed' = FALSE /\ childFailed' = FALSE
  /\ built' = FALSE /\ trainer' = FreshTrainer
  /\ task' = "none" /\ attached' = FALSE /\ warmup' = TRUE
  /\ inputs' = <<>> /\ answers' = <<>> /\ unfinished' = 0 /\ orphans' = 0
  /\ UNCHANGED <<setup, job, begun, saved, runtimeState, learned>>

\* _state: the context is built from the newest checkpoint when first used.
BuildContext(weights) ==
  /\ built' = TRUE
  /\ trainer' = IF built THEN trainer ELSE [FreshTrainer EXCEPT !.weights = weights]

\* start_openai_server up to the start of vLLM: step 0 is saved if there is
\* none, and a shared GPU is left to vLLM.
StartService ==
  /\ at = "new"
  /\ at' = "boot"
  /\ saved' = IF DOMAIN saved = {} THEN SavedAs(0, {}) ELSE saved
  /\ latestStep' = NewestStep'
  /\ IF OneGpuSet
     THEN built' = TRUE /\ trainer' = [FreshTrainer EXCEPT !.weights = saved'[latestStep'],
                                                           !.onGpu = FALSE]
     ELSE IF DOMAIN saved = {} THEN BuildContext({}) ELSE UNCHANGED <<built, trainer>>
  /\ UNCHANGED <<setup, job, begun, closed, childFailed, task, attached, warmup,
                 queueState, runtimeState, learned, starts>>

\* vLLM is healthy.  With merged weights it serves the base model until the
\* first sync.
RuntimeUp ==
  /\ at = "boot"
  /\ runtime' = "awake"
  /\ IF setup = "merged"
     THEN /\ at' = "transfer" /\ BuildContext(saved[NewestStep])
          /\ names' = [s \in {latestStep} |-> {}]
     ELSE /\ at' = "idle" /\ names' = [s \in {latestStep} |-> saved[s]]
          /\ UNCHANGED <<built, trainer>>
  /\ UNCHANGED <<setup, job, begun, serviceState, task, attached, warmup,
                 queueState, learned, starts>>

BootFails ==
  /\ at = "boot" /\ CallOver /\ Closes
  /\ UNCHANGED <<setup, begun, latestStep, childFailed, saved, contextState,
                 learned, starts>>

\* _init_merged_weight_transfer, then _sync_merged_weights without a pause.
TransferReady ==
  /\ at = "transfer" /\ ~closed
  /\ at' = "begin" /\ trainer' = [trainer EXCEPT !.merged = TRUE]
  /\ UNCHANGED <<setup, job, begun, serviceState, built, task, attached, warmup,
                 queueState, runtimeState, learned, starts>>

-----------------------------------------------------------------------------
(* A call.                                                                   *)

BeginTraining(kind) ==
  /\ at = "idle" /\ ~closed /\ begun < CallBound
  /\ at' = "pack"
  /\ job' = [NoCallYet EXCEPT !.id = begun + 1, !.kind = kind]
  /\ begun' = begun + 1
  /\ UNCHANGED <<setup, serviceState, contextState, runtimeState, learned, starts>>

\* service.train with n rows, or train_sft with n batches, which a service with
\* GPUs of its own refuses.
RowsHandedOver(n) ==
  /\ at = "pack"
  /\ job' = [job EXCEPT !.rows = n]
  /\ at' = IF OneGpuSet THEN "sleep" ELSE IF job.kind = "sft" THEN "aclose" ELSE "join"
  /\ IF OneGpuSet \/ job.kind = "sft" THEN UNCHANGED <<built, trainer>>
     ELSE BuildContext(saved[NewestStep])
  /\ UNCHANGED <<setup, begun, serviceState, task, attached, warmup, queueState,
                 runtimeState, learned, starts>>

\* _train_model without rows: the newest checkpoint is copied to the next step
\* and registered.
NoRows ==
  /\ at = "pack" /\ job.kind = "rl"
  /\ at' = "register" /\ job' = [job EXCEPT !.kind = "skip"]
  /\ saved' = SavedAs(NewestStep + 1, saved[NewestStep])
  /\ UNCHANGED <<setup, begun, latestStep, closed, childFailed, contextState,
                 runtimeState, learned, starts>>

\* _sleep_runtime, reload_to_gpu
PutToSleep ==
  /\ at = "sleep" /\ ~closed
  /\ at' = IF job.kind = "sft" THEN "feed" ELSE "join"
  /\ runtime' = "asleep" /\ trainer' = [trainer EXCEPT !.onGpu = TRUE]
  /\ UNCHANGED <<setup, job, begun, serviceState, built, task, attached, warmup,
                 queueState, names, learned, starts>>

\* results_queue.join(); the task is created if there is none.
Joined ==
  /\ at = "join" /\ unfinished = 0
  /\ at' = "feed" /\ attached' = TRUE
  /\ task' = IF attached THEN task ELSE "waiting"
  /\ UNCHANGED <<setup, job, begun, serviceState, built, trainer, warmup,
                 queueState, runtimeState, learned, starts>>

NextRow == Len(job.yielded) + 1
RowsLeft == NextRow <= job.rows
RowOf(i) == <<job.id, i>>

\* inputs_queue.put_nowait; before the very first row is a warm-up with it.
FeedRow ==
  /\ at = "feed" /\ job.kind = "rl" /\ RowsLeft
  /\ at' = "wait"
  /\ inputs' = Append(inputs, IF warmup THEN Warming(NextRow) ELSE RowOf(NextRow))
  /\ UNCHANGED <<setup, job, begun, serviceState, built, trainer, task, attached,
                 warmup, answers, unfinished, orphans, runtimeState, learned,
                 starts>>

TakeAnswer ==
  /\ at = "wait" /\ answers # <<>> /\ orphans = 0
  /\ answers' = Tail(answers) /\ unfinished' = unfinished - 1
  /\ UNCHANGED <<setup, begun, serviceState, built, trainer, task, attached,
                 inputs, orphans, runtimeState, learned, starts>>

\* Mutant: the warm-up's result is passed on as the row's.
MutWarmupOver ==
  /\ TakeAnswer /\ warmup
  /\ at' = "yield" /\ job' = [job EXCEPT !.yielded = Append(@, Head(answers))]
  /\ warmup' = FALSE

WarmupOver ==
  /\ TakeAnswer /\ warmup
  /\ at' = "cool"
  /\ UNCHANGED <<job, warmup>>

Answered ==
  /\ TakeAnswer /\ ~warmup
  /\ at' = "yield" /\ job' = [job EXCEPT !.yielded = Append(@, Head(answers))]
  /\ UNCHANGED warmup

\* After the sleep behind a warm-up, or once the consumer asks for more.
GoOn ==
  /\ at \in {"cool", "yield"}
  /\ at' = "feed" /\ warmup' = (warmup /\ at # "cool")
  /\ UNCHANGED <<setup, job, begun, serviceState, built, trainer, task, attached,
                 queueState, runtimeState, learned, starts>>

\* A batch of run_unsloth_sft_training.
SftBatchTrained ==
  /\ at = "feed" /\ job.kind = "sft" /\ RowsLeft
  /\ at' = "yield" /\ job' = [job EXCEPT !.yielded = Append(@, RowOf(NextRow))]
  /\ trainer' = [trainer EXCEPT !.weights = @ \cup {RowOf(NextRow)}]
  /\ UNCHANGED <<setup, begun, serviceState, built, task, attached, warmup,
                 queueState, runtimeState, learned, starts>>

\* Mutant: the model stays where it was trained.
MutSaveStep ==
  /\ at = "feed" /\ ~RowsLeft
  /\ saved' = SavedAs(NewestStep + 1, trainer.weights)
  /\ at' = CASE OneGpuSet -> "wake" [] setup = "merged" -> "pause" [] OTHER -> "load"
  /\ UNCHANGED <<setup, job, begun, latestStep, closed, childFailed, contextState,
                 runtimeState, learned, starts>>

\* save_checkpoint and, with one set of GPUs, offload_to_cpu.
SaveStep ==
  /\ at = "feed" /\ ~RowsLeft
  /\ saved' = SavedAs(NewestStep + 1, trainer.weights)
  /\ trainer' = [trainer EXCEPT !.onGpu = ~OneGpuSet]
  /\ at' = CASE OneGpuSet -> "wake" [] setup = "merged" -> "pause" [] OTHER -> "load"
  /\ UNCHANGED <<setup, job, begun, latestStep, closed, childFailed, built, task,
                 attached, warmup, queueState, runtimeState, learned, starts>>

\* _wake_runtime
WokenUp ==
  /\ at = "wake" /\ ~closed
  /\ at' = "load" /\ runtime' = "awake"
  /\ UNCHANGED <<setup, job, begun, serviceState, contextState, names, learned,
                 starts>>

Learns == learned' = learned \cup {RowOf(i) : i \in 1..job.rows}

\* _reload_adapter, for a call and for a registered copy.
AdapterReady ==
  /\ at = "load" \/ (at = "register" /\ setup # "merged")
  /\ ~closed
  /\ CallOver /\ Learns
  /\ latestStep' = NewestStep
  /\ names' = [s \in DOMAIN names \cup {NewestStep} |->
                 IF s = NewestStep THEN saved[s] ELSE names[s]]
  /\ UNCHANGED <<setup, begun, closed, childFailed, saved, contextState, runtime,
                 starts>>

\* _set_served_model_name: vLLM has one name, and what it serves keeps it.
Renamed(step) == [s \in {step} |-> names[CHOOSE n \in DOMAIN names : TRUE]]

\* register_lora_for_step with merged weights.
CopyNamed ==
  /\ at = "register" /\ setup = "merged" /\ ~closed
  /\ CallOver /\ latestStep' = NewestStep /\ names' = Renamed(NewestStep)
  /\ UNCHANGED <<setup, begun, closed, childFailed, saved, contextState, runtime,
                 learned, starts>>

-----------------------------------------------------------------------------
(* _sync_merged_weights.                                                     *)

Pausing == job.kind # "sync"

\* /pause returns, merge_adapter() runs and /start_weight_update is sent.
GenerationPaused ==
  /\ at = "pause" /\ ~closed
  /\ at' = "begin" /\ runtime' = "paused"
  /\ trainer' = [trainer EXCEPT !.merged = TRUE]
  /\ UNCHANGED <<setup, job, begun, serviceState, built, task, attached, warmup,
                 queueState, names, learned, starts>>

UpdateBegun ==
  /\ at = "begin" /\ ~closed
  /\ at' = "send"
  /\ UNCHANGED <<setup, job, begun, serviceState, contextState, runtimeState,
                 learned, starts>>

\* trainer_send_weights and /update_weights.
WeightsSent ==
  /\ at = "send" /\ ~closed
  /\ at' = "finish" /\ names' = [s \in DOMAIN names |-> trainer.weights]
  /\ UNCHANGED <<setup, job, begun, serviceState, contextState, runtime, learned,
                 starts>>

UpdateFinished ==
  /\ at = "finish" /\ ~closed
  /\ at' = "rename" /\ latestStep' = NewestStep
  /\ UNCHANGED <<setup, job, begun, closed, childFailed, saved, contextState,
                 runtimeState, learned, starts>>

\* Mutant: generation goes on and the weights keep the old name.
MutNameSet ==
  /\ at = "rename" /\ ~closed
  /\ trainer' = [trainer EXCEPT !.merged = FALSE]
  /\ IF Pausing THEN at' = "resume" /\ UNCHANGED <<job, learned, names>>
     ELSE CallOver /\ Learns /\ names' = Renamed(latestStep)
  /\ UNCHANGED <<setup, begun, serviceState, built, task, attached, warmup,
                 queueState, runtime, starts>>

\* The weights get their step's name, and unmerge_adapter() runs.
NameSet ==
  /\ at = "rename" /\ ~closed
  /\ names' = Renamed(latestStep)
  /\ trainer' = [trainer EXCEPT !.merged = FALSE]
  /\ IF Pausing THEN at' = "resume" /\ UNCHANGED <<job, learned>>
     ELSE CallOver /\ Learns
  /\ UNCHANGED <<setup, begun, serviceState, built, task, attached, warmup,
                 queueState, runtime, starts>>

\* /resume, after a failure too.
GenerationResumed ==
  /\ at = "resume" /\ ~closed
  /\ runtime' = "awake"
  /\ IF job.failed THEN at' = "aclose" /\ UNCHANGED <<job, learned>>
     ELSE CallOver /\ Learns
  /\ UNCHANGED <<setup, begun, serviceState, contextState, names, starts>>

Syncing == {"pause", "begin", "send", "finish", "rename"}

\* A request fails or the call is cancelled: the finally clause unmerges and
\* resumes.  The thread that sends may have sent a part.
SyncFails ==
  /\ at \in Syncing
  /\ trainer' = [trainer EXCEPT !.merged = FALSE]
  /\ names' \in {names} \cup (IF at = "send" /\ ~closed
                              THEN {[s \in DOMAIN names |-> Torn]} ELSE {})
  /\ IF Pausing THEN at' = "resume" /\ job' = [job EXCEPT !.failed = TRUE]
     ELSE at' = "aclose" /\ UNCHANGED job
  /\ UNCHANGED <<setup, begun, serviceState, built, task, attached, warmup,
                 queueState, runtime, learned, starts>>

-----------------------------------------------------------------------------
(* Failures of a call elsewhere.                                             *)

\* A request fails, or the call is cancelled.  A cancelled wait leaves its
\* get() behind.
CallBreaksOff ==
  /\ at \in {"transfer", "sleep", "join", "wait", "cool", "yield", "wake",
             "load", "resume"}
  /\ at' = "aclose"
  /\ orphans' = orphans + (IF at = "wait" THEN 1 ELSE 0)
  /\ UNCHANGED <<setup, job, begun, serviceState, built, trainer, task, attached,
                 warmup, inputs, answers, unfinished, runtimeState, learned, starts>>

\* What fails outside service.train does not close the service.
RegisterFails ==
  /\ at = "register"
  /\ CallOver
  /\ UNCHANGED <<setup, begun, serviceState, contextState, runtimeState, learned,
                 starts>>

\* "The training task should never finish."
TaskEnded ==
  /\ at = "wait" /\ task # "waiting"
  /\ at' = "aclose"
  /\ UNCHANGED <<setup, job, begun, serviceState, contextState, runtimeState,
                 learned, starts>>

-----------------------------------------------------------------------------

TaskStep == TaskStops \/ TaskTrains \/ OrphanTakes

ClientStep ==
  \/ StopTask \/ CloseService \/ CloseBreaksOff \/ RuntimeUp \/ TransferReady
  \/ PutToSleep \/ Joined \/ FeedRow \/ WarmupOver \/ Answered \/ GoOn
  \/ SftBatchTrained \/ SaveStep \/ WokenUp \/ AdapterReady \/ CopyNamed
  \/ GenerationPaused \/ UpdateBegun \/ WeightsSent \/ UpdateFinished \/ NameSet
  \/ GenerationResumed \/ TaskEnded

\* A request to vLLM that is not answered fails or times out.
RequestFails ==
  \/ SyncFails \/ RegisterFails \/ BootFails
  \/ at \in {"transfer", "sleep", "wake", "load", "resume"} /\ CallBreaksOff

\* The caller cancels the call or closes its generator.
CallerLeaves == at \in {"join", "wait", "cool", "yield"} /\ CallBreaksOff

Disturbance == CallerLeaves \/ TaskRaises \/ BackendCloses \/ RuntimeExits \/ StartAgain

UnslothNext ==
  \/ StartService \/ BeginTraining("rl") \/ BeginTraining("sft")
  \/ (\E n \in 1..MaxRows : RowsHandedOver(n)) \/ NoRows
  \/ TaskStep \/ ClientStep \/ RequestFails \/ Disturbance

UnslothSpec == UnslothInit /\ [][UnslothNext]_unslothVars

-----------------------------------------------------------------------------
(* Properties.                                                               *)

\* With one set of GPUs the model is never on them while vLLM is awake, however
\* a call ends (_train_shared, offload_to_cpu, aclose).
GpuHandedOver == OneGpuSet /\ runtime = "awake" /\ built => ~trainer.onGpu

\* A call passes on one result for each of its rows, in order and its own: no
\* warm-up and nothing a call before it left in the queues; and the checkpoint
\* it saves has every row in it.
OneResultPerRow ==
  /\ job.yielded = [i \in 1..Len(job.yielded) |-> RowOf(i)]
  /\ \A i \in 1..Len(job.yielded) : RowOf(i) \in trainer.weights
  /\ at \in {"wake", "load"} \cup Syncing /\ job.kind \in {"rl", "sft"} =>
       {RowOf(i) : i \in 1..job.rows} \subseteq saved[NewestStep]

\* Outside start-up and until its call has failed, vLLM generates with the
\* weights of the step it names: never with the old name on new weights or with
\* half an update.  Between calls an open service is awake, serves the step it
\* announces, with all the training that was ever reported done, and the next
\* call goes on from the newest checkpoint; unless the training task failed,
\* see CloseBreaksOff.
ServesItsSteps ==
  /\ runtime = "awake" /\ job.id # 0 /\ ~job.failed /\ at \notin {"aclose", "stopping"}
       => \A s \in DOMAIN names : names[s] = saved[s]
  /\ at = "idle" /\ ~closed /\ task # "raised" =>
       /\ runtime = "awake" /\ latestStep \in DOMAIN names
       /\ learned \subseteq names[latestStep]
       /\ \A s \in DOMAIN names : names[s] = saved[s]
       /\ built => trainer.weights = saved[NewestStep] /\ ~trainer.merged

=============================================================================
