# A TLA+ development of ART

ART trains language-model agents by reinforcement learning.  A trainer rolls
out trajectories with the newest policy, trains on them, publishes the next
policy and evaluates some of the steps, all at the same time; behind it,
backends keep checkpoints, serve adapters and talk to processes and servers,
and a Megatron worker of several ranks computes the gradient steps.  This
directory models the parts where that concurrency lives and the planning
algorithms the ranks share, checks them with TLC on small instances and proves
the main results with TLAPS for all sizes.

Source paths below are those of the repository; `trainer.py` is
`src/art/pipeline_trainer/trainer.py`, `move.py` is `src/mp_actors/move.py`,
and `gdn/`, `service.py`, `train.py`, `routing_replay.py` without a directory
are under `src/art/megatron/`.

## 1. Inventory

`PROJECT.json` lists every component with its files and status.  What matters
for a model:

| Component | State | Operations | Hard because | Correct when |
|---|---|---|---|---|
| Pipeline trainer (`pipeline_trainer/`) | `PipelineState`, output queue, eval queue, lease counts, scheduled evals | workers, `_training_stage`, `_eval_stage`, `request_stop` | many asyncio tasks share the state across every await; bounded queue; stop at any time | data is never too old, no scenario lost or used twice, leases exact, evals run, `train()` ends |
| Stored state (`model.py`) | `state.json`, the newest checkpoint | read, merge, overwrite | crash between saving a checkpoint, writing the file and publishing | a resumed run continues where the last one was, up to a bounded loss |
| Local backend (`local/`) | checkpoint directories, adapters vLLM serves, leases | `train`, prune, delete | deletion while rollouts and evals use what is deleted | what is in use stays loaded and on disk |
| Unsloth service and trainer (`unsloth/service.py`, `unsloth/train.py`) | `_latest_step`, the train context with its task and two queues, vLLM | start, train, train_sft, register, aclose, close | GPUs handed to and fro; a background task fed through queues that outlive a call; weights pushed into a running vLLM; callers that leave | one owner of the GPUs, one result per row, vLLM serves the step it names |
| Process proxy (`mp_actors/move.py`) | futures, two queues, `_closing`, `_dead_process_error` | call, dispatch, close | real threads, a child that dies, flags set outside the lock | every call ends, with the answer to its own request |
| Packing (`preprocessing/`) | results, packed rows | tokenize a group, pack, shuffle | writer and parser of a row share no code | rows read back as the trajectories they came from |
| GDN plan (`gdn/gdn_shared_prefix.py`) | ownership of segments, buffers, transfers | three planners, chain sharding | one plan has to be right for every rank and every cut of a row | buffers sorted and without holes |
| GDN pass (`gdn/operator.py`) | tables of prefix states, outputs | local prefixes, chains, state exchange, remote completions | order of passes and collectives over ranks | each token sees its own context, whatever the cut |
| GDN layouts (`gdn/layout.py`, `gdn/operator.py`) | exchange plans, the rows of each rank | exchange, reverse, enter and leave a run of GDN layers | the same way back for recomputation and gradients, the local short cut | every layer runs on the rows of its layout |
| Gradient steps, routing replay (`train.py`, `routing_replay.py`) | step, micro-batch, cursors of recorded routes | set_step, micro-batch, recompute, finalize_step | dummies, replicas, recomputation in reverse order | each row counts once and gets its own routes |
| Megatron service, jobs and worker (`service.py`, `runtime/`, `train.py`, `weights/`) | job file, rows on disk, log, shards, wake lock, checkpoint directories, vLLM | start, train, train_sft, sync, close | two programs that only share a directory; ranks at barriers; children that die; awaits that fail | each job trains on its own rows and merges its own shards, GPUs have one owner, what is served is the latest |
| Adapter on the ranks (`lora.py`, `training/finalize_grads.py`, `weights/merge.py`) | LoRA parameters and gradients of each rank, shard and manifest files | load, reduce, save, merge | four groupings of the same ranks, layers that are cut differently, files that a crash leaves for a worker of another size | replicas get the whole gradient, the merged adapter has every entry where it belongs |
| Tinker server (`tinker/server.py`) | sampling clients, slots, one lock per model | chat, logprobs, load | slots held across awaits, requests that share a lock | no slot leaks, no request waits for ever |
| Native Tinker backend (`tinker_native/backend.py`) | its step, the checkpoints on the server | `train`, `_build_model_state` | weights, checkpoint and step move in separate requests, most steps have no checkpoint | a restart loses what lies between two evals at most |
| Prefix cache (`tinker/prefix_cache.py`) | radix trie with LRU order | lookup, insert, evict | node splits and pruning | behaves as a bounded map |

Interaction: the trainer calls its backend (`train`, `_prune_model_adapters`,
`_run_checkpoint_retention`); the backend calls its service, which in
shared mode lives behind the process proxy unless `in_process` is set
(`local/backend.py:441`) and in dedicated mode in the same process; the service
calls vLLM over HTTP, and the Megatron service its worker through files.  The
trainer's tasks interact through the output queue, the eval queue, the
condition `policy_updated` and the fields of `PipelineState`.

`hazards` in `PROJECT.json` lists, line by line, what a test of this code hardly
reaches; most properties here come from that list.

## 2. Modules

| Module | What it is |
|---|---|
| `PipelineTrainer` | one call of `PipelineTrainer.train` |
| `OffPolicyTraining`, `PipelineRefinement` | what it promises of its training data: the abstract specification, and the mapping |
| `PipelineResume` | `train()` over several processes: crashes, restarts, the stored state |
| `PipelineAdapters` | the trainer composed with its LocalBackend |
| `ProxyRpc` | the proxy of an object in a child process |
| `RemoteCalls`, `ProxyRefinement` | what a proxy promises its callers, and the mapping |
| `PackedRows` | from trajectories to packed rows and back to segments |
| `GdnPlan` | the plan of the context-parallel ranks over a row's segments; extends `PackedRows` |
| `GdnExecution` | the pass the ranks run from that plan; extends `GdnPlan` |
| `GdnLayers` | the rows on their way through attention and GDN layers and back; extends `GdnExecution` |
| `TrainingSteps` | the gradient steps of a job and the replay of routes; extends `GdnLayers` |
| `MegatronJobs` | the service, the worker's ranks and the files between them |
| `MegatronTraining` | the composition of the last two: a Megatron training call end to end |
| `UnslothService` | the Unsloth service and its background trainer |
| `LocalTraining` | `LocalBackend`'s training of a model by either service: `MegatronTraining` beside `UnslothService` fed by `PackedRows` |
| `AdapterShards` | the adapter on the ranks of the worker: cut, trained, saved in shards and merged, by workers of changing topologies |
| `PrefixTrie` | the prefix cache's trie, as operators |
| `PrefixMap` | a bounded list of rewrites: the abstract specification of the cache |
| `TinkerServer` | the requests of one tenant, over `PrefixTrie` |
| `...Proofs` | theorems and proofs: the trainer, its refinement and its backends (`PipelineProofs`), the proxy, the jobs, the packed rows, the plan and the layers, the training of the local backend, the adapter's shards, tinker |
| `MC...` | the modules TLC runs: small batches, jobs, a tokenizer, the symmetry of the workers |

### PipelineTrainer

All tasks share one asyncio event loop, so the code between two awaits that can
suspend is one action.  A blocking `get()` on a non-empty queue does not
suspend: once the training stage takes an item it keeps the loop until the
queue is empty or the batch complete.  The predicate `Yielded` keeps other tasks
out meanwhile (and after an exception has cancelled the TaskGroup).

| State | Code |
|---|---|
| `done` ... `completed_eval_steps` | the fields of `PipelineState` |
| `persisted` | the last `_persist_state` |
| `output_queue`, `eval_queue`, `lease_counts`, `scheduled_eval_steps`, `discard_count` | fields of `PipelineTrainer` |
| `worker` | per worker task: the await it is at, its scenario, `initial_version`, its group |
| `rstage`, `stop_tasks` | `_rollout_stage` after its workers; the tasks `request_stop` creates |
| `tpc`, `current_step`, `stop_at_step`, `batch`, `saw_sentinel`, `should_eval` | the locals of `_training_stage` and `_collect_batch` |
| `epc`, `eval_next`, `etask` | the locals of `_eval_stage`, its `_run_eval` task |
| `fate` | history: what became of each scenario; no action reads it |

Actions of a worker: `TakeScenario`, `ScenariosExhausted`, `WaitForPolicy`,
`GiveUpScenario`, `StartRollout`, `RolloutFails`, `RolloutReturns`, `PutGroup`,
`PutTimesOut`.  Training stage: `BeginCollect`, one `Collect...` action per way
an item is treated, `BeginTrain`, `TrainReturns`, `AdaptersPruned`,
`RetentionRan`, `StepLogged`, `TrainingRaises`, `FinishTraining`.  Eval stage:
`EvalStageTakes`, `EvalStageCreates`, `EvalStageLeaves`, `EvalStageEnds` and the
`_run_eval` task `EvalStarts`, `EvalReturns`, `EvalCompletes`, `EvalFails`.
Stop: `RequestStop`, `StopNotifies`, `StopPuts`.

Data is abstracted to what the pipeline tells apart: a group is its scenario,
its oldest version and one of four kinds (trainable, zero variance, empty, all
failed).  `Environment` says which failures an instance allows.

### PipelineResume

Extends `PipelineTrainer` by its backend and by what survives a process.
`LocalBackend` saves a checkpoint as part of every step (`LocalSaves`).  The
native Tinker backend steps the weights on its server (`NativeSteps`), saves a
state to train on from only when the trainer asks, which is when it will
evaluate (`NativeSaves`), and then advances its step (`NativeAdvances`).
`backend` is the step in memory and `saved` that of the newest checkpoint.

`state_json` is what the file holds; `persisted` is what this run's trainer last
put there.  They differ by what an eval of an earlier run stored: `_run_eval` is a
task of its own (677), no member of `train()`'s TaskGroup, so when a stage raises
the group cancels the eval stage at its queue, but not the eval.  A `train()` called
again in the same process, by a new trainer, runs beside it (`Outlives`), and when
it completes it stores the old trainer's offset, step and list
(`OutlivedCompletes`; `OutlivedFails` if it raises or ends with its event loop).
The file is torn if the process died between the `open` that
truncates it and the end of `json.dump` (`DiesWhileStoring`, `torn`).
`NextRun(FALSE)` may happen in every state: the process dies and a new one calls
`train()`; `NextRun(TRUE)` calls it again in the same process after it returned or
raised, also half-way through `backend.train`.  It reads the file, takes the
backend's step whatever the file says (`StartStep`), skips `scenario_offset`
scenarios and resets the rest.  A truncated file makes every further call raise
(`StateUnreadable`).  `times`, `kept`, `lost`, `evaluated` and `misled` (a run has
resumed from what an eval of an earlier run had stored) are history.  This
is `resume=True` and `save_checkpoint=True`.

### PipelineAdapters

Extends `PipelineTrainer` and gives its three backend steps a body: the backend
saves the next checkpoint directory (`CheckpointSaved`), vLLM reloads
(`AdapterReloaded`), `train` returns the step it reads back from the directories
and pruning is decided in the same step (`TrainReturnsStep`), adapters are
unloaded one HTTP call at a time (`AdapterUnloaded`), directories are deleted
without suspending (`CheckpointRetention`).  The retention strategy is the
user's, so the model keeps any subset of the eligible checkpoints.  This is the
dedicated mode with LoRA rollouts.

### ProxyRpc

Real threads: an action is one access to what they share.  A caller tests the
flags under the lock (`Lock`), registers its future (`Register`), puts its
request (`PutRequest`, `PutRefused`), wakes or is cancelled (`Wakes`, `Cancel`).
An async generator comes back for its next item with the same id.  The child
takes requests and answers them in any order, loses a response, or dies, and
then whatever its queue's feeder thread had not written is gone.  The dispatcher
gets a response, pops the future under the lock and resolves it outside; on a
timeout it tests `_closing`, probes the child and fails the pending calls in
three steps.  `close()` sets the flag, fails the pending calls, kills the child
and closes the queues.  `served`, `answered` and `lost` are history.

### PackedRows, GdnPlan, GdnExecution, GdnLayers, TrainingSteps

Five modules, each extending the one before, follow the rows of a training call
through the code of one rank process.

`PackedRows`: `TokenizeGroup` keeps the trajectories with something to train on
and finds the prompt a group shares, `DropTooLong` and `PackResult` fill the
rows, `RowsShuffled` shuffles them; the parser reads a row back, one segment a
step (`ReadPrefix`, `ReadCompletion`, `RowRejected`).  Prompt ids and group ids
are random 63-bit numbers in the code and taken as distinct.

`GdnPlan`: every rank computes the same plan from the same segments, so one
planner stands for all.  `BeginFamilies`, `AssignFamily`, `MoveBundle` are the
planner that keeps families together and then moves bundles while that improves
the score; `BeginSegments`, `PlaceChained`, `PlaceLocal` the one that places
segments by load, cuts long ones into a chain over the ranks and records the
prefix states to transfer.  Which candidate schedule wins depends on the costs
of `GdnPlannerConfig`; the model lets any of them win.

`GdnExecution`: the forward pass over the ranks.  A recurrent state is reduced
to the set of tokens it has absorbed and an output to the set its token saw, so
"the right output" is a statement about sets.  A rank advances alone through its
local prefixes and completions (`RunPrefixes`, `RunReady`, `RunRemote`) and all
together through the collectives (`ScatterTokens`, `RunChainPrefixes`,
`RunChainCompletions`, `ExchangeStates`, `GatherOutputs`).  One pass stands for
what the GDN layers of a model compute.

`GdnLayers`: how the rows reach those layers.  An attention layer holds a
micro-batch's tokens as the attention layout has them, a GDN layer as the plan
has them, and runs of GDN layers stay in the plan's layout
(`_gdn_island_layer_forward`).  `LayerForward` is one layer on all ranks with the
exchange before and after it, `LayerBackward` its recomputation from the input
it had and then the gradients' way back by the reverse plans.  A row is the token
it holds.  The mark of the layout that the attention state carries is left out:
each layer sets it before it is read.  A wrong number of rows, for which the code
raises, violates `LayersGetTheirRows`.

`TrainingSteps`: `BeginStep` loads the step's recorded routes, `BeginMicro`
picks the row or the dummy of a micro-batch, `RouterCalled` replays a route and
is also called in recomputation, layer by layer backwards, `OptimizerStep` ends
the step and tests that every route was used.

### MegatronJobs

The service's coroutine runs from await to await, and where it touches files the
worker reads it is cut at each file operation.

| State | Code |
|---|---|
| `pc`, `call`, `calls` | the one call under way (`train`, `train_sft`, `start_openai_server`'s sync, or registering a copied checkpoint) |
| `latest`, `closing`, `failed` | `_latest_step`, the lifecycle |
| `dirs`, `ckpt`, `shards` | checkpoint directories, the adapters in them, the shards ranks saved |
| `jobFile`, `reported`, `lock`, `tensors` | the jobs directory, the log, the wake lock, the packed rows on disk |
| `worker`, `rank` | the worker process and where each rank is in its loop |
| `vllm`, `served` | the runtime and the weights it serves |
| `returned` | history: the calls that returned |

Weights are the set of the calls that went into them.  Client: `StartServer`,
`BeginCall`, `RowsPacked`, `NothingToTrain`, `AfterEnsure`, `WorkerSpawned`,
`Slept`, `Prepare`, `OpenJobFile`, `WriteJobFile`, `StreamSeesDone`,
`MergeInPlace`, `MakeTargetDir`, `FillTargetDir`, `TakeWakeLock`, `Awoken`,
`AdapterLoaded`.  Ranks: `RankStarts` (the model is built on the GPUs and taken off
them by a first `after_job`), `LoopBarrier`, `RankLooks`, `RankReady`, `RankLoads`,
`RanksRun`, `RankSaves`, `RanksPush`, `RankOffloads`, `FinalizeBarrier`,
`RemoveJobFile`, `RemoveRows`, `ReportDone`.  Faults: an await that fails
(`CallRaises`), a child that fails and the supervisor that then closes
(`CallFails`, `SupervisorCloses`, `VllmExits`, `WorkerDies`), a rank that waits
for one that left (`CollectiveTimesOut`), `Restart` after a close, and `Kill` of
the service's process.

`MegatronTraining` composes it with `TrainingSteps`: the ranks of the worker are
the context-parallel ranks of the GDN layers, the rows a first RL call packs are
the ones the job trains on, and a job ends when its steps are done.  What is
wrong with the rows ends the worker; a worker that dies leaves the rows
unfinished.  Of later calls only the job is followed.

### UnslothService, LocalTraining

`UnslothService` has two processes of one event loop.  The client is the
coroutine of `start_openai_server`, `train` or `train_sft`, from await to await:
`StartService`, `RuntimeUp`, `TransferReady`; `BeginTraining`, `RowsHandedOver`,
`PutToSleep`, `Joined`, `FeedRow`, `TakeAnswer` (`WarmupOver` or `Answered`),
`GoOn`, `SftBatchTrained`, `SaveStep`, `WokenUp`, `AdapterReady`; the sync of
merged weights, `GenerationPaused`, `UpdateBegun`, `WeightsSent`,
`UpdateFinished`, `NameSet`, `GenerationResumed`; `NoRows` and `CopyNamed` for a
call without data; and `StopTask`, `CloseService` for `aclose`.  The trainer's
task blocks in a nested event loop until a row comes and computes without
suspending, so `TaskTrains` takes the row, makes the step and puts the answer.

| State | Code |
|---|---|
| `at`, `job`, `begun` | the client's await, its call with what it has yielded |
| `latestStep`, `closed`, `childFailed` | `_latest_step`, `_lifecycle`, `_child_processes` |
| `saved` | the checkpoint directories |
| `built`, `trainer`, `task`, `attached`, `warmup` | the cached `_state`: weights, whether merged and where, `train_task`, `warmup_pending` |
| `inputs`, `answers`, `unfinished`, `orphans` | the two queues, the count `join()` waits for, abandoned `get()`s |
| `runtime`, `names` | vLLM, and the weights behind each step it names |
| `learned` | history: the rows of calls that returned |

Weights are the set of rows that went into them.  What goes wrong: a request
fails or times out at any await (`CallBreaksOff`, `SyncFails`, `RegisterFails`,
`BootFails`), the caller cancels or drops the generator (`CallerLeaves`), the
trainer raises (`TaskRaises`, `TaskEnded`), vLLM exits (`RuntimeExits`), and a
closed service is started again from its checkpoints (`StartAgain`).

`LocalTraining` chooses one of the services at the start.  `_train_model` packs
the rows of a first call by the actions of `PackedRows`, and gives them to the
service as a Megatron job or row by row; without rows it copies the checkpoint.
`Visible` is the attention mask that Unsloth's trainer makes from group and
parent ids (`calculate_mask`).

### AdapterShards

What `MegatronJobs` takes as one shard per rank, in detail.  A parameter is one
side of the LoRA of a layer (and expert), as long as the axis it may be sharded
on.  `LayerKinds` has one layer of each way to shard: row- and column-parallel,
GDN's input with its components, and the experts' layers, which are cut over
the expert-tensor-parallel ranks instead.  An entry is the set of jobs that trained
it, each with the feature of the base layer the rank used it for.

A job is `LoadAdapter`, `Backward`, `ReduceReplicas` (Megatron's
`finalize_model_grads`), `ReduceDomains` (the rest of
`finalize_model_grads_extended`), `OptimizerStep`, then each rank's `SaveShard`
and `SaveManifest`, and after the barrier the client's `MergeAdapter` or
`MergeRaises`, and `Unlink` file by file.  `Down` may come at any point, and
`StartWorker` brings up a worker of any of the `Topologies`.  A gradient is the
parts it is the sum of: the tokens of each replica and, for a parameter that is
not sharded, what comes back through each shard of the other side.  Megatron's
groups of ranks and `Tensor.narrow` are external.  A merge is one step here;
what a kill within it does is followed by `MegatronJobs`.

### TinkerServer

`Arrive` starts the shared loading of a sampling client or waits for it
(`LoadEnds`), `Render` renders the prompt and rewrites it from the cache,
`Enter`, `SlotGranted` and `Leave` are the context manager that gives a model's
requests one slot between them, `Sampled` and `SampleFails` end the request and
remember what was sampled for the next turn.  The trie operations are those of
`PrefixTrie`, shown to implement `PrefixMap` by the run.  The tokenizer is a
pair of constants with two properties: decoding distributes over
concatenation, and decoding what was encoded gives the text.

## 3. Runs

| Run | Bounds | Shows |
|---|---|---|
| `pipe_rollouts` | 2 workers, 3 scenarios, queue 2, batches of 1 to 2, off-policy limit 0, all kinds of group, stop, failing rollouts and training, steps without data | `OffPolicyBound`, exact leases, every scenario in one place and none dropped early, no lost wake-up, and `ImplementsOffPolicyTraining` |
| `pipe_evals` | `MCPipelineResume`: both backends, 1 worker, 5 scenarios, evals at the start and every second step, failing training, 1 restart at any point, in a new process or in the same one; 2 restarts and 2 scenarios where an eval of the failed run goes on | scheduled evals all run; versions agree with the backend, what a restart trains twice or loses is bounded, completed evals are remembered |
| `pipe_returns` | 2 workers, 3 scenarios, batches of 1 to 2, queue 1, evals at the start and after every step, failing evals, stop, no `max_steps`, fairness | scheduled evals are the pending ones; `train()` returns |
| `pipe_hang` | 1 worker, 2 scenarios, queue 1, `max_steps` 1, fairness | finding 1 |
| `adapters_kept` | 2 workers, 3 scenarios, so 3 steps, evals, stop, off-policy limit 1 | adapters of rollouts and the default target, and needed checkpoints survive pruning and retention |
| `adapters_eval` | 1 worker, 3 scenarios, off-policy limit 0 | finding 2 |
| `proxy_calls` | a plain call and a generator with one item; every failure; fairness | no orphaned call, `ImplementsRemoteCalls`, every call ends |
| `training` | 2 services in 3 modes, 2 ranks, 2 calls, 1 restart, rows of 7 tokens, chunks of 2, 2 routers, 4 layers, 8 jobs | rows read back, outputs right, every layer on its own rows, rows counted once, routes their own, exclusive GPUs, own rows and shards, what is served is the latest, no training lost, one result per row, tokens see their own trajectory, every call ends |
| `gdn_tail` | the rows of the same batches, one at a time | finding 3 |
| `adapter_shards` | 7 topologies of 1 to 4 ranks, 5 layers, 4 experts, 2 jobs, 2 starts of the worker, both modes | gradients whole, every entry of the merged adapter trained for its feature, only leftovers of another world size prevent a merge |
| `fused_shards` | the fused layer, 1 or 2 ranks, 2 experts, 1 job | finding 4 |
| `tinker` | 2 chats and a scorer, 2 models, 1 slot, a cache of 2, 4 requests, fairness | prompts keep their text, slots exact, the trie implements `PrefixMap`, requests end |

Why the bounds are enough.  Two workers are the least that race for the queue
and the policy.  With an off-policy limit of 0 and a queue of two, three
scenarios already give a stale group, a full queue, a worker that waits for a
policy and one that waits for room, in one behaviour.  A batch of one to two has
partial and full batches, and a discard limit of 2 reaches collapse with a group
in the batch.  Three steps with a window of 1 is the first length at which an
adapter is pruned while a rollout that started before it still needs it.  One
restart is enough for what is stored to be read.  Only where an eval of a failed run
stores its trainer's state over it does a second differ, as it reads that: TLC
explores two restarts there (`Explored`), with two scenarios, as that eval may end at
any moment of the next run.  Without their premises the last clause of `StepsAgree`
and `EvalsRemembered` are violated in this run; `RetrainingBounded` needs three
scenarios for that, and holds with them as it is stated (an instance of three
scenarios, two restarts and failing evals has 9.6 million states, too many for this
run).  An eval every second step leaves a step without a
checkpoint, and five scenarios are one more than a restart may lose.  In the proxy a generator is needed because its
items share an id, and a plain call because it races the generator for the
lock; one item makes two requests under one id (the item, then the end).

In `training` two ranks are the least that own parts of one row.  The batches of
`MCGdnExecution` were chosen for the cases of the code: a prompt of whole chunks
and one that ends within a chunk, results that share a row and results that do
not, a result too long for a row, no common prompt, nothing to train on.  The
jobs of `MCMegatronTraining` add two gradient steps, dummies at the end of the
last, and traces of one and of two replicas; they are divided among the three
modes because what the ranks compute does not depend on the mode.  The layers
are two GDN layers, an attention layer and a GDN layer: a run of GDN layers that
begins at the first layer, one that ends at the last, one of two layers and one
of one.  Two calls are
what it takes for one call's files to be found by another, and one restart for a
new service to find what the last one left.  With the Unsloth service the first
call has the rows of a batch, one to three, and the second one row: enough for
the warm-up, a row after a row, and a call that meets what another left in the
queues.  `MaxKills` is 0 in the run: see
section 4.  In `adapter_shards` the topologies are
the default one of two GPUs and those of the oracle harness in
`tests/integration/megatron/model_support`: each of the four ways to divide ranks
occurs with and without the others.  Four experts give a rank at least two, which is
what the code expects of an MoE layer, and two jobs under two topologies are a
cut, a merge and another cut.  In `tinker` one slot and two models make requests wait for each
other's slot and lock, the scorer takes the path without rewriting, and with two
entries the third insertion evicts.

The theorems remove these bounds where they apply.  `StepBound`, `MaxRestarts`,
`MaxCalls`, `MaxKills`, `MaxRequests`, `CallBound`, `StartBound`, `MaxRows`, `MaxJobs`
and `MaxStarts` bound behaviours.  `StepBound` caps the
steps the trainer trains; in the runs it is above what the scenarios allow, so
it cuts nothing off.

Deadlock is checked where the system must not stop (`pipe_evals`,
`pipe_returns`, `adapters_kept`, `adapters_eval`): a returned `train()` stutters
in `Returned`, so a deadlock would be a suspended trainer.  `pipe_rollouts`
turns it off: with collapse among its outcomes the trainer may stop taking while
the rollout stage waits in `put(None)`, the hang of finding 1; `pipe_returns`
has a discard limit its scenarios cannot reach for the same reason.  The proxy
run turns it off because a closed proxy has nothing more to do, `training`,
`tinker` and `adapter_shards` because calls, requests and jobs are bounded; the other violation runs each
look for one property only.

### Fairness

`FairSpec` of the trainer is `WF_vars(System)`: the event loop runs something
that can run, so rollouts, evals and the backend return.  It does not promise
any one task its turn beyond that, and nobody has to request a stop.
`FairSpec` of the proxy is weak fairness of each call once it was made, of the
child taking and answering requests, of the dispatcher and of a `close()` that
began: these are threads and loops nothing blocks for ever.  Nobody has to make a
call, ask a generator for more, cancel, close or kill anything.
`LocalSpec` assumes the event loop goes on with the call (a request is answered
or times out, and who consumes the results asks for the next or leaves), that the
worker's processes go on while they live, and that the trainer's task takes its
rows; nobody has to call, fail, close or restart anything.  A collective of
which some ranks are missing ends only by its timeout, which is one of the
worker's steps.
`TinkerServer` assumes that the event loop runs what is ready (`Works`); nobody
has to send a request.  `RequestsEnd` says every one of finitely many requests
ends: a steady stream of requests for one model keeps its slot, which the code
allows.

## 4. Findings

1. `train()` may never return with `max_steps` (`pipe_hang`): the rollout stage
   waits in `put(None)` for a trainer that stopped taking.
2. An eval that waits behind a slow one has its checkpoint protected but not its
   adapter (`adapters_eval`).
3. The prefix state sent to another rank stops at the last whole chunk when
   completions of the prefix are split between ranks (`gdn_tail`); `OutputsRight`
   therefore excuses the families `SplitMidChunk` describes.
4. The experts' fused gate and up LoRA is cut as one block under expert tensor
   parallelism, and its merged adapter has features of gate and up exchanged
   (`fused_shards`).  `adapter_shards` therefore has the layers that are not
   fused.

`PROJECT.json` quotes the lines that say otherwise.

Two consequences of a kill are in reach of `MegatronJobs` but of no run, since
one behaviour with `MaxKills = 1` violates what the rest of `training` shows.
If the service's process is killed after `merge_lora_adapter` or the target
directory's `mkdir` and before the adapter is in it, the next service takes the
empty directory for the newest step and fills it with an empty LoRA
(`service.py:740-752`): `TrainingKept` fails, against
`docs/fundamentals/training-loop.mdx:19`, "initializing from the latest
checkpoint".  And a job file a killed service left may be taken up by the next
worker while vLLM is awake: `GpuExclusive` holds, and is proved, while nothing
was killed.

Two consequences of what the code starts and does not wait for narrow what is
stated.  An eval that outlives a failed `train()` stores its own trainer's state over
that of the next run of the process (`trainer.py:677`, 746-750): until that run
stores again `state.json` has the old step and the old list of completed evals, so
`StepsAgree` and `EvalsRemembered` speak of what the run itself stored; and a third
run that starts from it has an offset that is too small, and trains all again that
was trained since, or too large, as the second run took up again what the first gave
up, and skips it.  `RetrainingBounded` and `LossBounded` are therefore about runs
none of which was `misled` so; without that premise it still holds that no run trains
on a scenario twice.  And in shared mode a worker is spawned, and builds its model on
the GPUs, before vLLM is put to sleep (`service.py:732`, 733; `train.py:1425`, 1436):
on a first call, or the first after the worker was lost, both hold GPU memory
for a while.  `GpuExclusive` says that this is the only overlap, and that it ends
with the sleep the same call waits for.

Three more behaviours the models have and no run is about.  A stop request while
a step is trained ends the eval stage before that step's eval is scheduled, while
`last_eval_step` is stored as if it had run (`trainer.py:582`, 665):
`ScheduledEvalsRun` holds, and is proved, while nobody requests a stop.  `close()`
between the dispatcher's test of `_closing` and its probe of the child
(`move.py:198`, 200) makes later calls report a dead child instead of a closing
proxy.  And in shared mode shards that a crashed worker of another world size
left in the checkpoint make every later merge raise: `OnlyLeftoversInTheWay`
says that nothing else does.

## 5. Proofs

All theorems hold for every value of the constants that meets the named
assumptions: `PipelineAssumption` (finite workers, positive sizes,
`MaxBatch >= MinBatch`, as `PipelineTrainer.__init__` enforces),
`AdaptersAssumption`, `ResumeAssumption`, `ProxyAssumption`, `JobsAssumption`,
`ServerAssumption`, `MaxEntriesAssumption`, and for the training of the local
backend `PackingAssumption` (groups of trajectories with a prompt and completions
in it, a positive row length), `PlanAssumption`, `StackAssumption`,
`StepsAssumption`, `TrainingAssumption`, `UnslothAssumption` and `LocalAssumption`;
`ShardsAssumption` is what Megatron demands of a topology.  TLC evaluates them in
every run that has them.  A further premise of a theorem is part of its statement
and named below.

The trainer and its backends:

* `TypeCorrect`: `TypeOK`, by one lemma per task.  It is inductive as it stands.
* `OffPolicyBounded`.  `OffPolicyBound` speaks of the batch only.  The proof adds
  that `policy_version = current_step`, that no worker and no queued group has a
  version newer than that, and that a batch is empty when collecting starts
  (`OffPolicyInv`).  The lower bound then comes from the stale test and the upper
  one from `StartRollout`; a step shifts both by one, which is what
  `TrainedPolicyLag` says.
* `WakeupNotLost`: inductive together with `TypeOK`.  The key case is
  `TrainReturns`, which makes the condition true long before `StepLogged`
  notifies.
* `DropsOnlyAtEnd`: `done` and a failed stage are final (`EndingStays`), and only
  actions that need one of them drop a scenario.
* `LeasesExact`: one lemma that a rollout starting adds exactly one to the
  cardinality of the rollouts of its step, one that its end removes one, and the
  eval beside them.
* `EvalsRunAtEnd`: while nobody requested a stop, `done` is set by the training
  stage only, after its last eval was queued, so an eval stage that has ended
  left nothing behind (`StageInv`).  It needs the premise: section 4
  says what happens without it.
* `PendingScheduled`: the pending evals are strictly increasing and below
  `current_step` once a step was made (`EvalsOrdered`), so an eval that ends
  takes only its own step from the set.  It needs every training step to be new,
  the premise about `same_step`.
* `AdaptersImplementTrainer`: every step of the composition is a step of
  `PipelineTrainer` or a stutter.  The only case that is not immediate is that the
  step read from the directories is one `TrainReturns` allows.  All theorems about
  the trainer hold of the composition through it.
* `ScenariosAreAccountedFor`: `PlacesInv` says that the places a scenario can be
  at (a worker, a queued group, the batch, an end) are disjoint and each hold it at
  most once.  The sum over the places that the property speaks of is then a sum of
  numbers that are 0 or 1 and of which one is 1.
* `TrainerImplementsOffPolicyTraining`: under the mapping of `PipelineRefinement`
  each action is a step of `OffPolicyTraining` or a stutter, one lemma per action
  that is visible; the others leave the mapped state alone.  It rests on
  `OffPolicyInv` and on the places of a scenario.
* `RolloutsServed`: `ServedInv` adds that what is still to be
  unloaded is not needed either, that unloading happens only while the trainer
  waits for it, and that a reloaded step is loaded before it is published.
  `LeasesExact` enters here: a rollout under way has a lease, so its adapter is
  not in what pruning chose; one that starts during pruning uses the newest step.
* `AdaptersTypeCorrect`, `CheckpointsKept`: the newest directory is
  `current_step` or, once saved, the next one (`CkptInv`), which gives the
  composition the premise of `PendingScheduled`; what rollouts and evals need is
  then among the protected steps.
* `StepsAlwaysAgree`, `EvalsAreRemembered`: over every run and restart either
  backend is at `current_step`, or one ahead while it trains or after it failed
  (`StepsInv`); what was evaluated is completed, and what is completed is stored
  by the end of the step that completed it (`RememberInv`).  The two clauses about
  `state.json` have the premise that the run itself stored it last, and the second
  theorem that no run was `misled` (section 4).
* `RetrainingIsBounded`: `RunTypeInv` carries `TypeOK` over restarts and `Apart`
  what a restart leaves of the places: no scenario is in two of them, and none is
  still to come and in one.  The sum of the extra trainings alone is not inductive:
  a restart from an older checkpoint makes nothing trained twice yet.  `OwedInv`
  therefore bounds the extra trainings together with the scenarios the weights have
  seen that are still to come again (`Owed`): a restart adds the batch in hand at
  most, and a scenario that is trained again moves from the one to the other.
  `SumsCompare` compares the two folds over scenarios.  This part is about runs that
  were not `misled`; that no run trains on a scenario twice (`OnceInv`) is
  without premise: a scenario that is still to come in a run was trained at most
  once per former run, and in this one at most once when it no longer is.
* `LossIsBounded`, for runs that were not `misled`: a scenario that was taken is in a place until it has a fate or is
  in the weights (`SeenInv`), and the checkpoint that was asked for follows the last
  eval (`SavedInv`).  `LostInv` bounds the scenarios that are lost or only in memory:
  a restart's share is `Budget`, which is one per worker, a queue's worth, a batch
  and the batches of the steps between two evals, and each step logged since the last
  checkpoint adds a batch at most.  The theorem has a premise, `LossPremise`: no step
  is one that trains nothing, and a backend that saves on request has evals.  Without
  it nothing bounds what is lost (section 6).

The proxy and the services:

* `ProxyTypeCorrect`: `TypeOK`, which contains that the futures lock has one
  holder.
* `NoCallOrphaned`: `OrphanInv` says that a pending future is in `_futures` or in
  the dispatcher's hand, and that once the pending calls were failed `_futures`
  stays empty because nobody is in the critical section and nobody can enter it
  past the flags.
* `ProxyImplementsRemoteCalls`: `RemoteInv` says that between its registration and
  its answer a call's current request is in one place at most (the request queue,
  the child, the response queue, the dispatcher's hand), that nothing there belongs
  to an older request, and that a future is resolved by the answer to its own
  request.
* `JobsTypeCorrect`: types alone are not inductive, as loading an adapter needs
  it to be there.  `JobsInv` adds that directories are 0 to the last step and
  that only the last may lack its adapter, while it is filled or after a kill.
* `GpusAreExclusive`: `RanksFollow` says that ranks have no job unless the
  client is between writing it and reading "all done", or the service is closed;
  `BuildingInv` that they build the model only between the spawn and the end of the
  job they were spawned for, as they meet at a barrier before they look for one;
  `CallInv` that vLLM is not awake between the sleep and the wake, and that a closed
  service has no vLLM.
* `RowsAreOwn`, `ShardsAreOwn`, `LatestIsServed`, `TrainingIsKept`: `WorkInv` is an
  invariant of the behaviours without a kill (the theorems say `kills = 0`; what a
  kill does is told in section 4).  Its parts follow the job: ranks have the call's
  job, or one left by the failed call of a closed service (`RanksFollow`); the rows
  in the directory are the call's until its job file is gone (`RowsInv`); a rank past
  saving has saved what training made of the call's base (`SavedInv`), and what was
  pushed is that (`PushedInv`); the last checkpoint holds the training of every call
  that returned (`StoredInv`), and vLLM has the weights of the latest step between
  two calls (`ServedInv`).
* `JobsInLocal`: every step of the composition `LocalTraining` is a step of
  `MegatronJobs` or a stutter, so its theorems hold of the composition;
  `RowsAreOwnInLocal` carries the first over.
* `GpuIsHandedOver`, `OneResultForEachRow`, `StepsAreServed`: `UnslothInv`, for any
  number of rows and calls.  `QueueInv` says what the two queues hold: nothing
  between the rows but maybe the sentinel a failed task left, and while a row is
  awaited that row, once, before the trainer or its result after it.  `NamesInv` and
  `TrainerInv` say at which awaits vLLM names its step with the last checkpoint's
  weights and the trainer has them (`Sound`); a service whose task failed while it
  was closing (`CloseBreaksOff`) is left out of them.
* `RowsAreTrainedOnOnce`, `RoutesAreOwn`: in `GradientInv` every router has had one
  call for each micro-batch so far (`Cursors`), and the slots of the steps are
  distinct rows, so each row has one replica, one micro-batch and one step
  (`ContributedKept`).
* `PackedIsAccepted`, `PackedIsReadBack`, `OnlyOwnIsSeen`: `PackingInv` has a part for
  each stage.  Results are in the order of the groups whose prompt they share
  (`ResultsInv`); each result that was not dropped lies in exactly one row, as one block
  behind the block of its prompt with only its own family between (`LaidInv`); the
  segments read back follow each other without a gap, one for each group number
  (`ParseInv`).  `RowsAccepted` is the fourth part: the families of a row form what
  the parser accepts, however prompts are shared and rows are filled.
  `PackedRowsProofs` has the lemmas on sequences these rest on.
* `LayersAreGiven`: `GdnInv` has three parts.  The families the parser built are
  numbered without a gap and each begins with its only prefix (`FamiliesInv`), so
  that the plan, which goes family by family or segment by segment, comes to every
  token.  Every token placed so far has a row of its own on its rank, below the
  rank's load, and what was placed is what lies before `next` (`PlanInv`): the
  moves of the exchange are then a bijection between the two layouts, and the
  inverse exchange undoes it, however a chained segment was cut.  Between two
  layers the rows are in the layout the next one expects, and so are the inputs
  kept for recomputing and the gradients (`LayersInv`).
* `OutputsAreRight`: `PassInv` has three parts.  Segments share no token and the
  completions of a family are numbered from 1 (`SegmentsInv`).  A chain begins with
  its prefix, a local segment is whole on its rank, and states are sent exactly for
  the completions parted from their prefix (`SharedInv`); the plan gives all of that,
  which is the longer half of the proof, for segments, chunks and whole families alike.
  `ForwardInv` then goes by the stage a rank is at: its tables hold the states of the
  prefixes they should, made of the tokens of the prefix in order, however many ranks
  a chain went over (`TablesInv`), and a token that has run has seen its prompt and its
  own completion up to itself (`OutInv`).  The theorem is about the property the run
  checks, which excuses the families of finding 3.
* `SavedIsMergeable`: `ShardsInv` says that a rank which reports its shard or its
  manifest as written has its own there under its name, over whatever a crash left.
  The lemma `Exporters` is about the topology: for each parameter the ranks that
  export it are one for each shard of its domain, dense or of an expert, or one in
  all if it is not sharded.  It follows from the arithmetic of Megatron's rank
  orders (`WholeIs`: a number has one quotient and one remainder), for any sizes
  that divide each other as `Fits` demands.
* `GradientsAreWhole`: `GradientsInv` says what a rank holds after each of the two
  reductions.  Of the ranks with a parameter exactly one has each shard for each part
  of the tokens (`OneRank`, from the coordinates of the ranks), so a reduction over
  the right group counts each part once, and one over a wrong group would not.
* `AdapterIsAlwaysTrained`: `TrainedInv` says that the adapter in the checkpoint is
  the whole of what was learned, that each rank's weights are its piece of it, and
  that each shard saved is what its rank held.  `LoadedIs` is about cutting a tensor,
  `MergeOfCuts` about putting the cuts together, `EntriesAre` about which shards the
  merge takes: exactly those the ranks saved, as a leftover that has the parameter
  would be a second file for the shard, which `Mergeable` refuses.  It
  needs the premise `FusedWhole`, that an expert's fused gate and up is cut on no
  topology: with `etp` above 1 the code cuts the two halves apart and puts them together
  as one (`fused_shards`).

The tinker server:

* `SlotsAreExact`: `SlotsInv` adds who may be in the context manager: a request
  that waits for a slot is at the head of its model's lock, and nobody of that
  model is sampling then.
* The trie.  `IsTrie(N, P)` says that nodes `N` are a tree whose parent pointers and
  edges agree and that `P` gives each node the tokens on its way.  It is what splits,
  leaves, deletions and merges keep (`SplitKeeps`, `LeafKeeps`, `DroppedKeeps`,
  `MergedKeeps`), with the ways of all nodes that stay.  In a trie a node's way goes
  through every node whose way it begins with (`WaysThrough`), so no two nodes have
  the same way (`WaysDiffer`), a lookup finds the deepest remembered node
  whose way the tokens begin with (`BestNodeIs`), and an insert stops at the deepest
  node on the way of its key (`ReachedIs`) and grows one with exactly that way
  (`Grows`).  Pruning removes nodes without entries only (`PrunedIs`).  The list of
  nodes with an entry has each once, and seen as a list of rewrites (`Cached`) a
  lookup moves one to its end (`Lookups`) and an insert drops the key's former one,
  appends the new one and, beyond `MaxEntries`, drops the first (`InsertsIs`).
* `PromptsReadTheSame`: `TextInv` adds to that list that the raw tokens of every
  rewrite read as its key, so that whichever rewrite a lookup takes, and whatever was
  inserted or evicted since, the prompt reads as what was rendered.  The premise
  `TokenizerPremise` is what the server relies on: tokens are numbers, prompts are
  not empty, what a text encodes to reads as the text, and what tokens read as is made
  of what their parts read as.
* `TrieImplementsMap`: `PathTo`, which reads a node's way off the parent pointers, is
  that way (`PathIs`), so the mapped state is `Cached` (`RewritesAre`), and a lookup
  or an insert is one of `PrefixMap`, every other step a stutter (`MapStep`).  Of the
  tokenizer it needs no more than that it gives tokens (`TokensPremise`): `KeysInv` is
  `TextInv` with any two texts taken to be alike.

The `TypeOK` of the trainer and of the proxy, `AdaptersTypeOK` and `JobsTypeOK`
are proved and no longer part of a run.

Only model-checked:

* `TrainReturnsEventually`, `CallsEnd`, `EveryCallEnds`, `RequestsEnd`: liveness under
  fairness and ENABLED are beyond the prover.

That is all: each invariant and each action property or refinement a passing run
checks is stated by a theorem, too; those a finding's run violates are not, but for
`AdapterIsTrained`, which is proved where `FusedWhole` holds.

Induction over data with an operator as a parameter is beyond the provers, but the
proofs do without it.  Where one needs a first or a last element it takes the least
of a set of numbers (`LeastOf`, from the well-foundedness of the naturals).  That a
recursive function has the value it should is shown in two steps: some function
satisfies the recursion, given outright, and any two that do agree, by the least
argument at which they would differ.  Folds and sums are treated the same way
(`SumRecurs`).

## 6. Not modelled

* In the trainer: timing metrics, the status reporter and history rows; the
  clean-up of the other tasks once a stage has failed (a run of the model ends there,
  but for the eval the TaskGroup does not cancel: see `PipelineResume`);
  runs with `resume=False`.  `eval_fn` receives what the code gives it, but what
  it evaluates is opaque.
* In the local backend: registration, forking and pulling of checkpoints, S3.
* In the Unsloth service: calls on a service that was closed (after a cancelled
  wait such a call would wait in `results_queue.join()` for an answer that an
  abandoned `get()` took), closing while a call is under way other than by the
  call itself, a second cancellation, an error while a checkpoint is written,
  the optimizer's state, log-probabilities computed beforehand, a caller that
  leaves a call through the process proxy.  An error of the training task during
  `stop_background_training` (`unsloth/train.py:293`) passes through `aclose`
  before it closes anything (`CloseBreaksOff`): the service stays open, in shared
  mode with vLLM asleep, and `ServesItsSteps` excuses that state.
* In the proxy: the start-up handshake, `monitor_parent`, the atexit registry.
  A lost response and a dispatcher that broke off are events of the model, and
  `CallsEnd` excuses the calls they leave behind.
* In the Megatron part: start-up of processes and ports, configuration files,
  offloading as more than its place in the order, SFT batches, the optimizer
  and its shards on disk, pipeline parallelism, bundles of routes from before calls had keys, the tensors of
  routes, what the handlers of a model make of an adapter for vLLM.  Signal and atexit handlers end the process and count as kills.  The
  supervisor and cancellation act at awaits only, as they are tasks of the same
  event loop.
* In the Tinker server: several tenants, aliases of models, `n > 1`,
  cancellation of one request.  `TinkerService` keeps no state another task
  shares.
* In the GDN layers: `segment_layout.py`, which gathers a rank's rows into the
  columns of its buckets on the GPU, packing of tensors, the optional norm hooks.
* Kernels, losses, layers, weight transfer: floating-point tensors are out of
  TLC's reach, and what could be checked of them are the orders and index sets,
  which is done for the GDN layers.
* Metrics, costs, integrations, rewards, command line, S3: I/O and formatting.
* The serverless backend's state is on a server outside the repository.
* In the native Tinker backend: the sampling server, conversion of data, forking.
  Without an `eval_fn` (or with `save_checkpoint=False`) the trainer never asks it
  for a checkpoint, so a new process starts at step 0 behind the stored
  `scenario_offset`: `LossBounded` is about runs with evals.  A request for a step
  that a former process made and this one has not can put the former sampler
  into `sampler_clients` after the step was trained again
  (`_get_sampler_client`); the pipeline never asks for such a step.

## 7. Plan

1. The native Tinker backend's cache of sampling clients and its forks.
2. Lifecycle of processes: start-up handshakes, `monitor_parent`, handlers.
