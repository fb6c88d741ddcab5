---------------------------- MODULE MegatronJobs ----------------------------
(* MegatronService, the Megatron worker's ranks and the files between them.  *)
(*   src/art/megatron/service.py          the service and its checkpoints    *)
(*   src/art/megatron/runtime/client.py   writing and following a job        *)
(*   src/art/megatron/train.py            the loop of a worker's rank        *)
(*   src/art/utils/lifecycle.py           close() and supervised children    *)
(* The client runs from await to await; where it touches files the worker    *)
(* reads, it is cut at each file operation.  Weights are reduced to the set  *)
(* of the jobs that went into them, the empty set being the identity LoRA.   *)
(* As the process wrapper ends a service's children with its process, a new  *)
(* service starts without them.                                              *)
EXTENDS Integers, FiniteSets

CONSTANTS
  Modes,        \* a subset of {"shared", "dedicated", "merged"}: one set of
                \* GPUs for vLLM and training, or two with LoRA or merged
                \* rollout weights
  WorldSize,    \* ranks of the Megatron worker
  MaxCalls,     \* bound: calls of train and train_sft
  MaxRestarts,  \* bound: services started after the first was closed
  MaxKills      \* bound: the service's process is killed

WorkerRanks == 0..(WorldSize - 1)
CallIds == 1..(MaxCalls + 1 + MaxRestarts + MaxKills)
Weights == SUBSET CallIds

ASSUME JobsAssumption ==
  /\ Modes \subseteq {"shared", "dedicated", "merged"}
  /\ WorldSize \in Nat \ {0}
  /\ MaxCalls \in Nat /\ MaxRestarts \in Nat /\ MaxKills \in Nat

VARIABLES
  mode,
  pc, call, calls,            \* the client: where it is, its call, how many
  latest, closing, failed,    \* _latest_step, _lifecycle.closing, _failure
  dirs, ckpt,                 \* checkpoint directories; adapters in them
  shards,                     \* adapter shards in the job's lora_path
  jobFile, reported,          \* the jobs directory; logs with "all done"
  lock, tensors,              \* the wake lock; the call whose rows are packed
  worker, rank,               \* _megatron_process and its ranks
  vllm, served,               \* the vLLM runtime and the weights it serves
  returned, restarts, kills   \* history: calls that returned; counts

clientVars == <<pc, call, calls, latest, closing, failed>>
checkpointVars == <<dirs, ckpt, shards>>
fileVars == <<jobFile, reported, lock, tensors>>
workerVars == <<worker, rank>>
servingVars == <<vllm, served>>
historyVars == <<returned, restarts, kills>>
jobsVars == <<mode, clientVars, checkpointVars, fileVars, workerVars,
              servingVars, historyVars>>

Kinds == {"rl", "sft", "sync", "skip"}
NoCall == [id |-> 0, kind |-> "sync", base |-> 0]
NoJob == [id |-> 0, kind |-> "sync", base |-> 0, whole |-> FALSE]
RankAt(p) == [pc |-> p, id |-> 0, kind |-> "sync", base |-> 0]
AllRanksAt(p) == [r \in WorkerRanks |-> RankAt(p)]

Shared == mode = "shared"
Open == ~closing

JobsInit ==
  /\ mode \in Modes
  /\ pc = "new" /\ call = NoCall /\ calls = 0
  /\ latest = 0 /\ closing = FALSE /\ failed = FALSE
  /\ dirs = {} /\ ckpt = <<>> /\ shards = <<>>
  /\ jobFile = NoJob /\ reported = {} /\ lock = FALSE /\ tensors = 0
  /\ worker = "down" /\ rank = AllRanksAt("barrier")
  /\ vllm = "down" /\ served = {}
  /\ returned = {} /\ restarts = 0 /\ kills = 0

-----------------------------------------------------------------------------
(* Checkpoints. *)

\* get_step_from_dir: directories count whatever they hold.
LastStep == IF dirs = {} THEN 0
            ELSE CHOOSE s \in dirs : \A t \in dirs : t <= s

Put(f, k, v) == [x \in DOMAIN f \cup {k} |-> IF x = k THEN v ELSE f[x]]

\* _ensure_identity_lora: a directory without an adapter gets an empty one.
WithIdentity(s) == IF s \in DOMAIN ckpt THEN ckpt ELSE Put(ckpt, s, {})

\* The step a call publishes.
Target == IF call.kind = "skip" THEN call.base + 1 ELSE latest + 1

\* What training the call's job makes of its base.
Trained == ckpt[call.base] \cup {call.id}

\* merge_lora_adapter needs a shard of every rank; they should be the call's.
ShardsThere == DOMAIN shards = WorkerRanks

-----------------------------------------------------------------------------
(* Closing. *)

\* close(): vLLM and the worker are stopped, the wake lock is removed.
CloseEffects ==
  /\ closing' = TRUE /\ vllm' = "down" /\ worker' = "down"
  /\ rank' = AllRanksAt("barrier") /\ lock' = FALSE

\* Where the client has suspended, and other tasks of its event loop run.
Awaits == {"spawn", "sleep", "transfer", "stream", "wake", "load"}

\* A call fails: stream_megatron_job removes its files and a wake that failed
\* its lock; unless the backend only registered a copied checkpoint the service
\* is closed.
Raise ==
  /\ pc' = "idle" /\ call' = NoCall
  /\ jobFile' = IF pc = "stream" THEN NoJob ELSE jobFile
  /\ reported' = IF pc = "stream" THEN reported \ {call.id} ELSE reported
  /\ IF call.kind = "skip" \/ closing
     THEN /\ lock' = (lock /\ pc # "wake")
          /\ UNCHANGED <<closing, vllm, worker, rank>>
     ELSE CloseEffects
  /\ UNCHANGED <<mode, calls, latest, failed, checkpointVars, tensors, served,
                 historyVars>>

\* An await fails: the task is cancelled, or a request fails or times out.
CallRaises ==
  /\ pc \in Awaits
  /\ Raise

\* _raise_if_child_failed, wherever a method begins with it.
ChecksChildren ==
  \/ pc \in {"ensure", "sleep", "transfer", "wake", "load"}
  \/ pc = "prepare" /\ mode = "merged"

CallFails == ChecksChildren /\ failed /\ Raise

\* Mutant: the worker's return code is not looked at.
MutStreamRaises == FALSE /\ Raise

\* stream_megatron_job finds that the worker has exited.
StreamRaises == pc = "stream" /\ worker # "up" /\ Raise

\* The watcher of the worker's process.
SupervisorCloses ==
  /\ worker = "dead" /\ Open /\ pc \in Awaits \cup {"idle"}
  /\ CloseEffects /\ failed' = TRUE
  /\ UNCHANGED <<mode, pc, call, calls, latest, checkpointVars, jobFile,
                 reported, tensors, served, historyVars>>

\* The vLLM runtime exits, and its watcher closes the service.
VllmExits ==
  /\ vllm # "down" /\ Open /\ pc \in Awaits \cup {"idle"}
  /\ CloseEffects /\ failed' = TRUE
  /\ UNCHANGED <<mode, pc, call, calls, latest, checkpointVars, jobFile,
                 reported, tensors, served, historyVars>>

\* A new service, in a new process, for the same model.
FreshService ==
  /\ pc' = "new" /\ call' = NoCall /\ latest' = 0
  /\ closing' = FALSE /\ failed' = FALSE
  /\ vllm' = "down" /\ worker' = "down" /\ rank' = AllRanksAt("barrier")
  /\ UNCHANGED <<mode, calls, checkpointVars, fileVars, served, returned>>

Restart ==
  /\ closing /\ pc = "idle" /\ restarts < MaxRestarts
  /\ FreshService /\ restarts' = restarts + 1
  /\ UNCHANGED kills

\* The process is killed: no finally clause and no close() runs.
Kill ==
  /\ Open /\ pc # "new" /\ kills < MaxKills
  /\ FreshService /\ kills' = kills + 1
  /\ UNCHANGED restarts

-----------------------------------------------------------------------------
(* The client. *)

\* The job of a service's initial sync of merged weights.
SyncId == MaxCalls + 1 + restarts + kills

\* start_openai_server: vLLM serves the last checkpoint, or the base model
\* until the first sync of merged weights.
StartServer ==
  /\ pc = "new"
  /\ dirs' = dirs \cup {LastStep} /\ ckpt' = WithIdentity(LastStep)
  /\ latest' = LastStep
  /\ vllm' = "awake"
  /\ IF mode = "merged"
     THEN /\ pc' = "ensure" /\ served' = {}
          /\ call' = [id |-> SyncId, kind |-> "sync", base |-> LastStep]
     ELSE pc' = "idle" /\ served' = ckpt'[LastStep] /\ UNCHANGED call
  /\ UNCHANGED <<mode, calls, closing, failed, shards, fileVars, workerVars,
                 historyVars>>

\* A call of train or train_sft on an open service.
BeginCall(kind) ==
  /\ pc = "idle" /\ Open /\ calls < MaxCalls
  /\ pc' = IF kind = "rl" THEN "pack" ELSE IF Shared THEN "ensure" ELSE "refuse"
  /\ call' = [id |-> calls + 1, kind |-> kind, base |-> 0]
  /\ calls' = calls + 1
  /\ UNCHANGED <<mode, latest, closing, failed, checkpointVars, fileVars,
                 workerVars, servingVars, historyVars>>

\* train_sft in dedicated mode raises, which closes the service.
SftRefused == pc = "refuse" /\ Raise

\* _train_model: the packed rows are written to the one tensors directory.
RowsPacked ==
  /\ pc = "pack"
  /\ pc' = "ensure" /\ tensors' = call.id
  /\ UNCHANGED <<mode, call, calls, latest, closing, failed, checkpointVars,
                 jobFile, reported, lock, workerVars, servingVars, historyVars>>

\* _train_model without rows copies the last checkpoint to the next step.
NothingToTrain ==
  /\ pc = "pack"
  /\ pc' = "mkdir" /\ call' = [call EXCEPT !.kind = "skip", !.base = LastStep]
  /\ UNCHANGED <<mode, calls, latest, closing, failed, checkpointVars, fileVars,
                 workerVars, servingVars, historyVars>>

AfterEnsure == IF call.kind = "sync" THEN "transfer"
               ELSE IF Shared THEN "sleep" ELSE "prepare"

\* _ensure_megatron_running with a worker that has not exited.
WorkerRuns ==
  /\ pc = "ensure" /\ ~failed
  /\ pc' = IF worker = "up" THEN AfterEnsure ELSE "spawn"
  /\ UNCHANGED <<mode, call, calls, latest, closing, failed, checkpointVars,
                 fileVars, workerVars, servingVars, historyVars>>

\* create_subprocess_exec returns, whatever happened meanwhile; the ranks build
\* the model on the GPUs.
WorkerSpawned ==
  /\ pc = "spawn"
  /\ pc' = AfterEnsure
  /\ worker' = "up" /\ rank' = AllRanksAt("start")
  /\ UNCHANGED <<mode, call, calls, latest, closing, failed, checkpointVars,
                 fileVars, servingVars, historyVars>>

Slept ==
  /\ pc = "sleep" /\ Open
  /\ pc' = "prepare" /\ vllm' = "asleep"
  /\ UNCHANGED <<mode, call, calls, latest, closing, failed, checkpointVars,
                 fileVars, workerVars, served, historyVars>>

\* Mutant: the next step's directory is made when the call begins.
MutPrepare ==
  /\ pc \in {"prepare", "transfer"}
  /\ ChecksChildren => ~failed
  /\ pc' = "open"
  /\ call' = [call EXCEPT !.base = LastStep]
  /\ dirs' = dirs \cup {LastStep}
               \cup (IF call.kind = "sync" THEN {} ELSE {LastStep + 1})
  /\ ckpt' = WithIdentity(LastStep)
  /\ latest' = IF Shared THEN latest ELSE LastStep
  /\ shards' = IF Shared THEN shards ELSE <<>>
  /\ jobFile' = NoJob
  /\ UNCHANGED <<mode, calls, closing, failed, reported, lock, tensors,
                 workerVars, servingVars, historyVars>>

\* The last checkpoint is what the job starts from, pending jobs are removed;
\* dedicated mode trains in a fresh copy, shared mode in the checkpoint.
Prepare ==
  /\ pc \in {"prepare", "transfer"}
  /\ ChecksChildren => ~failed
  /\ pc' = "open"
  /\ call' = [call EXCEPT !.base = LastStep]
  /\ dirs' = dirs \cup {LastStep} /\ ckpt' = WithIdentity(LastStep)
  /\ latest' = IF Shared THEN latest ELSE LastStep
  /\ shards' = IF Shared THEN shards ELSE <<>>
  /\ jobFile' = NoJob
  /\ UNCHANGED <<mode, calls, closing, failed, reported, lock, tensors,
                 workerVars, servingVars, historyVars>>

\* write_megatron_job: open(job_path, "w") makes an empty file the worker sees.
OpenJobFile ==
  /\ pc = "open"
  /\ pc' = "write"
  /\ jobFile' = [id |-> call.id, kind |-> call.kind, base |-> call.base,
                 whole |-> FALSE]
  /\ UNCHANGED <<mode, call, calls, latest, closing, failed, checkpointVars,
                 reported, lock, tensors, workerVars, servingVars, historyVars>>

WriteJobFile ==
  /\ pc = "write"
  /\ pc' = "stream" /\ jobFile' = IF jobFile.id = call.id
                                  THEN [jobFile EXCEPT !.whole = TRUE] ELSE jobFile
  /\ UNCHANGED <<mode, call, calls, latest, closing, failed, checkpointVars,
                 reported, lock, tensors, workerVars, servingVars, historyVars>>

\* "all done": a sync returns, other jobs are merged.
StreamSeesDone ==
  /\ pc = "stream" /\ call.id \in reported
  /\ reported' = reported \ {call.id} /\ jobFile' = NoJob
  /\ pc' = IF call.kind = "sync" THEN "idle" ELSE IF Shared THEN "merge" ELSE "mkdir"
  /\ call' = IF call.kind = "sync" THEN NoCall ELSE call
  /\ UNCHANGED <<mode, calls, latest, closing, failed, checkpointVars, lock,
                 tensors, workerVars, servingVars, historyVars>>

\* merge_lora_adapter in place, in the checkpoint the job started from.
MergeInPlace ==
  /\ pc = "merge" /\ ShardsThere
  /\ pc' = "mkdir"
  /\ ckpt' = Put(ckpt, call.base, shards[0]) /\ shards' = <<>>
  /\ UNCHANGED <<mode, call, calls, latest, closing, failed, dirs, fileVars,
                 workerVars, servingVars, historyVars>>

MergesIntoTarget == ~Shared /\ call.kind # "skip"

MakeTargetDir ==
  /\ pc = "mkdir"
  /\ MergesIntoTarget => ShardsThere
  /\ pc' = "fill" /\ dirs' = dirs \cup {Target}
  /\ UNCHANGED <<mode, call, calls, latest, closing, failed, ckpt, shards,
                 fileVars, workerVars, servingVars, historyVars>>

\* _load_adapter_shards needs the shards of every rank; shutil.copy refuses a
\* copy onto the same file.
PublishRaises ==
  /\ \/ (pc = "merge" \/ (pc = "mkdir" /\ MergesIntoTarget)) /\ ~ShardsThere
     \/ pc = "fill" /\ Target = call.base
  /\ Raise

\* The call's result: the step it made is the latest, and it is over.
Publish ==
  /\ pc' = "idle" /\ call' = NoCall /\ latest' = Target
  /\ returned' = IF call.kind = "skip" THEN returned ELSE returned \cup {call.id}

\* The adapter is copied or, in dedicated mode, merged into the directory.
FillTargetDir ==
  /\ pc = "fill" /\ Target # call.base
  /\ ckpt' = Put(ckpt, Target, IF MergesIntoTarget THEN shards[0]
                               ELSE ckpt[call.base])
  /\ shards' = IF MergesIntoTarget THEN <<>> ELSE shards
  /\ IF mode = "merged" /\ call.kind # "skip" THEN Publish
     ELSE /\ pc' = IF Shared /\ call.kind # "skip" THEN "lock" ELSE "load"
          /\ UNCHANGED <<call, latest, returned>>
  /\ UNCHANGED <<mode, calls, closing, failed, dirs, fileVars, workerVars,
                 servingVars, restarts, kills>>

TakeWakeLock ==
  /\ pc = "lock"
  /\ pc' = "wake" /\ lock' = TRUE
  /\ UNCHANGED <<mode, call, calls, latest, closing, failed, checkpointVars,
                 jobFile, reported, tensors, workerVars, servingVars, historyVars>>

Awoken ==
  /\ pc = "wake" /\ Open
  /\ pc' = "load" /\ vllm' = "awake" /\ lock' = FALSE
  /\ UNCHANGED <<mode, call, calls, latest, closing, failed, checkpointVars,
                 jobFile, reported, tensors, workerVars, served, historyVars>>

\* _reload_adapter; merged weights only get the new step's name.
AdapterLoaded ==
  /\ pc = "load" /\ Open
  /\ Publish
  /\ served' = IF mode = "merged" THEN served ELSE ckpt[Target]
  /\ UNCHANGED <<mode, calls, closing, failed, checkpointVars, fileVars,
                 workerVars, vllm, restarts, kills>>

-----------------------------------------------------------------------------
(* The worker: run_megatron_worker_loop on each rank.                        *)

Alive == worker = "up"
RanksAt(p) == Alive /\ \A r \in WorkerRanks : rank[r].pc = p
OneJob == \A r, q \in WorkerRanks : rank[r].id = rank[q].id

MoveRank(r, p) == rank' = [rank EXCEPT ![r].pc = p]
MoveRanks(p) == rank' = [r \in WorkerRanks |-> [rank[r] EXCEPT !.pc = p]]

WorkerExits == worker' = "dead" /\ rank' = AllRanksAt("barrier")

\* Any rank's failure, or a crash, ends the whole worker (torchrun).
WorkerDies ==
  /\ Alive /\ WorkerExits
  /\ UNCHANGED <<mode, clientVars, checkpointVars, fileVars, servingVars,
                 historyVars>>

\* main: the model is built, and a first after_job takes it off the GPU.
RankStarts(r) ==
  /\ Alive /\ rank[r].pc = "start"
  /\ MoveRank(r, "barrier")
  /\ UNCHANGED <<mode, clientVars, checkpointVars, fileVars, worker,
                 servingVars, historyVars>>

LoopBarrier ==
  /\ RanksAt("barrier") /\ rank' = AllRanksAt("look")
  /\ UNCHANGED <<mode, clientVars, checkpointVars, fileVars, worker,
                 servingVars, historyVars>>

\* os.listdir(jobs_dir), on each rank.
RankLooks(r) ==
  /\ Alive /\ rank[r].pc = "look"
  /\ IF jobFile.id = 0 THEN MoveRank(r, "barrier")
     ELSE rank' = [rank EXCEPT ![r].pc = "wait", ![r].id = jobFile.id]
  /\ UNCHANGED <<mode, clientVars, checkpointVars, fileVars, worker,
                 servingVars, historyVars>>

\* wait_until_ready, then before_job moves the model to the GPU.
RankReady(r) ==
  /\ Alive /\ rank[r].pc = "wait" /\ ~lock
  /\ MoveRank(r, "load")
  /\ UNCHANGED <<mode, clientVars, checkpointVars, fileVars, worker,
                 servingVars, historyVars>>

\* _load_megatron_job fails on a file that is gone or only half written.
RankLoads(r) ==
  /\ Alive /\ rank[r].pc = "load"
  /\ IF jobFile.id = rank[r].id /\ jobFile.whole
     THEN /\ rank' = [rank EXCEPT ![r] = [pc |-> "run", id |-> jobFile.id,
                                         kind |-> jobFile.kind, base |-> jobFile.base]]
          /\ UNCHANGED worker
     ELSE WorkerExits
  /\ UNCHANGED <<mode, clientVars, checkpointVars, fileVars, servingVars,
                 historyVars>>

\* The collectives of a job need every rank in the same job.
RanksRun ==
  /\ RanksAt("run") /\ OneJob
  /\ MoveRanks(IF rank[0].kind = "sync" THEN "push" ELSE "save")
  /\ UNCHANGED <<mode, clientVars, checkpointVars, fileVars, worker,
                 servingVars, historyVars>>

\* _save_lora_and_optimizer
RankSaves(r) ==
  /\ Alive /\ rank[r].pc = "save"
  /\ shards' = Put(shards, r, ckpt[rank[r].base] \cup {rank[r].id})
  /\ MoveRank(r, IF mode = "merged" THEN "push" ELSE "offload")
  /\ UNCHANGED <<mode, clientVars, dirs, ckpt, fileVars, worker, servingVars,
                 historyVars>>

\* Mutant: the weights pushed are those the job started from.
MutPushed == ckpt[rank[0].base]

\* What sync_merged_weights_to_vllm sends.
Pushed == ckpt[rank[0].base]
            \cup (IF rank[0].kind = "sync" THEN {} ELSE {rank[0].id})

RanksPush ==
  /\ RanksAt("push") /\ vllm = "awake"
  /\ served' = Pushed /\ MoveRanks("offload")
  /\ UNCHANGED <<mode, clientVars, checkpointVars, fileVars, worker, vllm,
                 historyVars>>

\* after_job
RankOffloads(r) ==
  /\ Alive /\ rank[r].pc = "offload"
  /\ MoveRank(r, "finalize")
  /\ UNCHANGED <<mode, clientVars, checkpointVars, fileVars, worker,
                 servingVars, historyVars>>

\* Mutant: rank 0 does not wait for the others.
MutFinalizeBarrier ==
  /\ Alive /\ \E r \in WorkerRanks :
       /\ rank[r].pc = "finalize"
       /\ MoveRank(r, IF r = 0 THEN "remove" ELSE "barrier")
  /\ UNCHANGED <<mode, clientVars, checkpointVars, fileVars, worker,
                 servingVars, historyVars>>

\* finalize_megatron_job: only rank 0 has more to do.
FinalizeBarrier ==
  /\ RanksAt("finalize")
  /\ rank' = [r \in WorkerRanks |->
                IF r = 0 THEN [rank[0] EXCEPT !.pc = "remove"]
                ELSE RankAt("barrier")]
  /\ UNCHANGED <<mode, clientVars, checkpointVars, fileVars, worker,
                 servingVars, historyVars>>

\* Mutant: "all done" is written before the rows are removed.
MutAfter(p) == CASE p = "remove" -> "report" [] p = "report" -> "clean"
                 [] OTHER -> "barrier"

After(p) == CASE p = "remove" -> "clean" [] p = "clean" -> "report"
              [] OTHER -> "barrier"

Rank0At(p) == Alive /\ rank[0].pc = p
Rank0Goes(p) == rank' = [rank EXCEPT ![0] = IF After(p) = "barrier" THEN RankAt("barrier")
                                            ELSE [@ EXCEPT !.pc = After(p)]]

RemoveJobFile ==
  /\ Rank0At("remove") /\ Rank0Goes("remove")
  /\ jobFile' = IF jobFile.id = rank[0].id THEN NoJob ELSE jobFile
  /\ UNCHANGED <<mode, clientVars, checkpointVars, reported, lock, tensors,
                 worker, servingVars, historyVars>>

\* shutil.rmtree(cleanup_path): whatever the tensors directory holds.
RemoveRows ==
  /\ Rank0At("clean") /\ Rank0Goes("clean")
  /\ tensors' = IF rank[0].kind = "rl" THEN 0 ELSE tensors
  /\ UNCHANGED <<mode, clientVars, checkpointVars, jobFile, reported, lock,
                 worker, servingVars, historyVars>>

ReportDone ==
  /\ Rank0At("report") /\ Rank0Goes("report")
  /\ reported' = reported \cup {rank[0].id}
  /\ UNCHANGED <<mode, clientVars, checkpointVars, jobFile, lock, tensors,
                 worker, servingVars, historyVars>>

\* A rank waits in a collective of a job while another has gone on without it
\* to the barrier of the loop: the process group times out.
CollectiveTimesOut ==
  /\ Alive
  /\ \E r, q \in WorkerRanks :
       rank[r].pc \in {"run", "push", "finalize"} /\ rank[q].pc = "barrier"
  /\ WorkerExits
  /\ UNCHANGED <<mode, clientVars, checkpointVars, fileVars, servingVars,
                 historyVars>>

-----------------------------------------------------------------------------

CallStep ==
  \/ WorkerRuns \/ WorkerSpawned \/ Slept \/ Prepare \/ OpenJobFile
  \/ WriteJobFile \/ StreamSeesDone \/ StreamRaises \/ MergeInPlace
  \/ MakeTargetDir \/ PublishRaises \/ FillTargetDir \/ TakeWakeLock \/ Awoken
  \/ AdapterLoaded \/ SftRefused \/ CallFails

RankStep(r) ==
  \/ RankStarts(r) \/ RankLooks(r) \/ RankReady(r) \/ RankLoads(r)
  \/ RankSaves(r) \/ RankOffloads(r)

WorkerStep ==
  \/ LoopBarrier \/ RanksPush \/ FinalizeBarrier \/ RemoveJobFile
  \/ RemoveRows \/ ReportDone \/ CollectiveTimesOut
  \/ \E r \in WorkerRanks : RankStep(r)

\* What may happen at any moment.
Fault == CallRaises \/ WorkerDies \/ SupervisorCloses \/ VllmExits
         \/ Restart

Packs == RowsPacked \/ NothingToTrain

JobsNext ==
  \/ StartServer \/ BeginCall("rl") \/ BeginCall("sft") \/ Packs
  \/ CallStep \/ WorkerStep \/ RanksRun \/ Fault \/ Kill

JobsSpec == JobsInit /\ [][JobsNext]_jobsVars

-----------------------------------------------------------------------------
(* Properties. *)

Pcs == {"new", "idle", "refuse", "pack", "ensure", "spawn", "sleep", "transfer",
        "prepare", "open", "write", "stream", "merge", "mkdir", "fill", "lock",
        "wake", "load"}
RankPcs == {"start", "barrier", "look", "wait", "load", "run", "save", "push",
            "offload", "finalize", "remove", "clean", "report"}

\* The variables keep their types; steps and adapters go together: there is an
\* adapter only in a directory, and a call's base has one.
JobsTypeOK ==
  /\ mode \in Modes /\ pc \in Pcs /\ calls \in 0..MaxCalls
  /\ call \in [id : CallIds \cup {0}, kind : Kinds, base : Nat]
  /\ latest \in Nat /\ closing \in BOOLEAN /\ failed \in BOOLEAN
  /\ dirs \in SUBSET Nat /\ DOMAIN ckpt \subseteq dirs
  /\ \A s \in DOMAIN ckpt : ckpt[s] \subseteq CallIds
  /\ DOMAIN shards \subseteq WorkerRanks
  /\ \A r \in DOMAIN shards : shards[r] \subseteq CallIds
  /\ jobFile \in [id : CallIds \cup {0}, kind : Kinds, base : Nat, whole : BOOLEAN]
  /\ reported \subseteq CallIds /\ lock \in BOOLEAN /\ tensors \in CallIds \cup {0}
  /\ worker \in {"down", "up", "dead"}
  /\ rank \in [WorkerRanks -> [pc : RankPcs, id : CallIds \cup {0}, kind : Kinds, base : Nat]]
  /\ vllm \in {"down", "awake", "asleep"} /\ served \subseteq CallIds
  /\ returned \subseteq CallIds
  /\ restarts \in 0..MaxRestarts /\ kills \in 0..MaxKills

OnGpu(r) == rank[r].pc \in {"start", "load", "run", "save", "push", "offload"}

\* In shared mode the ranks and an awake vLLM hold the GPUs together only while
\* a worker the current call has just spawned builds its model, up to the next
\* step of that call, which puts vLLM to sleep (service.py:732, 733): never for
\* a job, and never once the call has gone on, returned or failed.
GpuExclusive ==
  Shared /\ vllm = "awake" =>
    \A r \in WorkerRanks : OnGpu(r) => rank[r].pc = "start" /\ pc = "sleep"

\* A rank that runs an RL job finds that job's rows in the one directory all
\* jobs use (train.py removes it, backend.py fills it).
TrainsOnOwnRows ==
  \A r \in WorkerRanks :
    rank[r].pc = "run" /\ rank[r].kind = "rl" => tensors = rank[r].id

\* What the client merges is all there, and is what its own job made of the
\* checkpoint it started from.
MergesOwnShards ==
  pc = "merge" \/ (pc \in {"mkdir", "fill"} /\ MergesIntoTarget)
    => ShardsThere /\ \A r \in WorkerRanks : shards[r] = Trained

\* Between calls vLLM serves what the latest step's directory holds.
ServedIsLatest ==
  pc = "idle" /\ Open =>
    latest \in DOMAIN ckpt /\ (vllm # "down" => served = ckpt[latest])

\* docs/fundamentals/training-loop.mdx:19 "initializing from the latest
\* checkpoint": no training whose call returned is ever missing from what is
\* served, whatever failed and was started again since.
TrainingKept == pc = "idle" /\ Open => returned \subseteq served

=============================================================================
