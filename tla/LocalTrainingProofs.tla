------------------------- MODULE LocalTrainingProofs -------------------------
(* Theorems about LocalTraining, for every value of its constants: the       *)
(* Unsloth service's invariant, for any number of rows and calls, and what   *)
(* the composition of the backend with its two services keeps of each.       *)
EXTENDS LocalTraining, MegatronJobsProofs, GdnLayersProofs, FiniteSetTheorems

-----------------------------------------------------------------------------
(* The steps of an Unsloth service and the invariant they keep.              *)

\* Any number of rows: the bound MaxRows is for TLC.
UnslothStep ==
  \/ StartService \/ (\E kind \in {"rl", "sft"} : BeginTraining(kind))
  \/ (\E n \in Nat : RowsHandedOver(n)) \/ NoRows
  \/ TaskStep \/ ClientStep \/ RequestFails \/ Disturbance

RowIds == Nat \X Nat

Places == Suspended \cup {"new", "idle", "pack", "feed", "aclose"}
\* Where the adapter may be merged into the model.
Sending == {"begin", "send", "finish", "rename"}

ClientTypes ==
  /\ setup \in {"shared", "dedicated", "merged"} /\ at \in Places
  /\ begun \in Nat /\ closed \in BOOLEAN /\ built \in BOOLEAN
  /\ task \in {"none", "waiting", "done", "raised"}
  /\ attached \in BOOLEAN /\ warmup \in BOOLEAN
  /\ runtime \in {"down", "awake", "asleep", "paused"}
JobTypes ==
  job \in [id : Nat, kind : {"sync", "rl", "sft", "skip"}, rows : Nat,
           yielded : Seq(RowIds), failed : BOOLEAN]
QueueTypes ==
  /\ inputs \in Seq(RowIds) /\ answers \in Seq(RowIds)
  /\ unfinished \in Int /\ orphans \in Nat
WeightsTypes ==
  /\ trainer \in [weights : SUBSET RowIds, merged : BOOLEAN, onGpu : BOOLEAN]
  /\ \A s \in DOMAIN saved : saved[s] \in SUBSET RowIds

LastWeights == saved[NewestStep]

\* The checkpoints are numbered without a gap.
CheckpointsInv ==
  \/ DOMAIN saved = {} /\ at = "new"
  \/ NewestStep \in Nat /\ DOMAIN saved = 0..NewestStep

SetupInv ==
  /\ setup = "shared" => at \notin {"transfer", "pause", "resume"} \cup Sending
  /\ setup # "shared" => at \notin {"sleep", "wake"}
  /\ setup = "dedicated" => at \notin {"transfer", "pause", "resume"} \cup Sending
  /\ setup = "merged" => at # "load"

JobInv ==
  /\ at \in {"new", "idle", "boot", "transfer"} \/ job.kind = "sync" => job = NoCallYet
  /\ at \in {"pack", "sleep", "join", "feed", "wait", "cool", "yield", "wake", "load",
             "pause", "resume", "register"} => job.kind # "sync"
  /\ job.kind # "sync" => job.id # 0
  /\ job.failed => at \in {"resume", "aclose", "stopping"}
  /\ at = "pack" => job.rows = 0 /\ job.yielded = <<>>
  /\ job.kind = "skip" => job.rows = 0
  /\ job.kind = "skip" <=> at = "register"

BuiltInv ==
  /\ at = "new" => ~built
  /\ OneGpuSet /\ at # "new" => built
  /\ at \in {"sleep", "join", "feed", "wait", "cool", "yield", "wake", "load", "pause",
             "resume", "transfer"} \cup Sending => built

ClosedInv ==
  /\ closed => at \notin {"new", "boot"}
  /\ closed \/ at \in {"new", "boot"} => runtime = "down" /\ names = <<>>

GpuInv ==
  OneGpuSet =>
    /\ at \in {"boot", "wake"} => ~trainer.onGpu
    /\ runtime = "awake" /\ built => ~trainer.onGpu

-----------------------------------------------------------------------------
(* The queues. *)

\* Between the rows: nothing is in the queues but maybe the sentinel that a
\* task which raised has left, and an abandoned get only if nothing will come.
QueuesIdle ==
  /\ Len(answers) = 0 /\ unfinished = 0
  /\ Len(inputs) = 0 \/ (Len(inputs) = 1 /\ inputs[1] = Stop)
  /\ ~attached => task # "waiting"
  /\ orphans > 0 => Len(inputs) = 1 \/ (attached /\ task # "waiting")

\* What the client has fed and waits for.
RowAwaited == IF warmup THEN Warming(NextRow) ELSE RowOf(NextRow)

RowFed ==
  /\ Len(answers) = 0 /\ unfinished = 0
  /\ \/ Len(inputs) = 1 /\ inputs[1] = RowAwaited /\ (orphans > 0 => task # "waiting")
     \/ Len(inputs) = 2 /\ inputs[1] = Stop /\ inputs[2] = RowAwaited
     \/ Len(inputs) = 0 /\ task # "waiting"
RowTrained ==
  /\ Len(answers) = 1 /\ unfinished = 1 /\ answers[1] = RowAwaited
  /\ Len(inputs) = 0 /\ orphans = 0
  /\ ~warmup => RowAwaited \in trainer.weights

\* The task would take a row next, and may raise over it.
RowLeft == task = "waiting" /\ Len(inputs) > 0 /\ inputs[1] # Stop

QueueInv ==
  /\ at \notin {"wait", "aclose", "stopping"} /\ ~(at = "idle" /\ closed) => QueuesIdle
  /\ at \in {"feed", "wait", "cool", "yield"} /\ job.kind = "rl" => attached
  /\ at = "wait" => job.kind = "rl" /\ NextRow <= job.rows /\ (RowFed \/ RowTrained)
  /\ at = "cool" => job.kind = "rl"
  /\ at = "aclose" /\ attached /\ RowLeft =>
       Len(inputs) = 1 /\ Len(answers) = 0 /\ unfinished = 0
  /\ at = "stopping" =>
       /\ ~attached
       /\ RowLeft => /\ Len(inputs) = 2 /\ inputs[2] = Stop
                     /\ Len(answers) = 0 /\ unfinished = 0
       /\ task = "raised" => /\ Len(inputs) = 1 /\ inputs[1] = Stop
                             /\ Len(answers) = 0 /\ unfinished = 0

YieldInv ==
  /\ \A i \in DOMAIN job.yielded : job.yielded[i] = RowOf(i) /\ RowOf(i) \in trainer.weights
  /\ Len(job.yielded) <= job.rows
  /\ at \in {"wake", "load", "resume"} \cup Syncing /\ job.kind \in {"rl", "sft"} =>
       \A i \in 1..job.rows : RowOf(i) \in LastWeights

-----------------------------------------------------------------------------
(* What vLLM serves. *)

Named == \A s \in DOMAIN names : s \in DOMAIN saved /\ names[s] = saved[s]

\* vLLM names its step, which has the weights the next call goes on from, and
\* the trainer has at least those.
Sound ==
  /\ Named
  /\ ~closed => /\ latestStep \in DOMAIN names /\ names[latestStep] = LastWeights
                /\ setup = "merged" => \A s \in DOMAIN names : names[s] = LastWeights
                /\ ~OneGpuSet => runtime = "awake"
  /\ built => LastWeights \subseteq trainer.weights

\* The training task failed, and the service was not closed.
LeftBehind == task = "raised" /\ ~attached

NamesInv ==
  /\ at \in {"idle", "pack", "sleep", "join", "feed", "wait", "cool", "yield",
             "register"} /\ ~(at = "idle" /\ closed) => Sound
  /\ at = "aclose" /\ attached /\ RowLeft => Sound
  /\ at = "stopping" /\ (RowLeft \/ task = "raised") => Sound
  /\ at \in {"wake", "load", "pause"} => Named
  /\ at \in {"transfer", "resume"} \cup Syncing /\ ~closed => DOMAIN names # {}
  /\ at \in {"finish", "rename"} /\ ~closed => \A s \in DOMAIN names : names[s] = trainer.weights
  /\ at = "resume" /\ ~job.failed => Named
  /\ at = "resume" /\ ~job.failed /\ ~closed =>
       /\ latestStep \in DOMAIN names
       /\ \A s \in DOMAIN names : names[s] = LastWeights

TrainerInv ==
  /\ trainer.merged => at \in Sending
  /\ at = "boot" => latestStep = NewestStep /\ (built => trainer.weights = LastWeights)
  /\ at = "rename" => latestStep = NewestStep
  /\ at \in {"wake", "load", "transfer", "resume"} \cup Syncing => trainer.weights = LastWeights
  /\ at \in {"idle", "pack", "register"} /\ ~closed =>
       LeftBehind \/ (runtime = "awake" /\ (built => trainer.weights = LastWeights))

AwakeInv ==
  /\ at \in {"transfer"} \cup Sending /\ job.kind = "sync" /\ ~closed => runtime = "awake"
  /\ at \in Sending /\ job.kind # "sync" => runtime \in {"paused", "down"}
  /\ at = "resume" /\ ~job.failed => runtime \in {"paused", "down"}
  /\ at \in {"load", "pause"} /\ ~closed => runtime = "awake"

LearnedInv ==
  IF DOMAIN saved = {} THEN learned = {} ELSE learned \subseteq LastWeights

UnslothInv ==
  /\ ClientTypes /\ JobTypes /\ QueueTypes /\ WeightsTypes
  /\ CheckpointsInv /\ SetupInv /\ JobInv /\ BuiltInv /\ ClosedInv /\ GpuInv
  /\ QueueInv /\ YieldInv /\ NamesInv /\ TrainerInv /\ AwakeInv /\ LearnedInv

-----------------------------------------------------------------------------
\* The steps in the groups in which the proofs go through them.
GroupedStep ==
  \/ TaskStops \/ TaskTrains \/ TaskRaises \/ OrphanTakes
  \/ StopTask \/ CloseService \/ CloseBreaksOff \/ BackendCloses \/ RuntimeExits \/ BootFails
  \/ StartAgain \/ StartService \/ RuntimeUp \/ TransferReady
  \/ (\E kind \in {"rl", "sft"} : BeginTraining(kind)) \/ (\E n \in Nat : RowsHandedOver(n))
  \/ NoRows \/ PutToSleep \/ Joined
  \/ FeedRow \/ WarmupOver \/ Answered \/ GoOn \/ SftBatchTrained \/ SaveStep
  \/ WokenUp \/ AdapterReady \/ CopyNamed
  \/ GenerationPaused \/ UpdateBegun \/ WeightsSent \/ UpdateFinished \/ NameSet
  \/ GenerationResumed \/ SyncFails
  \/ CallBreaksOff \/ RegisterFails \/ TaskEnded

LEMMA StepsListed == UnslothStep => GroupedStep
  BY Zenon DEF UnslothStep, GroupedStep, TaskStep, ClientStep, RequestFails, CallerLeaves, Disturbance

-----------------------------------------------------------------------------
(* Facts about the queues, the rows and the checkpoints. *)

LEMMA SeqFacts ==
  ASSUME NEW s \in Seq(RowIds)
  PROVE  /\ Len(s) \in Nat /\ DOMAIN s = 1..Len(s) /\ (s = <<>> <=> Len(s) = 0)
         /\ \A i \in 1..Len(s) : s[i] \in RowIds
         /\ s # <<>> => /\ Head(s) = s[1] /\ Head(s) \in RowIds
                        /\ Tail(s) \in Seq(RowIds) /\ Len(Tail(s)) = Len(s) - 1
                        /\ \A i \in 1..(Len(s) - 1) : Tail(s)[i] = s[i + 1]
         /\ \A x \in RowIds :
              /\ Append(s, x) \in Seq(RowIds) /\ Len(Append(s, x)) = Len(s) + 1
              /\ Append(s, x)[Len(s) + 1] = x
              /\ \A i \in 1..Len(s) : Append(s, x)[i] = s[i]
  OBVIOUS

LEMMA EmptyFacts == <<>> \in Seq(RowIds) /\ Len(<<>>) = 0 /\ DOMAIN <<>> = {}
  OBVIOUS

LEMMA RowFacts ==
  ASSUME JobTypes
  PROVE  /\ job.id \in Nat /\ job.rows \in Nat /\ NextRow \in Nat /\ NextRow = Len(job.yielded) + 1
         /\ job.yielded \in Seq(RowIds) /\ Len(job.yielded) \in Nat
         /\ RowOf(NextRow) \in RowIds /\ Warming(NextRow) \in RowIds /\ Stop \in RowIds
         /\ Warming(NextRow) # Stop /\ RowOf(NextRow)[1] = job.id /\ Warming(NextRow)[1] = 0
         /\ RowOf(NextRow) # Stop
  BY SeqFacts DEF JobTypes, NextRow, RowOf, Warming, Stop, RowIds

LEMMA NoCallTypes ==
  /\ NoCallYet \in [id : Nat, kind : {"sync", "rl", "sft", "skip"}, rows : Nat,
                    yielded : Seq(RowIds), failed : BOOLEAN]
  /\ NoCallYet.id = 0 /\ NoCallYet.kind = "sync" /\ NoCallYet.rows = 0
  /\ NoCallYet.yielded = <<>> /\ NoCallYet.failed = FALSE
  BY EmptyFacts DEF NoCallYet

LEMMA NewestSaved ==
  ASSUME CheckpointsInv, at # "new"
  PROVE  NewestStep \in Nat /\ NewestStep \in DOMAIN saved /\ DOMAIN saved = 0..NewestStep
  BY DEF CheckpointsInv

LEMMA AwaitedStays ==
  job' = job /\ warmup' = warmup => RowAwaited' = RowAwaited /\ NextRow' = NextRow
  BY DEF RowAwaited, NextRow, Warming, RowOf

LEMMA AwaitedFacts ==
  ASSUME JobTypes, ClientTypes
  PROVE  RowAwaited \in RowIds /\ RowAwaited # Stop /\ Stop \in RowIds
  BY RowFacts DEF ClientTypes, RowAwaited

-----------------------------------------------------------------------------
(* Each part of the invariant is kept by every step of the service.          *)

LEMMA SetupKept ==
  ASSUME ClientTypes, JobTypes, SetupInv, UnslothStep PROVE SetupInv'
<1> USE DEF ClientTypes, JobTypes, SetupInv, OneGpuSet, Sending, Syncing,
      clientState, serviceState, queueState,
      contextState, runtimeState
<1>1. CASE TaskStops \/ TaskTrains \/ TaskRaises \/ OrphanTakes
  BY <1>1 DEF TaskStops, TaskTrains, TaskRaises, OrphanTakes, TaskTakes
<1>2. CASE \/ StopTask \/ CloseService \/ CloseBreaksOff \/ BackendCloses
           \/ RuntimeExits \/ BootFails
  BY <1>2 DEF StopTask, CloseService, CloseBreaksOff, BackendCloses, RuntimeExits,
     BootFails, CallOver, Closes
<1>3. CASE StartAgain \/ StartService \/ RuntimeUp \/ TransferReady
  BY <1>3 DEF StartAgain, StartService, RuntimeUp, TransferReady, BuildContext
<1>4. CASE \/ (\E kind \in {"rl", "sft"} : BeginTraining(kind))
           \/ (\E n \in Nat : RowsHandedOver(n)) \/ NoRows \/ PutToSleep \/ Joined
  BY <1>4 DEF BeginTraining, RowsHandedOver, NoRows, PutToSleep, Joined,
     BuildContext
<1>5. CASE FeedRow \/ WarmupOver \/ Answered \/ GoOn \/ SftBatchTrained \/ SaveStep
  BY <1>5 DEF FeedRow, WarmupOver, Answered, GoOn, SftBatchTrained, SaveStep,
     TakeAnswer
<1>6. CASE WokenUp \/ AdapterReady \/ CopyNamed
  BY <1>6 DEF WokenUp, AdapterReady, CopyNamed, CallOver
<1>7. CASE \/ GenerationPaused \/ UpdateBegun \/ WeightsSent \/ UpdateFinished
           \/ NameSet \/ GenerationResumed \/ SyncFails
  BY <1>7 DEF GenerationPaused, UpdateBegun, WeightsSent, UpdateFinished, NameSet,
     GenerationResumed, SyncFails, CallOver, Pausing
<1>8. CASE CallBreaksOff \/ RegisterFails \/ TaskEnded
  BY <1>8 DEF CallBreaksOff, RegisterFails, TaskEnded, CallOver
<1> QED BY StepsListed, <1>1, <1>2, <1>3, <1>4, <1>5, <1>6, <1>7, <1>8 DEF
      GroupedStep

LEMMA JobKept ==
  ASSUME ClientTypes, JobTypes, JobInv, UnslothStep PROVE JobInv'
<1> USE DEF ClientTypes, JobTypes, JobInv, NoCallYet, Sending, Syncing,
      clientState, serviceState, queueState,
      contextState, runtimeState
<1>1. CASE TaskStops \/ TaskTrains \/ TaskRaises \/ OrphanTakes
  BY <1>1 DEF TaskStops, TaskTrains, TaskRaises, OrphanTakes, TaskTakes
<1>2. CASE \/ StopTask \/ CloseService \/ CloseBreaksOff \/ BackendCloses
           \/ RuntimeExits \/ BootFails
  BY <1>2 DEF StopTask, CloseService, CloseBreaksOff, BackendCloses, RuntimeExits,
     BootFails, CallOver, Closes
<1>3. CASE StartAgain \/ StartService \/ RuntimeUp \/ TransferReady
  BY <1>3 DEF StartAgain, StartService, RuntimeUp, TransferReady, BuildContext
<1>4. CASE \/ (\E kind \in {"rl", "sft"} : BeginTraining(kind))
           \/ (\E n \in Nat : RowsHandedOver(n)) \/ NoRows \/ PutToSleep \/ Joined
  <2>1. CASE \E kind \in {"rl", "sft"} : BeginTraining(kind)
    BY <2>1 DEF BeginTraining
  <2>2. CASE \E n \in Nat : RowsHandedOver(n)
    BY <2>2 DEF RowsHandedOver, BuildContext
  <2>3. CASE NoRows
    BY <2>3 DEF NoRows
  <2>4. CASE PutToSleep
    BY <2>4 DEF PutToSleep
  <2>5. CASE Joined
    BY <2>5 DEF Joined
  <2> QED BY <1>4, <2>1, <2>2, <2>3, <2>4, <2>5
<1>5. CASE FeedRow \/ WarmupOver \/ Answered \/ GoOn \/ SftBatchTrained \/ SaveStep
  BY <1>5 DEF FeedRow, WarmupOver, Answered, GoOn, SftBatchTrained, SaveStep,
     TakeAnswer
<1>6. CASE WokenUp \/ AdapterReady \/ CopyNamed
  BY <1>6 DEF WokenUp, AdapterReady, CopyNamed, CallOver
<1>7. CASE \/ GenerationPaused \/ UpdateBegun \/ WeightsSent \/ UpdateFinished
           \/ NameSet \/ GenerationResumed \/ SyncFails
  BY <1>7 DEF GenerationPaused, UpdateBegun, WeightsSent, UpdateFinished, NameSet,
     GenerationResumed, SyncFails, CallOver, Pausing
<1>8. CASE CallBreaksOff \/ RegisterFails \/ TaskEnded
  BY <1>8 DEF CallBreaksOff, RegisterFails, TaskEnded, CallOver
<1> QED BY StepsListed, <1>1, <1>2, <1>3, <1>4, <1>5, <1>6, <1>7, <1>8 DEF
      GroupedStep

LEMMA BuiltKept ==
  ASSUME ClientTypes, JobTypes, SetupInv, BuiltInv, UnslothStep PROVE BuiltInv'
<1> USE DEF ClientTypes, JobTypes, SetupInv, BuiltInv, OneGpuSet, Sending,
      Syncing, clientState, serviceState, queueState,
      contextState, runtimeState
<1>1. CASE TaskStops \/ TaskTrains \/ TaskRaises \/ OrphanTakes
  BY <1>1 DEF TaskStops, TaskTrains, TaskRaises, OrphanTakes, TaskTakes
<1>2. CASE \/ StopTask \/ CloseService \/ CloseBreaksOff \/ BackendCloses
           \/ RuntimeExits \/ BootFails
  BY <1>2 DEF StopTask, CloseService, CloseBreaksOff, BackendCloses, RuntimeExits,
     BootFails, CallOver, Closes
<1>3. CASE StartAgain \/ StartService \/ RuntimeUp \/ TransferReady
  BY <1>3 DEF StartAgain, StartService, RuntimeUp, TransferReady, BuildContext
<1>4. CASE \/ (\E kind \in {"rl", "sft"} : BeginTraining(kind))
           \/ (\E n \in Nat : RowsHandedOver(n)) \/ NoRows \/ PutToSleep \/ Joined
  BY <1>4 DEF BeginTraining, RowsHandedOver, NoRows, PutToSleep, Joined,
     BuildContext
<1>5. CASE FeedRow \/ WarmupOver \/ Answered \/ GoOn \/ SftBatchTrained \/ SaveStep
  BY <1>5 DEF FeedRow, WarmupOver, Answered, GoOn, SftBatchTrained, SaveStep,
     TakeAnswer
<1>6. CASE WokenUp \/ AdapterReady \/ CopyNamed
  BY <1>6 DEF WokenUp, AdapterReady, CopyNamed, CallOver
<1>7. CASE \/ GenerationPaused \/ UpdateBegun \/ WeightsSent \/ UpdateFinished
           \/ NameSet \/ GenerationResumed \/ SyncFails
  BY <1>7 DEF GenerationPaused, UpdateBegun, WeightsSent, UpdateFinished, NameSet,
     GenerationResumed, SyncFails, CallOver, Pausing
<1>8. CASE CallBreaksOff \/ RegisterFails \/ TaskEnded
  BY <1>8 DEF CallBreaksOff, RegisterFails, TaskEnded, CallOver
<1> QED BY StepsListed, <1>1, <1>2, <1>3, <1>4, <1>5, <1>6, <1>7, <1>8 DEF
      GroupedStep

LEMMA ClosedKept ==
  ASSUME ClientTypes, JobTypes, ClosedInv, UnslothStep PROVE ClosedInv'
<1> USE DEF ClientTypes, JobTypes, ClosedInv, Syncing, Suspended, clientState,
      serviceState, queueState,
      contextState, runtimeState
<1>1. CASE TaskStops \/ TaskTrains \/ TaskRaises \/ OrphanTakes
  BY <1>1 DEF TaskStops, TaskTrains, TaskRaises, OrphanTakes, TaskTakes
<1>2. CASE \/ StopTask \/ CloseService \/ CloseBreaksOff \/ BackendCloses
           \/ RuntimeExits \/ BootFails
  BY <1>2 DEF StopTask, CloseService, CloseBreaksOff, BackendCloses, RuntimeExits,
     BootFails, CallOver, Closes
<1>3. CASE StartAgain \/ StartService \/ RuntimeUp \/ TransferReady
  BY <1>3 DEF StartAgain, StartService, RuntimeUp, TransferReady, BuildContext
<1>4. CASE \/ (\E kind \in {"rl", "sft"} : BeginTraining(kind))
           \/ (\E n \in Nat : RowsHandedOver(n)) \/ NoRows \/ PutToSleep \/ Joined
  BY <1>4 DEF BeginTraining, RowsHandedOver, NoRows, PutToSleep, Joined,
     BuildContext
<1>5. CASE FeedRow \/ WarmupOver \/ Answered \/ GoOn \/ SftBatchTrained \/ SaveStep
  BY <1>5 DEF FeedRow, WarmupOver, Answered, GoOn, SftBatchTrained, SaveStep,
     TakeAnswer
<1>6. CASE WokenUp \/ AdapterReady \/ CopyNamed
  BY <1>6 DEF WokenUp, AdapterReady, CopyNamed, CallOver
<1>7. CASE \/ GenerationPaused \/ UpdateBegun \/ WeightsSent \/ UpdateFinished
           \/ NameSet \/ GenerationResumed \/ SyncFails
  BY <1>7 DEF GenerationPaused, UpdateBegun, WeightsSent, UpdateFinished, NameSet,
     GenerationResumed, SyncFails, CallOver, Pausing
<1>8. CASE CallBreaksOff \/ RegisterFails \/ TaskEnded
  BY <1>8 DEF CallBreaksOff, RegisterFails, TaskEnded, CallOver
<1> QED BY StepsListed, <1>1, <1>2, <1>3, <1>4, <1>5, <1>6, <1>7, <1>8 DEF
      GroupedStep

LEMMA GpuKept ==
  ASSUME WeightsTypes, ClientTypes, JobTypes, SetupInv, BuiltInv, ClosedInv,
        GpuInv, UnslothStep PROVE GpuInv'
<1> USE DEF WeightsTypes, ClientTypes, JobTypes, SetupInv, BuiltInv, ClosedInv,
      GpuInv, OneGpuSet, FreshTrainer,
      Sending, Syncing, clientState, serviceState, queueState,
      contextState, runtimeState
<1>1. CASE TaskStops \/ TaskTrains \/ TaskRaises \/ OrphanTakes
  BY <1>1 DEF TaskStops, TaskTrains, TaskRaises, OrphanTakes, TaskTakes
<1>2. CASE \/ StopTask \/ CloseService \/ CloseBreaksOff \/ BackendCloses
           \/ RuntimeExits \/ BootFails
  BY <1>2 DEF StopTask, CloseService, CloseBreaksOff, BackendCloses, RuntimeExits,
     BootFails, CallOver, Closes
<1>3. CASE StartAgain \/ StartService \/ RuntimeUp \/ TransferReady
  BY <1>3 DEF StartAgain, StartService, RuntimeUp, TransferReady, BuildContext
<1>4. CASE \/ (\E kind \in {"rl", "sft"} : BeginTraining(kind))
           \/ (\E n \in Nat : RowsHandedOver(n)) \/ NoRows \/ PutToSleep \/ Joined
  BY <1>4 DEF BeginTraining, RowsHandedOver, NoRows, PutToSleep, Joined,
     BuildContext
<1>5. CASE FeedRow \/ WarmupOver \/ Answered \/ GoOn \/ SftBatchTrained \/ SaveStep
  BY <1>5 DEF FeedRow, WarmupOver, Answered, GoOn, SftBatchTrained, SaveStep,
     TakeAnswer
<1>6. CASE WokenUp \/ AdapterReady \/ CopyNamed
  BY <1>6 DEF WokenUp, AdapterReady, CopyNamed, CallOver
<1>7. CASE \/ GenerationPaused \/ UpdateBegun \/ WeightsSent \/ UpdateFinished
           \/ NameSet \/ GenerationResumed \/ SyncFails
  BY <1>7 DEF GenerationPaused, UpdateBegun, WeightsSent, UpdateFinished, NameSet,
     GenerationResumed, SyncFails, CallOver, Pausing
<1>8. CASE CallBreaksOff \/ RegisterFails \/ TaskEnded
  BY <1>8 DEF CallBreaksOff, RegisterFails, TaskEnded, CallOver
<1> QED BY StepsListed, <1>1, <1>2, <1>3, <1>4, <1>5, <1>6, <1>7, <1>8 DEF
      GroupedStep

LEMMA FirstSaved ==
  ASSUME DOMAIN saved = {}, saved' = SavedAs(0, {})
  PROVE  NewestStep' = 0 /\ DOMAIN saved' = 0..0 /\ LastWeights' = {}
<1>1. DOMAIN saved' = {0} /\ saved'[0] = {}
  BY DEF SavedAs
<1>2. NewestStep' = 0
  BY <1>1 DEF NewestStep
<1> QED BY <1>1, <1>2 DEF LastWeights

LEMMA NextSaved ==
  ASSUME CheckpointsInv, at # "new", NEW w, saved' = SavedAs(NewestStep + 1, w)
  PROVE  /\ NewestStep \in Nat /\ NewestStep' = NewestStep + 1
         /\ DOMAIN saved = 0..NewestStep /\ DOMAIN saved' = 0..(NewestStep + 1)
         /\ LastWeights' = w /\ saved'[NewestStep + 1] = w
         /\ \A s \in DOMAIN saved : s \in DOMAIN saved' /\ saved'[s] = saved[s]
<1> DEFINE k == NewestStep
<1>1. k \in Nat /\ DOMAIN saved = 0..k
  BY DEF CheckpointsInv
<1>2. /\ DOMAIN saved' = 0..(k + 1) /\ saved'[k + 1] = w
      /\ \A s \in DOMAIN saved : s \in DOMAIN saved' /\ saved'[s] = saved[s]
  BY <1>1 DEF SavedAs
<1> HIDE DEF k
<1>3. NewestStep' = k + 1
  BY <1>1, <1>2 DEF NewestStep
<1> QED BY <1>1, <1>2, <1>3 DEF LastWeights, k

LEMMA SavedStays ==
  saved' = saved => NewestStep' = NewestStep /\ LastWeights' = LastWeights
  BY DEF NewestStep, LastWeights

LEMMA CheckpointsKept ==
  ASSUME CheckpointsInv, UnslothStep PROVE CheckpointsInv'
<1> USE DEF CheckpointsInv, Syncing, Suspended, clientState, serviceState,
      queueState,
      contextState, runtimeState
<1>1. CASE TaskStops \/ TaskTrains \/ TaskRaises \/ OrphanTakes
  BY <1>1, SavedStays DEF TaskStops, TaskTrains, TaskRaises, OrphanTakes, TaskTakes
<1>2. CASE \/ StopTask \/ CloseService \/ CloseBreaksOff \/ BackendCloses
           \/ RuntimeExits \/ BootFails
  BY <1>2, SavedStays DEF StopTask, CloseService, CloseBreaksOff, BackendCloses,
     RuntimeExits,
     BootFails, CallOver, Closes
<1>3. CASE StartAgain \/ StartService \/ RuntimeUp \/ TransferReady
  <2>1. CASE StartAgain
    BY <2>1, SavedStays DEF StartAgain
  <2>2. CASE StartService
    BY <2>2, SavedStays, FirstSaved DEF StartService, BuildContext
  <2>3. CASE RuntimeUp
    BY <2>3, SavedStays DEF RuntimeUp, BuildContext
  <2>4. CASE TransferReady
    BY <2>4, SavedStays DEF TransferReady
  <2> QED BY <1>3, <2>1, <2>2, <2>3, <2>4
<1>4. CASE \/ (\E kind \in {"rl", "sft"} : BeginTraining(kind))
           \/ (\E n \in Nat : RowsHandedOver(n)) \/ NoRows \/ PutToSleep \/ Joined
  <2>1. CASE \E kind \in {"rl", "sft"} : BeginTraining(kind)
    BY <2>1, SavedStays DEF BeginTraining
  <2>2. CASE \E n \in Nat : RowsHandedOver(n)
    BY <2>2, SavedStays DEF RowsHandedOver, BuildContext
  <2>3. CASE NoRows
    BY <2>3, SavedStays, NextSaved DEF NoRows
  <2>4. CASE PutToSleep
    BY <2>4, SavedStays DEF PutToSleep
  <2>5. CASE Joined
    BY <2>5, SavedStays DEF Joined
  <2> QED BY <1>4, <2>1, <2>2, <2>3, <2>4, <2>5
<1>5. CASE FeedRow \/ WarmupOver \/ Answered \/ GoOn \/ SftBatchTrained \/ SaveStep
  <2>1. CASE FeedRow
    BY <2>1, SavedStays DEF FeedRow
  <2>2. CASE WarmupOver
    BY <2>2, SavedStays DEF WarmupOver, TakeAnswer
  <2>3. CASE Answered
    BY <2>3, SavedStays DEF Answered, TakeAnswer
  <2>4. CASE GoOn
    BY <2>4, SavedStays DEF GoOn
  <2>5. CASE SftBatchTrained
    BY <2>5, SavedStays DEF SftBatchTrained
  <2>6. CASE SaveStep
    BY <2>6, SavedStays, NextSaved DEF SaveStep
  <2> QED BY <1>5, <2>1, <2>2, <2>3, <2>4, <2>5, <2>6
<1>6. CASE WokenUp \/ AdapterReady \/ CopyNamed
  BY <1>6, SavedStays DEF WokenUp, AdapterReady, CopyNamed, CallOver
<1>7. CASE \/ GenerationPaused \/ UpdateBegun \/ WeightsSent \/ UpdateFinished
           \/ NameSet \/ GenerationResumed \/ SyncFails
  BY <1>7, SavedStays DEF GenerationPaused, UpdateBegun, WeightsSent,
     UpdateFinished, NameSet,
     GenerationResumed, SyncFails, CallOver, Pausing
<1>8. CASE CallBreaksOff \/ RegisterFails \/ TaskEnded
  BY <1>8, SavedStays DEF CallBreaksOff, RegisterFails, TaskEnded, CallOver
<1> QED BY StepsListed, <1>1, <1>2, <1>3, <1>4, <1>5, <1>6, <1>7, <1>8 DEF
      GroupedStep

LEMMA ClientTypesKept ==
  ASSUME ClientTypes, UnslothStep PROVE ClientTypes'
<1> USE DEF ClientTypes, Places, Suspended, Syncing, clientState, serviceState,
      queueState,
      contextState, runtimeState
<1>1. CASE TaskStops \/ TaskTrains \/ TaskRaises \/ OrphanTakes
  BY <1>1 DEF TaskStops, TaskTrains, TaskRaises, OrphanTakes, TaskTakes
<1>2. CASE \/ StopTask \/ CloseService \/ CloseBreaksOff \/ BackendCloses
           \/ RuntimeExits \/ BootFails
  BY <1>2 DEF StopTask, CloseService, CloseBreaksOff, BackendCloses, RuntimeExits,
     BootFails, CallOver, Closes
<1>3. CASE StartAgain \/ StartService \/ RuntimeUp \/ TransferReady
  BY <1>3 DEF StartAgain, StartService, RuntimeUp, TransferReady, BuildContext
<1>4. CASE \/ (\E kind \in {"rl", "sft"} : BeginTraining(kind))
           \/ (\E n \in Nat : RowsHandedOver(n)) \/ NoRows \/ PutToSleep \/ Joined
  <2>1. CASE \E kind \in {"rl", "sft"} : BeginTraining(kind)
    BY <2>1 DEF BeginTraining
  <2>2. CASE \E n \in Nat : RowsHandedOver(n)
    BY <2>2 DEF RowsHandedOver, BuildContext
  <2>3. CASE NoRows
    BY <2>3 DEF NoRows
  <2>4. CASE PutToSleep
    BY <2>4 DEF PutToSleep
  <2>5. CASE Joined
    BY <2>5 DEF Joined
  <2> QED BY <1>4, <2>1, <2>2, <2>3, <2>4, <2>5
<1>5. CASE FeedRow \/ WarmupOver \/ Answered \/ GoOn \/ SftBatchTrained \/ SaveStep
  <2>1. CASE FeedRow
    BY <2>1 DEF FeedRow
  <2>2. CASE WarmupOver
    BY <2>2 DEF WarmupOver, TakeAnswer
  <2>3. CASE Answered
    BY <2>3 DEF Answered, TakeAnswer
  <2>4. CASE GoOn
    BY <2>4 DEF GoOn
  <2>5. CASE SftBatchTrained
    BY <2>5 DEF SftBatchTrained
  <2>6. CASE SaveStep
    BY <2>6 DEF SaveStep
  <2> QED BY <1>5, <2>1, <2>2, <2>3, <2>4, <2>5, <2>6
<1>6. CASE WokenUp \/ AdapterReady \/ CopyNamed
  BY <1>6 DEF WokenUp, AdapterReady, CopyNamed, CallOver
<1>7. CASE \/ GenerationPaused \/ UpdateBegun \/ WeightsSent \/ UpdateFinished
           \/ NameSet \/ GenerationResumed \/ SyncFails
  BY <1>7 DEF GenerationPaused, UpdateBegun, WeightsSent, UpdateFinished, NameSet,
     GenerationResumed, SyncFails, CallOver, Pausing
<1>8. CASE CallBreaksOff \/ RegisterFails \/ TaskEnded
  BY <1>8 DEF CallBreaksOff, RegisterFails, TaskEnded, CallOver
<1> QED BY StepsListed, <1>1, <1>2, <1>3, <1>4, <1>5, <1>6, <1>7, <1>8 DEF
      GroupedStep

LEMMA JobTypesKept ==
  ASSUME ClientTypes, JobTypes, QueueTypes, UnslothStep PROVE JobTypes'
<1> USE DEF JobTypes, clientState, serviceState, queueState,
      contextState, runtimeState
<1>1. CASE TaskStops \/ TaskTrains \/ TaskRaises \/ OrphanTakes
  BY <1>1, NoCallTypes DEF TaskStops, TaskTrains, TaskRaises, OrphanTakes, TaskTakes
<1>2. CASE \/ StopTask \/ CloseService \/ CloseBreaksOff \/ BackendCloses
           \/ RuntimeExits \/ BootFails
  BY <1>2, NoCallTypes DEF StopTask, CloseService, CloseBreaksOff, BackendCloses,
     RuntimeExits,
     BootFails, CallOver, Closes
<1>3. CASE StartAgain \/ StartService \/ RuntimeUp \/ TransferReady
  BY <1>3, NoCallTypes DEF StartAgain, StartService, RuntimeUp, TransferReady,
     BuildContext
<1>4. CASE \/ (\E kind \in {"rl", "sft"} : BeginTraining(kind))
           \/ (\E n \in Nat : RowsHandedOver(n)) \/ NoRows \/ PutToSleep \/ Joined
  <2>1. CASE \E kind \in {"rl", "sft"} : BeginTraining(kind)
    <3>1. PICK kind \in {"rl", "sft"} : BeginTraining(kind)
      BY <2>1
    <3>2. job' = [id |-> begun + 1, kind |-> kind, rows |-> 0, yielded |-> <<>>, failed |-> FALSE]
      BY <3>1 DEF BeginTraining, NoCallYet
    <3> QED BY <3>2, EmptyFacts DEF ClientTypes
  <2>2. CASE \E n \in Nat : RowsHandedOver(n)
    BY <2>2, NoCallTypes DEF RowsHandedOver, BuildContext, ClientTypes
  <2>3. CASE NoRows
    BY <2>3, NoCallTypes DEF NoRows, ClientTypes
  <2>4. CASE PutToSleep
    BY <2>4, NoCallTypes DEF PutToSleep, ClientTypes
  <2>5. CASE Joined
    BY <2>5, NoCallTypes DEF Joined, ClientTypes
  <2> QED BY <1>4, <2>1, <2>2, <2>3, <2>4, <2>5
<1>5. CASE FeedRow \/ WarmupOver \/ Answered \/ GoOn \/ SftBatchTrained \/ SaveStep
  <2>1. CASE FeedRow
    BY <2>1, RowFacts, SeqFacts DEF FeedRow, QueueTypes
  <2>2. CASE WarmupOver
    BY <2>2, RowFacts, SeqFacts DEF WarmupOver, TakeAnswer, QueueTypes
  <2>3. CASE Answered
    BY <2>3, RowFacts, SeqFacts DEF Answered, TakeAnswer, QueueTypes
  <2>4. CASE GoOn
    BY <2>4, RowFacts, SeqFacts DEF GoOn, QueueTypes
  <2>5. CASE SftBatchTrained
    BY <2>5, RowFacts, SeqFacts DEF SftBatchTrained, QueueTypes
  <2>6. CASE SaveStep
    BY <2>6, RowFacts, SeqFacts DEF SaveStep, QueueTypes
  <2> QED BY <1>5, <2>1, <2>2, <2>3, <2>4, <2>5, <2>6
<1>6. CASE WokenUp \/ AdapterReady \/ CopyNamed
  <2>1. CASE WokenUp
    BY <2>1, NoCallTypes DEF WokenUp
  <2>2. CASE AdapterReady
    BY <2>2, NoCallTypes DEF AdapterReady, CallOver
  <2>3. CASE CopyNamed
    BY <2>3, NoCallTypes DEF CopyNamed, CallOver
  <2> QED BY <1>6, <2>1, <2>2, <2>3
<1>7. CASE \/ GenerationPaused \/ UpdateBegun \/ WeightsSent \/ UpdateFinished
           \/ NameSet \/ GenerationResumed \/ SyncFails
  BY <1>7, NoCallTypes DEF GenerationPaused, UpdateBegun, WeightsSent,
     UpdateFinished, NameSet,
     GenerationResumed, SyncFails, CallOver, Pausing
<1>8. CASE CallBreaksOff \/ RegisterFails \/ TaskEnded
  BY <1>8, NoCallTypes DEF CallBreaksOff, RegisterFails, TaskEnded, CallOver
<1> QED BY StepsListed, <1>1, <1>2, <1>3, <1>4, <1>5, <1>6, <1>7, <1>8 DEF
      GroupedStep

LEMMA QueueTypesKept ==
  ASSUME JobTypes, QueueTypes, UnslothStep PROVE QueueTypes'
<1> USE DEF QueueTypes, clientState, serviceState, queueState,
      contextState, runtimeState
<1>1. CASE TaskStops \/ TaskTrains \/ TaskRaises \/ OrphanTakes
  <2>1. CASE TaskStops
    BY <2>1, SeqFacts DEF TaskStops, TaskTakes
  <2>2. CASE TaskTrains
    BY <2>2, SeqFacts DEF TaskTrains, TaskTakes
  <2>3. CASE TaskRaises
    BY <2>3, SeqFacts DEF TaskRaises, TaskTakes
  <2>4. CASE OrphanTakes
    BY <2>4, SeqFacts DEF OrphanTakes
  <2> QED BY <1>1, <2>1, <2>2, <2>3, <2>4
<1>2. CASE \/ StopTask \/ CloseService \/ CloseBreaksOff \/ BackendCloses
           \/ RuntimeExits \/ BootFails
  <2>1. CASE StopTask
    BY <2>1, RowFacts, SeqFacts DEF StopTask
  <2>2. CASE CloseService
    BY <2>2, RowFacts, SeqFacts DEF CloseService, CallOver, Closes
  <2>3. CASE CloseBreaksOff
    BY <2>3, RowFacts, SeqFacts DEF CloseBreaksOff, CallOver
  <2>4. CASE BackendCloses
    BY <2>4, RowFacts, SeqFacts DEF BackendCloses
  <2>5. CASE RuntimeExits
    BY <2>5, RowFacts, SeqFacts DEF RuntimeExits, Closes
  <2>6. CASE BootFails
    BY <2>6, RowFacts, SeqFacts DEF BootFails, CallOver, Closes
  <2> QED BY <1>2, <2>1, <2>2, <2>3, <2>4, <2>5, <2>6
<1>3. CASE StartAgain \/ StartService \/ RuntimeUp \/ TransferReady
  <2>1. CASE StartAgain
    BY <2>1, EmptyFacts DEF StartAgain
  <2>2. CASE StartService
    BY <2>2, EmptyFacts DEF StartService, BuildContext
  <2>3. CASE RuntimeUp
    BY <2>3, EmptyFacts DEF RuntimeUp, BuildContext
  <2>4. CASE TransferReady
    BY <2>4, EmptyFacts DEF TransferReady
  <2> QED BY <1>3, <2>1, <2>2, <2>3, <2>4
<1>4. CASE \/ (\E kind \in {"rl", "sft"} : BeginTraining(kind))
           \/ (\E n \in Nat : RowsHandedOver(n)) \/ NoRows \/ PutToSleep \/ Joined
  BY <1>4, EmptyFacts DEF BeginTraining, RowsHandedOver, NoRows, PutToSleep,
     Joined, BuildContext
<1>5. CASE FeedRow \/ WarmupOver \/ Answered \/ GoOn \/ SftBatchTrained \/ SaveStep
  <2>1. CASE FeedRow
    BY <2>1, SeqFacts, RowFacts DEF FeedRow
  <2>2. CASE WarmupOver
    BY <2>2, SeqFacts, RowFacts DEF WarmupOver, TakeAnswer
  <2>3. CASE Answered
    BY <2>3, SeqFacts, RowFacts DEF Answered, TakeAnswer
  <2>4. CASE GoOn
    BY <2>4, SeqFacts, RowFacts DEF GoOn
  <2>5. CASE SftBatchTrained
    BY <2>5, SeqFacts, RowFacts DEF SftBatchTrained
  <2>6. CASE SaveStep
    BY <2>6, SeqFacts, RowFacts DEF SaveStep
  <2> QED BY <1>5, <2>1, <2>2, <2>3, <2>4, <2>5, <2>6
<1>6. CASE WokenUp \/ AdapterReady \/ CopyNamed
  BY <1>6, EmptyFacts DEF WokenUp, AdapterReady, CopyNamed, CallOver
<1>7. CASE \/ GenerationPaused \/ UpdateBegun \/ WeightsSent \/ UpdateFinished
           \/ NameSet \/ GenerationResumed \/ SyncFails
  BY <1>7, EmptyFacts DEF GenerationPaused, UpdateBegun, WeightsSent,
     UpdateFinished, NameSet,
     GenerationResumed, SyncFails, CallOver, Pausing
<1>8. CASE CallBreaksOff \/ RegisterFails \/ TaskEnded
  BY <1>8, EmptyFacts DEF CallBreaksOff, RegisterFails, TaskEnded, CallOver
<1> QED BY StepsListed, <1>1, <1>2, <1>3, <1>4, <1>5, <1>6, <1>7, <1>8 DEF
      GroupedStep

LEMMA WeightsTypesKept ==
  ASSUME ClientTypes, JobTypes, CheckpointsInv, QueueTypes, WeightsTypes,
        UnslothStep PROVE WeightsTypes'
<1> USE DEF WeightsTypes, FreshTrainer, clientState, serviceState, queueState,
      contextState, runtimeState
<1>1. CASE TaskStops \/ TaskTrains \/ TaskRaises \/ OrphanTakes
  <2>1. CASE TaskStops
    BY <2>1, SeqFacts DEF TaskStops, TaskTakes, QueueTypes
  <2>2. CASE TaskTrains
    <3>1. Head(inputs) \in RowIds
      BY <2>2, SeqFacts DEF TaskTrains, TaskTakes, QueueTypes
    <3>2. (IF Head(inputs)[1] = 0 THEN {} ELSE {Head(inputs)}) \in SUBSET RowIds
      BY <3>1
    <3> QED BY <2>2, <3>2 DEF TaskTrains
  <2>3. CASE TaskRaises
    BY <2>3, SeqFacts DEF TaskRaises, TaskTakes, QueueTypes
  <2>4. CASE OrphanTakes
    BY <2>4, SeqFacts DEF OrphanTakes, QueueTypes
  <2> QED BY <1>1, <2>1, <2>2, <2>3, <2>4
<1>2. CASE \/ StopTask \/ CloseService \/ CloseBreaksOff \/ BackendCloses
           \/ RuntimeExits \/ BootFails
  BY <1>2 DEF StopTask, CloseService, CloseBreaksOff, BackendCloses, RuntimeExits,
     BootFails, CallOver, Closes
<1>3. CASE StartAgain \/ StartService \/ RuntimeUp \/ TransferReady
  <2>1. CASE StartAgain
    BY <2>1, FirstSaved, NewestSaved DEF StartAgain, LastWeights
  <2>2. CASE StartService
    <3>1. \A s \in DOMAIN saved' : saved'[s] \in SUBSET RowIds
      BY <2>2 DEF StartService, SavedAs
    <3>2. latestStep' \in DOMAIN saved'
      BY <2>2, FirstSaved, SavedStays DEF StartService, CheckpointsInv
    <3> QED BY <2>2, <3>1, <3>2 DEF StartService, BuildContext
  <2>3. CASE RuntimeUp
    BY <2>3, FirstSaved, NewestSaved DEF RuntimeUp, BuildContext, LastWeights
  <2>4. CASE TransferReady
    BY <2>4, FirstSaved, NewestSaved DEF TransferReady, LastWeights
  <2> QED BY <1>3, <2>1, <2>2, <2>3, <2>4
<1>4. CASE \/ (\E kind \in {"rl", "sft"} : BeginTraining(kind))
           \/ (\E n \in Nat : RowsHandedOver(n)) \/ NoRows \/ PutToSleep \/ Joined
  <2>1. CASE \E kind \in {"rl", "sft"} : BeginTraining(kind)
    BY <2>1, NewestSaved, NextSaved DEF BeginTraining, LastWeights
  <2>2. CASE \E n \in Nat : RowsHandedOver(n)
    BY <2>2, NewestSaved, NextSaved DEF RowsHandedOver, BuildContext, LastWeights
  <2>3. CASE NoRows
    BY <2>3, NewestSaved, NextSaved DEF NoRows, LastWeights
  <2>4. CASE PutToSleep
    BY <2>4, NewestSaved, NextSaved DEF PutToSleep, LastWeights
  <2>5. CASE Joined
    BY <2>5, NewestSaved, NextSaved DEF Joined, LastWeights
  <2> QED BY <1>4, <2>1, <2>2, <2>3, <2>4, <2>5
<1>5. CASE FeedRow \/ WarmupOver \/ Answered \/ GoOn \/ SftBatchTrained \/ SaveStep
  <2>1. CASE FeedRow
    BY <2>1, RowFacts DEF FeedRow
  <2>2. CASE WarmupOver
    BY <2>2, RowFacts DEF WarmupOver, TakeAnswer
  <2>3. CASE Answered
    BY <2>3, RowFacts DEF Answered, TakeAnswer
  <2>4. CASE GoOn
    BY <2>4, RowFacts DEF GoOn
  <2>5. CASE SftBatchTrained
    BY <2>5, RowFacts DEF SftBatchTrained
  <2>6. CASE SaveStep
    <3>1. \A s \in DOMAIN saved' : saved'[s] \in SUBSET RowIds
      BY <2>6 DEF SaveStep, SavedAs
    <3> QED BY <2>6, <3>1 DEF SaveStep
  <2> QED BY <1>5, <2>1, <2>2, <2>3, <2>4, <2>5, <2>6
<1>6. CASE WokenUp \/ AdapterReady \/ CopyNamed
  BY <1>6 DEF WokenUp, AdapterReady, CopyNamed, CallOver
<1>7. CASE \/ GenerationPaused \/ UpdateBegun \/ WeightsSent \/ UpdateFinished
           \/ NameSet \/ GenerationResumed \/ SyncFails
  BY <1>7 DEF GenerationPaused, UpdateBegun, WeightsSent, UpdateFinished, NameSet,
     GenerationResumed, SyncFails, CallOver, Pausing
<1>8. CASE CallBreaksOff \/ RegisterFails \/ TaskEnded
  BY <1>8 DEF CallBreaksOff, RegisterFails, TaskEnded, CallOver
<1> QED BY StepsListed, <1>1, <1>2, <1>3, <1>4, <1>5, <1>6, <1>7, <1>8 DEF
      GroupedStep

LEMMA QueueKept ==
  ASSUME ClientTypes, JobTypes, QueueTypes, WeightsTypes, JobInv, ClosedInv,
        QueueInv, UnslothStep PROVE QueueInv'
<1> USE DEF ClientTypes, QueueTypes, WeightsTypes, clientState, serviceState,
      queueState,
      contextState, runtimeState
<1>1. CASE TaskStops \/ TaskTrains \/ TaskRaises \/ OrphanTakes
  <2>1. CASE TaskStops
    <3>1. /\ Len(inputs) > 0 /\ Head(inputs) = inputs[1] /\ Len(inputs') = Len(inputs) - 1
          /\ \A i \in 1..(Len(inputs) - 1) : inputs'[i] = inputs[i + 1]
          /\ Len(inputs) \in Nat /\ Len(answers) \in Nat
      BY <2>1, SeqFacts DEF TaskStops, TaskTakes
    <3>2. /\ UNCHANGED <<at, closed, job, warmup, attached, orphans>>
          /\ RowAwaited' = RowAwaited /\ NextRow' = NextRow /\ RowAwaited # Stop /\ task = "waiting"
      BY <2>1, AwaitedStays, AwaitedFacts DEF TaskStops, TaskTakes
    <3>3. inputs[1] = Stop /\ task' = "done" /\ UNCHANGED <<answers, unfinished, trainer>>
      BY <2>1, <3>1 DEF TaskStops, TaskTakes
    <3>4. at \notin {"wait", "aclose", "stopping"} /\ ~(at = "idle" /\ closed) => QueuesIdle'
      BY <3>1, <3>2, <3>3 DEF QueueInv, QueuesIdle, RowLeft
    <3>5. at = "wait" => RowFed' \/ RowTrained'
      BY <3>1, <3>2, <3>3 DEF QueueInv, QueuesIdle, RowLeft, RowFed, RowTrained
    <3>6. at = "aclose" /\ attached /\ RowLeft' =>
            Len(inputs') = 1 /\ Len(answers') = 0 /\ unfinished' = 0
      BY <3>1, <3>2, <3>3 DEF QueueInv, QueuesIdle, RowLeft
    <3>7. at = "stopping" =>
            /\ RowLeft' => /\ Len(inputs') = 2 /\ inputs'[2] = Stop
                           /\ Len(answers') = 0 /\ unfinished' = 0
            /\ task' = "raised" => /\ Len(inputs') = 1 /\ inputs'[1] = Stop
                                   /\ Len(answers') = 0 /\ unfinished' = 0
      BY <3>1, <3>2, <3>3 DEF QueueInv, RowLeft
    <3> QED BY <3>2, <3>4, <3>5, <3>6, <3>7 DEF QueueInv
  <2>2. CASE TaskTrains
    <3>1. /\ Len(inputs) > 0 /\ Head(inputs) = inputs[1] /\ Len(inputs') = Len(inputs) - 1
          /\ \A i \in 1..(Len(inputs) - 1) : inputs'[i] = inputs[i + 1]
          /\ Len(inputs) \in Nat /\ Len(answers) \in Nat
      BY <2>2, SeqFacts DEF TaskTrains, TaskTakes
    <3>2. /\ UNCHANGED <<at, closed, job, warmup, attached, orphans>>
          /\ RowAwaited' = RowAwaited /\ NextRow' = NextRow /\ RowAwaited # Stop /\ task = "waiting"
      BY <2>2, AwaitedStays, AwaitedFacts DEF TaskTrains, TaskTakes
    <3>w. at = "wait" /\ ~warmup /\ inputs[1] = RowAwaited => inputs[1][1] # 0
      BY RowFacts DEF JobInv, RowAwaited
    <3>3. /\ inputs[1] # Stop /\ task' = "waiting" /\ unfinished' = unfinished + 1
          /\ Len(answers') = Len(answers) + 1 /\ answers'[Len(answers) + 1] = inputs[1]
          /\ at = "wait" /\ ~warmup /\ inputs[1] = RowAwaited => inputs[1] \in trainer'.weights
      BY <2>2, <3>1, <3>w, SeqFacts DEF TaskTrains, TaskTakes
    <3>4. at \notin {"wait", "aclose", "stopping"} /\ ~(at = "idle" /\ closed) => QueuesIdle'
      BY <3>1, <3>2, <3>3 DEF QueueInv, QueuesIdle, RowLeft
    <3>5. at = "wait" => RowFed' \/ RowTrained'
      BY <3>1, <3>2, <3>3 DEF QueueInv, QueuesIdle, RowLeft, RowFed, RowTrained
    <3>6. at = "aclose" /\ attached /\ RowLeft' =>
            Len(inputs') = 1 /\ Len(answers') = 0 /\ unfinished' = 0
      BY <3>1, <3>2, <3>3 DEF QueueInv, QueuesIdle, RowLeft
    <3>7. at = "stopping" =>
            /\ RowLeft' => /\ Len(inputs') = 2 /\ inputs'[2] = Stop
                           /\ Len(answers') = 0 /\ unfinished' = 0
            /\ task' = "raised" => /\ Len(inputs') = 1 /\ inputs'[1] = Stop
                                   /\ Len(answers') = 0 /\ unfinished' = 0
      BY <3>1, <3>2, <3>3 DEF QueueInv, RowLeft
    <3> QED BY <3>2, <3>4, <3>5, <3>6, <3>7 DEF QueueInv
  <2>3. CASE TaskRaises
    <3>1. /\ Len(inputs) > 0 /\ Head(inputs) = inputs[1] /\ Len(inputs') = Len(inputs) - 1
          /\ \A i \in 1..(Len(inputs) - 1) : inputs'[i] = inputs[i + 1]
          /\ Len(inputs) \in Nat /\ Len(answers) \in Nat
      BY <2>3, SeqFacts DEF TaskRaises, TaskTakes
    <3>2. /\ UNCHANGED <<at, closed, job, warmup, attached, orphans>>
          /\ RowAwaited' = RowAwaited /\ NextRow' = NextRow /\ RowAwaited # Stop /\ task = "waiting"
      BY <2>3, AwaitedStays, AwaitedFacts DEF TaskRaises, TaskTakes
    <3>3. /\ inputs[1] # Stop /\ task' = "raised" /\ UNCHANGED <<answers, unfinished, trainer>>
      BY <2>3, <3>1 DEF TaskRaises, TaskTakes
    <3>4. at \notin {"wait", "aclose", "stopping"} /\ ~(at = "idle" /\ closed) => QueuesIdle'
      BY <3>1, <3>2, <3>3 DEF QueueInv, QueuesIdle, RowLeft
    <3>5. at = "wait" => RowFed' \/ RowTrained'
      BY <3>1, <3>2, <3>3 DEF QueueInv, QueuesIdle, RowLeft, RowFed, RowTrained
    <3>6. at = "aclose" /\ attached /\ RowLeft' =>
            Len(inputs') = 1 /\ Len(answers') = 0 /\ unfinished' = 0
      BY <3>1, <3>2, <3>3 DEF QueueInv, QueuesIdle, RowLeft
    <3>7. at = "stopping" =>
            /\ RowLeft' => /\ Len(inputs') = 2 /\ inputs'[2] = Stop
                           /\ Len(answers') = 0 /\ unfinished' = 0
            /\ task' = "raised" => /\ Len(inputs') = 1 /\ inputs'[1] = Stop
                                   /\ Len(answers') = 0 /\ unfinished' = 0
      BY <3>1, <3>2, <3>3 DEF QueueInv, RowLeft
    <3> QED BY <3>2, <3>4, <3>5, <3>6, <3>7 DEF QueueInv
  <2>4. CASE OrphanTakes
    BY <2>4, SeqFacts, AwaitedStays DEF OrphanTakes, QueueInv, QueuesIdle,
       RowLeft, RowFed, RowTrained
  <2> QED BY <1>1, <2>1, <2>2, <2>3, <2>4
<1>2. CASE \/ StopTask \/ CloseService \/ CloseBreaksOff \/ BackendCloses
           \/ RuntimeExits \/ BootFails
  <2>1. CASE StopTask
    BY <2>1, SeqFacts, AwaitedStays, AwaitedFacts DEF StopTask, QueueInv,
       QueuesIdle, RowLeft, RowFed, RowTrained
  <2>2. CASE CloseService
    BY <2>2, SeqFacts, AwaitedStays, AwaitedFacts DEF CloseService, CallOver,
       Closes, QueueInv, QueuesIdle, RowLeft, RowFed, RowTrained
  <2>3. CASE CloseBreaksOff
    BY <2>3, SeqFacts, AwaitedStays, AwaitedFacts DEF CloseBreaksOff, CallOver,
       QueueInv, QueuesIdle, RowLeft, RowFed, RowTrained
  <2>4. CASE BackendCloses
    BY <2>4, SeqFacts, AwaitedStays, AwaitedFacts DEF BackendCloses, QueueInv,
       QueuesIdle, RowLeft, RowFed, RowTrained
  <2>5. CASE RuntimeExits
    BY <2>5, SeqFacts, AwaitedStays, AwaitedFacts DEF RuntimeExits, Closes,
       QueueInv, QueuesIdle, RowLeft, RowFed, RowTrained
  <2>6. CASE BootFails
    BY <2>6, SeqFacts, AwaitedStays, AwaitedFacts DEF BootFails, CallOver,
       Closes, QueueInv, QueuesIdle, RowLeft, RowFed, RowTrained
  <2> QED BY <1>2, <2>1, <2>2, <2>3, <2>4, <2>5, <2>6
<1>3. CASE StartAgain \/ StartService \/ RuntimeUp \/ TransferReady
  BY <1>3, EmptyFacts, AwaitedStays DEF StartAgain, StartService, RuntimeUp,
     TransferReady, BuildContext, QueueInv, QueuesIdle, RowLeft, RowFed,
     RowTrained
<1>4. CASE \/ (\E kind \in {"rl", "sft"} : BeginTraining(kind))
           \/ (\E n \in Nat : RowsHandedOver(n)) \/ NoRows \/ PutToSleep \/ Joined
  <2>1. CASE \E kind \in {"rl", "sft"} : BeginTraining(kind)
    BY <2>1, AwaitedStays, EmptyFacts DEF BeginTraining, QueueInv, QueuesIdle,
       RowLeft, RowFed, RowTrained
  <2>2. CASE \E n \in Nat : RowsHandedOver(n)
    BY <2>2, AwaitedStays, EmptyFacts DEF RowsHandedOver, BuildContext, QueueInv,
       QueuesIdle, RowLeft, RowFed, RowTrained
  <2>3. CASE NoRows
    BY <2>3, AwaitedStays, EmptyFacts DEF NoRows, QueueInv, QueuesIdle, RowLeft,
       RowFed, RowTrained
  <2>4. CASE PutToSleep
    BY <2>4, AwaitedStays, EmptyFacts DEF PutToSleep, QueueInv, QueuesIdle,
       RowLeft, RowFed, RowTrained
  <2>5. CASE Joined
    BY <2>5, AwaitedStays, EmptyFacts DEF Joined, QueueInv, QueuesIdle, RowLeft,
       RowFed, RowTrained
  <2> QED BY <1>4, <2>1, <2>2, <2>3, <2>4, <2>5
<1>5. CASE FeedRow \/ WarmupOver \/ Answered \/ GoOn \/ SftBatchTrained \/ SaveStep
  <2>1. CASE FeedRow
    <3>1. inputs' = Append(inputs, RowAwaited) /\ RowAwaited' = RowAwaited /\ NextRow' = NextRow
      BY <2>1, AwaitedStays DEF FeedRow, RowAwaited
    <3>2. /\ Len(inputs') = Len(inputs) + 1 /\ inputs'[Len(inputs) + 1] = RowAwaited
          /\ \A i \in 1..Len(inputs) : inputs'[i] = inputs[i]
          /\ Len(inputs) \in Nat
      BY <3>1, SeqFacts, AwaitedFacts
    <3>3. QueuesIdle /\ attached /\ NextRow <= job.rows /\ job.kind = "rl"
      BY <2>1 DEF FeedRow, QueueInv, RowsLeft
    <3>4. RowFed'
      BY <2>1, <3>1, <3>2, <3>3 DEF FeedRow, QueuesIdle, RowFed
    <3> QED BY <2>1, <3>1, <3>3, <3>4 DEF FeedRow, QueueInv
  <2>2. CASE WarmupOver
    BY <2>2, SeqFacts, AwaitedStays, AwaitedFacts DEF WarmupOver, TakeAnswer,
       QueueInv, QueuesIdle, RowLeft, RowFed, RowTrained
  <2>3. CASE Answered
    BY <2>3, SeqFacts, AwaitedStays, AwaitedFacts DEF Answered, TakeAnswer,
       QueueInv, QueuesIdle, RowLeft, RowFed, RowTrained
  <2>4. CASE GoOn
    BY <2>4, SeqFacts, AwaitedStays, AwaitedFacts DEF GoOn, QueueInv, QueuesIdle,
       RowLeft, RowFed, RowTrained
  <2>5. CASE SftBatchTrained
    BY <2>5, SeqFacts, AwaitedStays, AwaitedFacts DEF SftBatchTrained, QueueInv,
       QueuesIdle, RowLeft, RowFed, RowTrained
  <2>6. CASE SaveStep
    BY <2>6, SeqFacts, AwaitedStays, AwaitedFacts DEF SaveStep, QueueInv,
       QueuesIdle, RowLeft, RowFed, RowTrained
  <2> QED BY <1>5, <2>1, <2>2, <2>3, <2>4, <2>5, <2>6
<1>6. CASE WokenUp \/ AdapterReady \/ CopyNamed
  BY <1>6, EmptyFacts, AwaitedStays DEF WokenUp, AdapterReady, CopyNamed,
     CallOver, QueueInv, QueuesIdle, RowLeft, RowFed, RowTrained
<1>7. CASE \/ GenerationPaused \/ UpdateBegun \/ WeightsSent \/ UpdateFinished
           \/ NameSet \/ GenerationResumed \/ SyncFails
  <2>1. CASE GenerationPaused
    BY <2>1, AwaitedStays DEF GenerationPaused, QueueInv, QueuesIdle, RowLeft,
       RowFed, RowTrained, Syncing
  <2>2. CASE UpdateBegun
    BY <2>2, AwaitedStays DEF UpdateBegun, QueueInv, QueuesIdle, RowLeft, RowFed,
       RowTrained, Syncing
  <2>3. CASE WeightsSent
    BY <2>3, AwaitedStays DEF WeightsSent, QueueInv, QueuesIdle, RowLeft, RowFed,
       RowTrained, Syncing
  <2>4. CASE UpdateFinished
    BY <2>4, AwaitedStays DEF UpdateFinished, QueueInv, QueuesIdle, RowLeft,
       RowFed, RowTrained, Syncing
  <2>5. CASE NameSet
    BY <2>5, AwaitedStays DEF NameSet, CallOver, Pausing, QueueInv, QueuesIdle,
       RowLeft, RowFed, RowTrained, Syncing
  <2>6. CASE GenerationResumed
    BY <2>6, AwaitedStays DEF GenerationResumed, CallOver, QueueInv, QueuesIdle,
       RowLeft, RowFed, RowTrained, Syncing
  <2>7. CASE SyncFails
    BY <2>7, AwaitedStays DEF SyncFails, Pausing, QueueInv, QueuesIdle, RowLeft,
       RowFed, RowTrained, Syncing
  <2> QED BY <1>7, <2>1, <2>2, <2>3, <2>4, <2>5, <2>6, <2>7
<1>8. CASE CallBreaksOff \/ RegisterFails \/ TaskEnded
  <2>1. CASE CallBreaksOff
    BY <2>1, SeqFacts, AwaitedStays, AwaitedFacts DEF CallBreaksOff, QueueInv,
       QueuesIdle, RowLeft, RowFed, RowTrained
  <2>2. CASE RegisterFails
    BY <2>2, SeqFacts, AwaitedStays, AwaitedFacts DEF RegisterFails, CallOver,
       QueueInv, QueuesIdle, RowLeft, RowFed, RowTrained
  <2>3. CASE TaskEnded
    BY <2>3, SeqFacts, AwaitedStays, AwaitedFacts DEF TaskEnded, QueueInv,
       QueuesIdle, RowLeft, RowFed, RowTrained
  <2> QED BY <1>8, <2>1, <2>2, <2>3
<1> QED BY StepsListed, <1>1, <1>2, <1>3, <1>4, <1>5, <1>6, <1>7, <1>8 DEF
      GroupedStep

LEMMA YieldKept ==
  ASSUME ClientTypes, JobTypes, QueueTypes, WeightsTypes, CheckpointsInv, JobInv,
        BuiltInv, QueueInv, YieldInv, UnslothStep PROVE YieldInv'
<1> USE DEF YieldInv, RowOf, Syncing, clientState, serviceState, queueState,
      contextState, runtimeState
<1>1. CASE TaskStops \/ TaskTrains \/ TaskRaises \/ OrphanTakes
  <2>1. CASE TaskStops
    BY <2>1, SavedStays, RowFacts DEF TaskStops, TaskTakes, WeightsTypes
  <2>2. CASE TaskTrains
    BY <2>2, SavedStays, RowFacts DEF TaskTrains, TaskTakes, WeightsTypes
  <2>3. CASE TaskRaises
    BY <2>3, SavedStays, RowFacts DEF TaskRaises, TaskTakes, WeightsTypes
  <2>4. CASE OrphanTakes
    BY <2>4, SavedStays, RowFacts DEF OrphanTakes, WeightsTypes
  <2> QED BY <1>1, <2>1, <2>2, <2>3, <2>4
<1>2. CASE \/ StopTask \/ CloseService \/ CloseBreaksOff \/ BackendCloses
           \/ RuntimeExits \/ BootFails
  <2>1. CASE StopTask
    BY <2>1, SavedStays, RowFacts, NoCallTypes, EmptyFacts DEF StopTask
  <2>2. CASE CloseService
    BY <2>2, SavedStays, RowFacts, NoCallTypes, EmptyFacts DEF CloseService,
       CallOver, Closes
  <2>3. CASE CloseBreaksOff
    BY <2>3, SavedStays, RowFacts, NoCallTypes, EmptyFacts DEF CloseBreaksOff,
       CallOver
  <2>4. CASE BackendCloses
    BY <2>4, SavedStays, RowFacts, NoCallTypes, EmptyFacts DEF BackendCloses
  <2>5. CASE RuntimeExits
    BY <2>5, SavedStays, RowFacts, NoCallTypes, EmptyFacts DEF RuntimeExits, Closes
  <2>6. CASE BootFails
    BY <2>6, SavedStays, RowFacts, NoCallTypes, EmptyFacts DEF BootFails,
       CallOver, Closes
  <2> QED BY <1>2, <2>1, <2>2, <2>3, <2>4, <2>5, <2>6
<1>3. CASE StartAgain \/ StartService \/ RuntimeUp \/ TransferReady
  <2>1. CASE StartAgain
    BY <2>1, SavedStays, RowFacts, NoCallTypes, EmptyFacts DEF StartAgain, JobInv
  <2>2. CASE StartService
    BY <2>2, SavedStays, RowFacts, NoCallTypes, EmptyFacts DEF StartService,
       BuildContext, JobInv
  <2>3. CASE RuntimeUp
    BY <2>3, SavedStays, RowFacts, NoCallTypes, EmptyFacts DEF RuntimeUp,
       BuildContext, JobInv
  <2>4. CASE TransferReady
    BY <2>4, SavedStays, RowFacts, NoCallTypes, EmptyFacts DEF TransferReady, JobInv
  <2> QED BY <1>3, <2>1, <2>2, <2>3, <2>4
<1>4. CASE \/ (\E kind \in {"rl", "sft"} : BeginTraining(kind))
           \/ (\E n \in Nat : RowsHandedOver(n)) \/ NoRows \/ PutToSleep \/ Joined
  <2>1. CASE \E kind \in {"rl", "sft"} : BeginTraining(kind)
    BY <2>1, SavedStays, RowFacts, NoCallTypes, EmptyFacts DEF BeginTraining,
       JobInv, BuiltInv
  <2>2. CASE \E n \in Nat : RowsHandedOver(n)
    BY <2>2, SavedStays, RowFacts, NoCallTypes, EmptyFacts DEF RowsHandedOver,
       BuildContext, JobInv, BuiltInv
  <2>3. CASE NoRows
    BY <2>3, SavedStays, RowFacts, NoCallTypes, EmptyFacts DEF NoRows, JobInv,
       BuiltInv
  <2>4. CASE PutToSleep
    BY <2>4, SavedStays, RowFacts, NoCallTypes, EmptyFacts DEF PutToSleep,
       JobInv, BuiltInv
  <2>5. CASE Joined
    BY <2>5, SavedStays, RowFacts, NoCallTypes, EmptyFacts DEF Joined, JobInv,
       BuiltInv
  <2> QED BY <1>4, <2>1, <2>2, <2>3, <2>4, <2>5
<1>5. CASE FeedRow \/ WarmupOver \/ Answered \/ GoOn \/ SftBatchTrained \/ SaveStep
  <2>1. CASE FeedRow
    BY <2>1, SavedStays, SeqFacts, RowFacts DEF FeedRow, WeightsTypes, JobTypes,
       NextRow, RowsLeft
  <2>2. CASE WarmupOver
    BY <2>2, SavedStays, SeqFacts, RowFacts DEF WarmupOver, TakeAnswer,
       WeightsTypes, JobTypes, NextRow, RowsLeft
  <2>3. CASE Answered
    <3>1. /\ at = "wait" /\ answers # <<>> /\ ~warmup /\ UNCHANGED trainer
          /\ job' = [job EXCEPT !.yielded = Append(@, Head(answers))]
          /\ at' = "yield"
      BY <2>3 DEF Answered, TakeAnswer
    <3>2. Len(answers) > 0 /\ Head(answers) = answers[1]
      BY <3>1, SeqFacts DEF QueueTypes
    <3>3. NextRow <= job.rows /\ Head(answers) = RowOf(NextRow) /\ RowOf(NextRow) \in trainer.weights
      BY <3>1, <3>2 DEF QueueInv, RowFed, RowTrained, RowAwaited
    <3>4. /\ job'.yielded = Append(job.yielded, RowOf(NextRow))
          /\ job'.id = job.id /\ job'.rows = job.rows /\ job'.kind = job.kind
      BY <3>1, <3>3 DEF JobTypes
    <3>5. /\ Len(job'.yielded) = Len(job.yielded) + 1 /\ DOMAIN job'.yielded = 1..NextRow
          /\ job'.yielded[NextRow] = RowOf(NextRow) /\ DOMAIN job.yielded = 1..Len(job.yielded)
          /\ \A i \in 1..Len(job.yielded) : job'.yielded[i] = job.yielded[i]
          /\ NextRow = Len(job.yielded) + 1 /\ NextRow \in Nat
      BY <3>4, SeqFacts, RowFacts
    <3> QED BY <3>1, <3>3, <3>4, <3>5
  <2>4. CASE GoOn
    BY <2>4, SavedStays, SeqFacts, RowFacts DEF GoOn, WeightsTypes, JobTypes,
       NextRow, RowsLeft
  <2>5. CASE SftBatchTrained
    BY <2>5, SavedStays, SeqFacts, RowFacts DEF SftBatchTrained, WeightsTypes,
       JobTypes, NextRow, RowsLeft
  <2>6. CASE SaveStep
    BY <2>6, SavedStays, SeqFacts, RowFacts, NextSaved DEF SaveStep,
       WeightsTypes, JobTypes, NextRow, RowsLeft
  <2> QED BY <1>5, <2>1, <2>2, <2>3, <2>4, <2>5, <2>6
<1>6. CASE WokenUp \/ AdapterReady \/ CopyNamed
  <2>1. CASE WokenUp
    BY <2>1, SavedStays, RowFacts, NoCallTypes, EmptyFacts DEF WokenUp
  <2>2. CASE AdapterReady
    BY <2>2, SavedStays, RowFacts, NoCallTypes, EmptyFacts DEF AdapterReady,
       CallOver
  <2>3. CASE CopyNamed
    BY <2>3, SavedStays, RowFacts, NoCallTypes, EmptyFacts DEF CopyNamed, CallOver
  <2> QED BY <1>6, <2>1, <2>2, <2>3
<1>7. CASE \/ GenerationPaused \/ UpdateBegun \/ WeightsSent \/ UpdateFinished
           \/ NameSet \/ GenerationResumed \/ SyncFails
  <2>1. CASE GenerationPaused
    BY <2>1, SavedStays, RowFacts, NoCallTypes, EmptyFacts DEF GenerationPaused,
       WeightsTypes, JobTypes
  <2>2. CASE UpdateBegun
    BY <2>2, SavedStays, RowFacts, NoCallTypes, EmptyFacts DEF UpdateBegun,
       WeightsTypes, JobTypes
  <2>3. CASE WeightsSent
    BY <2>3, SavedStays, RowFacts, NoCallTypes, EmptyFacts DEF WeightsSent,
       WeightsTypes, JobTypes
  <2>4. CASE UpdateFinished
    BY <2>4, SavedStays, RowFacts, NoCallTypes, EmptyFacts DEF UpdateFinished,
       WeightsTypes, JobTypes
  <2>5. CASE NameSet
    BY <2>5, SavedStays, RowFacts, NoCallTypes, EmptyFacts DEF NameSet, CallOver,
       Pausing, WeightsTypes, JobTypes
  <2>6. CASE GenerationResumed
    BY <2>6, SavedStays, RowFacts, NoCallTypes, EmptyFacts DEF GenerationResumed,
       CallOver, WeightsTypes, JobTypes
  <2>7. CASE SyncFails
    BY <2>7, SavedStays, RowFacts, NoCallTypes, EmptyFacts DEF SyncFails,
       Pausing, WeightsTypes, JobTypes
  <2> QED BY <1>7, <2>1, <2>2, <2>3, <2>4, <2>5, <2>6, <2>7
<1>8. CASE CallBreaksOff \/ RegisterFails \/ TaskEnded
  <2>1. CASE CallBreaksOff
    BY <2>1, SavedStays, RowFacts, NoCallTypes, EmptyFacts DEF CallBreaksOff
  <2>2. CASE RegisterFails
    BY <2>2, SavedStays, RowFacts, NoCallTypes, EmptyFacts DEF RegisterFails,
       CallOver
  <2>3. CASE TaskEnded
    BY <2>3, SavedStays, RowFacts, NoCallTypes, EmptyFacts DEF TaskEnded
  <2> QED BY <1>8, <2>1, <2>2, <2>3
<1> QED BY StepsListed, <1>1, <1>2, <1>3, <1>4, <1>5, <1>6, <1>7, <1>8 DEF
      GroupedStep

LEMMA TrainerKept ==
  ASSUME ClientTypes, JobTypes, QueueTypes, WeightsTypes, CheckpointsInv, SetupInv,
         JobInv, BuiltInv, ClosedInv, QueueInv, TrainerInv, AwakeInv, NamesInv, UnslothStep PROVE TrainerInv'
<1> USE DEF TrainerInv, clientState, serviceState, queueState,
      contextState, runtimeState
<1>1. CASE TaskStops \/ TaskTrains \/ TaskRaises \/ OrphanTakes
  <2>1. CASE TaskStops
    BY <2>1, SavedStays, NewestSaved DEF TaskStops, TaskTakes, WeightsTypes,
       ClientTypes, LeftBehind, QueueInv, QueuesIdle, Sending, Syncing
  <2>2. CASE TaskTrains
    BY <2>2, SavedStays, NewestSaved DEF TaskTrains, TaskTakes, WeightsTypes,
       ClientTypes, LeftBehind, QueueInv, QueuesIdle, Sending, Syncing
  <2>3. CASE TaskRaises
    BY <2>3, SavedStays, NewestSaved DEF TaskRaises, TaskTakes, WeightsTypes,
       ClientTypes, LeftBehind, QueueInv, QueuesIdle, Sending, Syncing
  <2>4. CASE OrphanTakes
    BY <2>4, SavedStays, NewestSaved DEF OrphanTakes, WeightsTypes, ClientTypes,
       LeftBehind, QueueInv, QueuesIdle, Sending, Syncing
  <2> QED BY <1>1, <2>1, <2>2, <2>3, <2>4
<1>2. CASE \/ StopTask \/ CloseService \/ CloseBreaksOff \/ BackendCloses
           \/ RuntimeExits \/ BootFails
  <2>1. CASE StopTask
    BY <2>1, SavedStays, NewestSaved DEF StopTask, LeftBehind, QueueInv, Sending,
       Syncing
  <2>2. CASE CloseService
    BY <2>2, SavedStays, NewestSaved DEF CloseService, CallOver, Closes,
       LeftBehind, QueueInv, Sending, Syncing
  <2>3. CASE CloseBreaksOff
    BY <2>3, SavedStays, NewestSaved DEF CloseBreaksOff, CallOver, LeftBehind,
       QueueInv, Sending, Syncing
  <2>4. CASE BackendCloses
    BY <2>4, SavedStays, NewestSaved DEF BackendCloses, LeftBehind, QueueInv,
       Sending, Syncing
  <2>5. CASE RuntimeExits
    BY <2>5, SavedStays, NewestSaved DEF RuntimeExits, Closes, LeftBehind,
       QueueInv, Sending, Syncing
  <2>6. CASE BootFails
    BY <2>6, SavedStays, NewestSaved DEF BootFails, CallOver, Closes, LeftBehind,
       QueueInv, Sending, Syncing
  <2> QED BY <1>2, <2>1, <2>2, <2>3, <2>4, <2>5, <2>6
<1>3. CASE StartAgain \/ StartService \/ RuntimeUp \/ TransferReady
  <2>1. CASE StartAgain
    BY <2>1, SavedStays, NewestSaved DEF StartAgain, BuiltInv, OneGpuSet,
       LeftBehind, WeightsTypes, Sending, Syncing, FreshTrainer, ClosedInv,
       CheckpointsInv, LastWeights
  <2>2. CASE StartService
    BY <2>2, SavedStays, NewestSaved, FirstSaved DEF StartService, BuildContext,
       BuiltInv, OneGpuSet, LeftBehind, WeightsTypes, Sending, Syncing,
       FreshTrainer, ClosedInv, CheckpointsInv, LastWeights
  <2>3. CASE RuntimeUp
    BY <2>3, SavedStays, NewestSaved DEF RuntimeUp, BuildContext, BuiltInv,
       OneGpuSet, LeftBehind, WeightsTypes, Sending, Syncing, FreshTrainer,
       ClosedInv, CheckpointsInv, LastWeights
  <2>4. CASE TransferReady
    BY <2>4, SavedStays, NewestSaved DEF TransferReady, BuiltInv, OneGpuSet,
       LeftBehind, WeightsTypes, Sending, Syncing, FreshTrainer, ClosedInv,
       CheckpointsInv, LastWeights
  <2> QED BY <1>3, <2>1, <2>2, <2>3, <2>4
<1>4. CASE \/ (\E kind \in {"rl", "sft"} : BeginTraining(kind))
           \/ (\E n \in Nat : RowsHandedOver(n)) \/ NoRows \/ PutToSleep \/ Joined
  <2>1. CASE \E kind \in {"rl", "sft"} : BeginTraining(kind)
    BY <2>1, SavedStays, NewestSaved DEF BeginTraining, LeftBehind, WeightsTypes,
       Sending, Syncing, FreshTrainer, ClosedInv, LastWeights, SetupInv,
       OneGpuSet, ClientTypes
  <2>2. CASE \E n \in Nat : RowsHandedOver(n)
    BY <2>2, SavedStays, NewestSaved DEF RowsHandedOver, BuildContext,
       LeftBehind, WeightsTypes, Sending, Syncing, FreshTrainer, ClosedInv,
       LastWeights, SetupInv, OneGpuSet, ClientTypes
  <2>3. CASE NoRows
    BY <2>3, SavedStays, NewestSaved, NextSaved DEF NoRows, LeftBehind,
       WeightsTypes, Sending, Syncing, FreshTrainer, ClosedInv, LastWeights,
       SetupInv, OneGpuSet, ClientTypes
  <2>4. CASE PutToSleep
    BY <2>4, SavedStays, NewestSaved DEF PutToSleep, LeftBehind, WeightsTypes,
       Sending, Syncing, FreshTrainer, ClosedInv, LastWeights, SetupInv,
       OneGpuSet, ClientTypes
  <2>5. CASE Joined
    BY <2>5, SavedStays, NewestSaved DEF Joined, LeftBehind, WeightsTypes,
       Sending, Syncing, FreshTrainer, ClosedInv, LastWeights, SetupInv,
       OneGpuSet, ClientTypes
  <2> QED BY <1>4, <2>1, <2>2, <2>3, <2>4, <2>5
<1>5. CASE FeedRow \/ WarmupOver \/ Answered \/ GoOn \/ SftBatchTrained \/ SaveStep
  <2>1. CASE FeedRow
    BY <2>1, SavedStays, NewestSaved DEF FeedRow, LeftBehind, WeightsTypes,
       Sending, Syncing, SetupInv, OneGpuSet, ClientTypes
  <2>2. CASE WarmupOver
    BY <2>2, SavedStays, NewestSaved DEF WarmupOver, TakeAnswer, LeftBehind,
       WeightsTypes, Sending, Syncing, SetupInv, OneGpuSet, ClientTypes
  <2>3. CASE Answered
    BY <2>3, SavedStays, NewestSaved DEF Answered, TakeAnswer, LeftBehind,
       WeightsTypes, Sending, Syncing, SetupInv, OneGpuSet, ClientTypes
  <2>4. CASE GoOn
    BY <2>4, SavedStays, NewestSaved DEF GoOn, LeftBehind, WeightsTypes, Sending,
       Syncing, SetupInv, OneGpuSet, ClientTypes
  <2>5. CASE SftBatchTrained
    BY <2>5, SavedStays, NewestSaved DEF SftBatchTrained, LeftBehind,
       WeightsTypes, Sending, Syncing, SetupInv, OneGpuSet, ClientTypes
  <2>6. CASE SaveStep
    BY <2>6, SavedStays, NewestSaved, NextSaved DEF SaveStep, LeftBehind,
       WeightsTypes, Sending, Syncing, SetupInv, OneGpuSet, ClientTypes
  <2> QED BY <1>5, <2>1, <2>2, <2>3, <2>4, <2>5, <2>6
<1>6. CASE WokenUp \/ AdapterReady \/ CopyNamed
  <2>1. CASE WokenUp
    BY <2>1, SavedStays, NewestSaved DEF WokenUp, LeftBehind, WeightsTypes,
       Sending, Syncing, AwakeInv
  <2>2. CASE AdapterReady
    BY <2>2, SavedStays, NewestSaved DEF AdapterReady, CallOver, LeftBehind,
       WeightsTypes, Sending, Syncing, AwakeInv
  <2>3. CASE CopyNamed
    BY <2>3, SavedStays, NewestSaved DEF CopyNamed, CallOver, LeftBehind,
       WeightsTypes, Sending, Syncing, AwakeInv
  <2> QED BY <1>6, <2>1, <2>2, <2>3
<1>7. CASE \/ GenerationPaused \/ UpdateBegun \/ WeightsSent \/ UpdateFinished
           \/ NameSet \/ GenerationResumed \/ SyncFails
  <2>1. CASE GenerationPaused
    BY <2>1, SavedStays, NewestSaved DEF GenerationPaused, LeftBehind,
       WeightsTypes, Sending, Syncing, JobInv, AwakeInv, ClientTypes, JobTypes
  <2>2. CASE UpdateBegun
    BY <2>2, SavedStays, NewestSaved DEF UpdateBegun, LeftBehind, WeightsTypes,
       Sending, Syncing, JobInv, AwakeInv, ClientTypes, JobTypes
  <2>3. CASE WeightsSent
    BY <2>3, SavedStays, NewestSaved DEF WeightsSent, LeftBehind, WeightsTypes,
       Sending, Syncing, JobInv, AwakeInv, ClientTypes, JobTypes
  <2>4. CASE UpdateFinished
    BY <2>4, SavedStays, NewestSaved DEF UpdateFinished, LeftBehind,
       WeightsTypes, Sending, Syncing, JobInv, AwakeInv, ClientTypes, JobTypes
  <2>5. CASE NameSet
    BY <2>5, SavedStays, NewestSaved DEF NameSet, CallOver, Pausing, LeftBehind,
       WeightsTypes, Sending, Syncing, JobInv, AwakeInv, ClientTypes, JobTypes
  <2>6. CASE GenerationResumed
    BY <2>6, SavedStays, NewestSaved DEF GenerationResumed, CallOver, LeftBehind,
       WeightsTypes, Sending, Syncing, JobInv, AwakeInv, ClientTypes, JobTypes
  <2>7. CASE SyncFails
    BY <2>7, SavedStays, NewestSaved DEF SyncFails, Pausing, LeftBehind,
       WeightsTypes, Sending, Syncing, JobInv, AwakeInv, ClientTypes, JobTypes
  <2> QED BY <1>7, <2>1, <2>2, <2>3, <2>4, <2>5, <2>6, <2>7
<1>8. CASE CallBreaksOff \/ RegisterFails \/ TaskEnded
  <2>1. CASE CallBreaksOff
    BY <2>1, SavedStays, NewestSaved DEF CallBreaksOff, LeftBehind, WeightsTypes,
       Sending, Syncing
  <2>2. CASE RegisterFails
    BY <2>2, SavedStays, NewestSaved DEF RegisterFails, CallOver, LeftBehind,
       WeightsTypes, Sending, Syncing
  <2>3. CASE TaskEnded
    BY <2>3, SavedStays, NewestSaved DEF TaskEnded, LeftBehind, WeightsTypes,
       Sending, Syncing
  <2> QED BY <1>8, <2>1, <2>2, <2>3
<1> QED BY StepsListed, <1>1, <1>2, <1>3, <1>4, <1>5, <1>6, <1>7, <1>8 DEF
      GroupedStep

LEMMA AwakeKept ==
  ASSUME ClientTypes, JobTypes, QueueTypes, WeightsTypes, CheckpointsInv, SetupInv,
         JobInv, BuiltInv, ClosedInv, QueueInv, TrainerInv, AwakeInv, NamesInv, UnslothStep PROVE AwakeInv'
<1> USE DEF AwakeInv, clientState, serviceState, queueState,
      contextState, runtimeState
<1>1. CASE TaskStops \/ TaskTrains \/ TaskRaises \/ OrphanTakes
  <2>1. CASE TaskStops
    BY <2>1, SavedStays, NewestSaved DEF TaskStops, TaskTakes
  <2>2. CASE TaskTrains
    BY <2>2, SavedStays, NewestSaved DEF TaskTrains, TaskTakes
  <2>3. CASE TaskRaises
    BY <2>3, SavedStays, NewestSaved DEF TaskRaises, TaskTakes
  <2>4. CASE OrphanTakes
    BY <2>4, SavedStays, NewestSaved DEF OrphanTakes
  <2> QED BY <1>1, <2>1, <2>2, <2>3, <2>4
<1>2. CASE \/ StopTask \/ CloseService \/ CloseBreaksOff \/ BackendCloses
           \/ RuntimeExits \/ BootFails
  <2>1. CASE StopTask
    BY <2>1, SavedStays, NewestSaved DEF StopTask, Sending
  <2>2. CASE CloseService
    BY <2>2, SavedStays, NewestSaved DEF CloseService, CallOver, Closes, Sending
  <2>3. CASE CloseBreaksOff
    BY <2>3, SavedStays, NewestSaved DEF CloseBreaksOff, CallOver, Sending
  <2>4. CASE BackendCloses
    BY <2>4, SavedStays, NewestSaved DEF BackendCloses, Sending
  <2>5. CASE RuntimeExits
    BY <2>5, SavedStays, NewestSaved DEF RuntimeExits, Closes, Sending
  <2>6. CASE BootFails
    BY <2>6, SavedStays, NewestSaved DEF BootFails, CallOver, Closes, Sending
  <2> QED BY <1>2, <2>1, <2>2, <2>3, <2>4, <2>5, <2>6
<1>3. CASE StartAgain \/ StartService \/ RuntimeUp \/ TransferReady
  <2>1. CASE StartAgain
    BY <2>1, SavedStays, NewestSaved, NoCallTypes DEF StartAgain, ClientTypes,
       Sending, JobInv
  <2>2. CASE StartService
    BY <2>2, SavedStays, NewestSaved, NoCallTypes DEF StartService, BuildContext,
       ClientTypes, Sending, JobInv
  <2>3. CASE RuntimeUp
    BY <2>3, SavedStays, NewestSaved, NoCallTypes DEF RuntimeUp, BuildContext,
       ClientTypes, Sending, JobInv
  <2>4. CASE TransferReady
    BY <2>4, SavedStays, NewestSaved, NoCallTypes DEF TransferReady, ClientTypes,
       Sending, JobInv
  <2> QED BY <1>3, <2>1, <2>2, <2>3, <2>4
<1>4. CASE \/ (\E kind \in {"rl", "sft"} : BeginTraining(kind))
           \/ (\E n \in Nat : RowsHandedOver(n)) \/ NoRows \/ PutToSleep \/ Joined
  <2>1. CASE \E kind \in {"rl", "sft"} : BeginTraining(kind)
    BY <2>1, SavedStays, NewestSaved DEF BeginTraining, Sending
  <2>2. CASE \E n \in Nat : RowsHandedOver(n)
    BY <2>2, SavedStays, NewestSaved DEF RowsHandedOver, BuildContext, Sending
  <2>3. CASE NoRows
    BY <2>3, SavedStays, NewestSaved DEF NoRows, Sending
  <2>4. CASE PutToSleep
    BY <2>4, SavedStays, NewestSaved DEF PutToSleep, Sending
  <2>5. CASE Joined
    BY <2>5, SavedStays, NewestSaved DEF Joined, Sending
  <2> QED BY <1>4, <2>1, <2>2, <2>3, <2>4, <2>5
<1>5. CASE FeedRow \/ WarmupOver \/ Answered \/ GoOn \/ SftBatchTrained \/ SaveStep
  <2>1. CASE FeedRow
    BY <2>1, SavedStays, NewestSaved DEF FeedRow, Sending, SetupInv, NamesInv,
       Sound, OneGpuSet
  <2>2. CASE WarmupOver
    BY <2>2, SavedStays, NewestSaved DEF WarmupOver, TakeAnswer, Sending,
       SetupInv, NamesInv, Sound, OneGpuSet
  <2>3. CASE Answered
    BY <2>3, SavedStays, NewestSaved DEF Answered, TakeAnswer, Sending, SetupInv,
       NamesInv, Sound, OneGpuSet
  <2>4. CASE GoOn
    BY <2>4, SavedStays, NewestSaved DEF GoOn, Sending, SetupInv, NamesInv,
       Sound, OneGpuSet
  <2>5. CASE SftBatchTrained
    BY <2>5, SavedStays, NewestSaved DEF SftBatchTrained, Sending, SetupInv,
       NamesInv, Sound, OneGpuSet
  <2>6. CASE SaveStep
    BY <2>6, SavedStays, NewestSaved DEF SaveStep, Sending, SetupInv, NamesInv,
       Sound, OneGpuSet
  <2> QED BY <1>5, <2>1, <2>2, <2>3, <2>4, <2>5, <2>6
<1>6. CASE WokenUp \/ AdapterReady \/ CopyNamed
  <2>1. CASE WokenUp
    BY <2>1, SavedStays, NewestSaved DEF WokenUp, Sending
  <2>2. CASE AdapterReady
    BY <2>2, SavedStays, NewestSaved DEF AdapterReady, CallOver, Sending
  <2>3. CASE CopyNamed
    BY <2>3, SavedStays, NewestSaved DEF CopyNamed, CallOver, Sending
  <2> QED BY <1>6, <2>1, <2>2, <2>3
<1>7. CASE \/ GenerationPaused \/ UpdateBegun \/ WeightsSent \/ UpdateFinished
           \/ NameSet \/ GenerationResumed \/ SyncFails
  <2>1. CASE GenerationPaused
    BY <2>1, SavedStays, NewestSaved DEF GenerationPaused, ClientTypes, Sending,
       Syncing, JobTypes, SetupInv, JobInv, NoCallYet
  <2>2. CASE UpdateBegun
    BY <2>2, SavedStays, NewestSaved DEF UpdateBegun, ClientTypes, Sending,
       Syncing, JobTypes, SetupInv, JobInv, NoCallYet
  <2>3. CASE WeightsSent
    BY <2>3, SavedStays, NewestSaved DEF WeightsSent, ClientTypes, Sending,
       Syncing, JobTypes, SetupInv, JobInv, NoCallYet
  <2>4. CASE UpdateFinished
    BY <2>4, SavedStays, NewestSaved DEF UpdateFinished, ClientTypes, Sending,
       Syncing, JobTypes, SetupInv, JobInv, NoCallYet
  <2>5. CASE NameSet
    BY <2>5, SavedStays, NewestSaved DEF NameSet, CallOver, Pausing, ClientTypes,
       Sending, Syncing, JobTypes, SetupInv, JobInv, NoCallYet
  <2>6. CASE GenerationResumed
    BY <2>6, SavedStays, NewestSaved DEF GenerationResumed, CallOver,
       ClientTypes, Sending, Syncing, JobTypes, SetupInv, JobInv, NoCallYet
  <2>7. CASE SyncFails
    BY <2>7, SavedStays, NewestSaved DEF SyncFails, Pausing, ClientTypes,
       Sending, Syncing, JobTypes, SetupInv, JobInv, NoCallYet
  <2> QED BY <1>7, <2>1, <2>2, <2>3, <2>4, <2>5, <2>6, <2>7
<1>8. CASE CallBreaksOff \/ RegisterFails \/ TaskEnded
  <2>1. CASE CallBreaksOff
    BY <2>1, SavedStays, NewestSaved DEF CallBreaksOff, Sending
  <2>2. CASE RegisterFails
    BY <2>2, SavedStays, NewestSaved DEF RegisterFails, CallOver, Sending
  <2>3. CASE TaskEnded
    BY <2>3, SavedStays, NewestSaved DEF TaskEnded, Sending
  <2> QED BY <1>8, <2>1, <2>2, <2>3
<1> QED BY StepsListed, <1>1, <1>2, <1>3, <1>4, <1>5, <1>6, <1>7, <1>8 DEF
      GroupedStep

LEMMA LearnedKept ==
  ASSUME ClientTypes, JobTypes, QueueTypes, WeightsTypes, CheckpointsInv, SetupInv,
         JobInv, BuiltInv, ClosedInv, QueueInv, TrainerInv, AwakeInv, YieldInv, NamesInv, LearnedInv, UnslothStep PROVE LearnedInv'
<1> USE DEF LearnedInv, clientState, serviceState, queueState,
      contextState, runtimeState
<1>1. CASE TaskStops \/ TaskTrains \/ TaskRaises \/ OrphanTakes
  BY <1>1, SavedStays, NewestSaved DEF TaskStops, TaskTrains, TaskRaises,
     OrphanTakes, TaskTakes
<1>2. CASE \/ StopTask \/ CloseService \/ CloseBreaksOff \/ BackendCloses
           \/ RuntimeExits \/ BootFails
  BY <1>2, SavedStays, NewestSaved DEF StopTask, CloseService, CloseBreaksOff,
     BackendCloses, RuntimeExits,
     BootFails, CallOver, Closes
<1>3. CASE StartAgain \/ StartService \/ RuntimeUp \/ TransferReady
  <2>1. CASE StartAgain
    BY <2>1, SavedStays, NewestSaved DEF StartAgain
  <2>2. CASE StartService
    BY <2>2, SavedStays, NewestSaved, FirstSaved DEF StartService, BuildContext
  <2>3. CASE RuntimeUp
    BY <2>3, SavedStays, NewestSaved DEF RuntimeUp, BuildContext
  <2>4. CASE TransferReady
    BY <2>4, SavedStays, NewestSaved DEF TransferReady
  <2> QED BY <1>3, <2>1, <2>2, <2>3, <2>4
<1>4. CASE \/ (\E kind \in {"rl", "sft"} : BeginTraining(kind))
           \/ (\E n \in Nat : RowsHandedOver(n)) \/ NoRows \/ PutToSleep \/ Joined
  <2>1. CASE \E kind \in {"rl", "sft"} : BeginTraining(kind)
    BY <2>1, SavedStays, NewestSaved DEF BeginTraining, LastWeights
  <2>2. CASE \E n \in Nat : RowsHandedOver(n)
    BY <2>2, SavedStays, NewestSaved DEF RowsHandedOver, BuildContext, LastWeights
  <2>3. CASE NoRows
    BY <2>3, SavedStays, NewestSaved, NextSaved DEF NoRows, LastWeights
  <2>4. CASE PutToSleep
    BY <2>4, SavedStays, NewestSaved DEF PutToSleep, LastWeights
  <2>5. CASE Joined
    BY <2>5, SavedStays, NewestSaved DEF Joined, LastWeights
  <2> QED BY <1>4, <2>1, <2>2, <2>3, <2>4, <2>5
<1>5. CASE FeedRow \/ WarmupOver \/ Answered \/ GoOn \/ SftBatchTrained \/ SaveStep
  <2>1. CASE FeedRow
    BY <2>1, SavedStays, NewestSaved DEF FeedRow, NamesInv, Sound, BuiltInv
  <2>2. CASE WarmupOver
    BY <2>2, SavedStays, NewestSaved DEF WarmupOver, TakeAnswer, NamesInv, Sound,
       BuiltInv
  <2>3. CASE Answered
    BY <2>3, SavedStays, NewestSaved DEF Answered, TakeAnswer, NamesInv, Sound,
       BuiltInv
  <2>4. CASE GoOn
    BY <2>4, SavedStays, NewestSaved DEF GoOn, NamesInv, Sound, BuiltInv
  <2>5. CASE SftBatchTrained
    BY <2>5, SavedStays, NewestSaved DEF SftBatchTrained, NamesInv, Sound, BuiltInv
  <2>6. CASE SaveStep
    BY <2>6, SavedStays, NewestSaved, NextSaved DEF SaveStep, NamesInv, Sound,
       BuiltInv
  <2> QED BY <1>5, <2>1, <2>2, <2>3, <2>4, <2>5, <2>6
<1>6. CASE WokenUp \/ AdapterReady \/ CopyNamed
  <2>1. CASE WokenUp
    BY <2>1, SavedStays, NewestSaved DEF WokenUp, Learns, YieldInv, JobTypes,
       JobInv, CheckpointsInv
  <2>2. CASE AdapterReady
    BY <2>2, SavedStays, NewestSaved DEF AdapterReady, CallOver, Learns,
       YieldInv, JobTypes, JobInv, CheckpointsInv
  <2>3. CASE CopyNamed
    BY <2>3, SavedStays, NewestSaved DEF CopyNamed, CallOver, Learns, YieldInv,
       JobTypes, JobInv, CheckpointsInv
  <2> QED BY <1>6, <2>1, <2>2, <2>3
<1>7. CASE \/ GenerationPaused \/ UpdateBegun \/ WeightsSent \/ UpdateFinished
           \/ NameSet \/ GenerationResumed \/ SyncFails
  <2>1. CASE GenerationPaused
    BY <2>1, SavedStays, NewestSaved DEF GenerationPaused, Learns, YieldInv,
       JobTypes, JobInv, CheckpointsInv, Syncing, NoCallYet
  <2>2. CASE UpdateBegun
    BY <2>2, SavedStays, NewestSaved DEF UpdateBegun, Learns, YieldInv, JobTypes,
       JobInv, CheckpointsInv, Syncing, NoCallYet
  <2>3. CASE WeightsSent
    BY <2>3, SavedStays, NewestSaved DEF WeightsSent, Learns, YieldInv, JobTypes,
       JobInv, CheckpointsInv, Syncing, NoCallYet
  <2>4. CASE UpdateFinished
    BY <2>4, SavedStays, NewestSaved DEF UpdateFinished, Learns, YieldInv,
       JobTypes, JobInv, CheckpointsInv, Syncing, NoCallYet
  <2>5. CASE NameSet
    BY <2>5, SavedStays, NewestSaved DEF NameSet, CallOver, Pausing, Learns,
       YieldInv, JobTypes, JobInv, CheckpointsInv, Syncing, NoCallYet
  <2>6. CASE GenerationResumed
    BY <2>6, SavedStays, NewestSaved DEF GenerationResumed, CallOver, Learns,
       YieldInv, JobTypes, JobInv, CheckpointsInv, Syncing, NoCallYet
  <2>7. CASE SyncFails
    BY <2>7, SavedStays, NewestSaved DEF SyncFails, Pausing, Learns, YieldInv,
       JobTypes, JobInv, CheckpointsInv, Syncing, NoCallYet
  <2> QED BY <1>7, <2>1, <2>2, <2>3, <2>4, <2>5, <2>6, <2>7
<1>8. CASE CallBreaksOff \/ RegisterFails \/ TaskEnded
  BY <1>8, SavedStays, NewestSaved DEF CallBreaksOff, RegisterFails, TaskEnded,
     CallOver
<1> QED BY StepsListed, <1>1, <1>2, <1>3, <1>4, <1>5, <1>6, <1>7, <1>8 DEF
      GroupedStep

LEMMA NamesKept ==
  ASSUME ClientTypes, JobTypes, QueueTypes, WeightsTypes, CheckpointsInv, SetupInv,
         JobInv, BuiltInv, ClosedInv, QueueInv, TrainerInv, AwakeInv, NamesInv, UnslothStep PROVE NamesInv'
<1> USE DEF NamesInv, Sound, Named, OneGpuSet, Syncing, clientState,
      serviceState, queueState,
      contextState, runtimeState
<1>1. CASE TaskStops \/ TaskTrains \/ TaskRaises \/ OrphanTakes
  <2>1. CASE TaskStops
    BY <2>1, SavedStays, NewestSaved DEF TaskStops, TaskTakes, WeightsTypes,
       RowLeft, QueueTypes
  <2>2. CASE TaskTrains
    <3>1. /\ task = "waiting" /\ Len(inputs) > 0 /\ inputs[1] # Stop
          /\ UNCHANGED <<setup, at, job, latestStep, closed, saved, built, attached, runtimeState, task>>
          /\ LastWeights' = LastWeights
      BY <2>2, SeqFacts, SavedStays DEF TaskTrains, TaskTakes, QueueTypes
    <3>2. trainer.weights \subseteq trainer'.weights
      BY <2>2 DEF TaskTrains, WeightsTypes
    <3>3. Sound => Sound'
      BY <3>1, <3>2
    <3>4. at \in {"finish", "rename"} => trainer'.weights = trainer.weights
      BY <3>1 DEF QueueInv, QueuesIdle
    <3> QED BY <3>1, <3>3, <3>4 DEF RowLeft
  <2>3. CASE TaskRaises
    BY <2>3, SavedStays, NewestSaved, SeqFacts DEF TaskRaises, TaskTakes,
       WeightsTypes, RowLeft, QueueTypes
  <2>4. CASE OrphanTakes
    BY <2>4, SavedStays, NewestSaved DEF OrphanTakes, WeightsTypes, RowLeft,
       QueueTypes
  <2> QED BY <1>1, <2>1, <2>2, <2>3, <2>4
<1>2. CASE \/ StopTask \/ CloseService \/ CloseBreaksOff \/ BackendCloses
           \/ RuntimeExits \/ BootFails
  <2>1. CASE StopTask
    BY <2>1, SavedStays, NewestSaved DEF StopTask, RowLeft
  <2>2. CASE CloseService
    BY <2>2, SavedStays, NewestSaved DEF CloseService, CallOver, Closes, RowLeft
  <2>3. CASE CloseBreaksOff
    BY <2>3, SavedStays, NewestSaved DEF CloseBreaksOff, CallOver, RowLeft
  <2>4. CASE BackendCloses
    BY <2>4, SavedStays, NewestSaved DEF BackendCloses, RowLeft
  <2>5. CASE RuntimeExits
    BY <2>5, SavedStays, NewestSaved DEF RuntimeExits, Closes, RowLeft
  <2>6. CASE BootFails
    BY <2>6, SavedStays, NewestSaved DEF BootFails, CallOver, Closes, RowLeft
  <2> QED BY <1>2, <2>1, <2>2, <2>3, <2>4, <2>5, <2>6
<1>3. CASE StartAgain \/ StartService \/ RuntimeUp \/ TransferReady
  <2>1. CASE StartAgain
    BY <2>1, SavedStays, NewestSaved DEF StartAgain, RowLeft, TrainerInv,
       LastWeights
  <2>2. CASE StartService
    BY <2>2, SavedStays, NewestSaved DEF StartService, BuildContext, RowLeft,
       TrainerInv, LastWeights
  <2>3. CASE RuntimeUp
    BY <2>3, SavedStays, NewestSaved DEF RuntimeUp, BuildContext, RowLeft,
       TrainerInv, LastWeights
  <2>4. CASE TransferReady
    BY <2>4, SavedStays, NewestSaved DEF TransferReady, RowLeft, TrainerInv,
       LastWeights
  <2> QED BY <1>3, <2>1, <2>2, <2>3, <2>4
<1>4. CASE \/ (\E kind \in {"rl", "sft"} : BeginTraining(kind))
           \/ (\E n \in Nat : RowsHandedOver(n)) \/ NoRows \/ PutToSleep \/ Joined
  <2>1. CASE \E kind \in {"rl", "sft"} : BeginTraining(kind)
    BY <2>1, SavedStays, NewestSaved DEF BeginTraining, RowLeft, WeightsTypes,
       SetupInv, LastWeights, FreshTrainer
  <2>2. CASE \E n \in Nat : RowsHandedOver(n)
    BY <2>2, SavedStays, NewestSaved DEF RowsHandedOver, BuildContext, RowLeft,
       WeightsTypes, SetupInv, LastWeights, FreshTrainer
  <2>3. CASE NoRows
    BY <2>3, SavedStays, NewestSaved, NextSaved DEF NoRows, RowLeft,
       WeightsTypes, SetupInv, LastWeights, FreshTrainer
  <2>4. CASE PutToSleep
    BY <2>4, SavedStays, NewestSaved DEF PutToSleep, RowLeft, WeightsTypes,
       SetupInv, LastWeights, FreshTrainer
  <2>5. CASE Joined
    BY <2>5, SavedStays, NewestSaved DEF Joined, RowLeft, WeightsTypes, SetupInv,
       LastWeights, FreshTrainer
  <2> QED BY <1>4, <2>1, <2>2, <2>3, <2>4, <2>5
<1>5. CASE FeedRow \/ WarmupOver \/ Answered \/ GoOn \/ SftBatchTrained \/ SaveStep
  <2>1. CASE FeedRow
    BY <2>1, SavedStays, NewestSaved DEF FeedRow, RowLeft
  <2>2. CASE WarmupOver
    BY <2>2, SavedStays, NewestSaved DEF WarmupOver, TakeAnswer, RowLeft
  <2>3. CASE Answered
    BY <2>3, SavedStays, NewestSaved DEF Answered, TakeAnswer, RowLeft
  <2>4. CASE GoOn
    BY <2>4, SavedStays, NewestSaved DEF GoOn, RowLeft
  <2>5. CASE SftBatchTrained
    BY <2>5, SavedStays, NewestSaved DEF SftBatchTrained, RowLeft
  <2>6. CASE SaveStep
    BY <2>6, SavedStays, NewestSaved, NextSaved DEF SaveStep, RowLeft
  <2> QED BY <1>5, <2>1, <2>2, <2>3, <2>4, <2>5, <2>6
<1>6. CASE WokenUp \/ AdapterReady \/ CopyNamed
  <2>1. CASE WokenUp
    BY <2>1, SavedStays, NewestSaved DEF WokenUp, RowLeft, Renamed, LastWeights
  <2>2. CASE AdapterReady
    <3>1. /\ at \in {"load", "register"} /\ ~closed /\ at' = "idle" /\ latestStep' = NewestStep
          /\ names' = [s \in DOMAIN names \cup {NewestStep} |->
                         IF s = NewestStep THEN saved[s] ELSE names[s]]
          /\ UNCHANGED <<saved, closed, setup, built, trainer, runtime>>
          /\ NewestStep' = NewestStep /\ LastWeights' = LastWeights
          /\ at = "register" => setup # "merged"
      BY <2>2, SavedStays DEF AdapterReady, CallOver
    <3>2. NewestStep \in DOMAIN saved /\ Named /\ setup # "merged"
      BY <3>1, NewestSaved DEF SetupInv
    <3>3. Named'
      BY <3>1, <3>2
    <3>4. ~OneGpuSet => runtime = "awake"
      BY <3>1 DEF AwakeInv
    <3>5. built => LastWeights \subseteq trainer.weights
      BY <3>1 DEF TrainerInv
    <3> QED BY <3>1, <3>2, <3>3, <3>4, <3>5 DEF LastWeights
  <2>3. CASE CopyNamed
    BY <2>3, SavedStays, NewestSaved DEF CopyNamed, CallOver, RowLeft, Renamed,
       LastWeights
  <2> QED BY <1>6, <2>1, <2>2, <2>3
<1>7. CASE \/ GenerationPaused \/ UpdateBegun \/ WeightsSent \/ UpdateFinished
           \/ NameSet \/ GenerationResumed \/ SyncFails
  <2>1. CASE GenerationPaused
    BY <2>1, SavedStays, NewestSaved DEF GenerationPaused, RowLeft, QueueInv,
       QueuesIdle
  <2>2. CASE UpdateBegun
    BY <2>2, SavedStays, NewestSaved DEF UpdateBegun, RowLeft, QueueInv, QueuesIdle
  <2>3. CASE WeightsSent
    BY <2>3, SavedStays, NewestSaved DEF WeightsSent, RowLeft, QueueInv, QueuesIdle
  <2>4. CASE UpdateFinished
    BY <2>4, SavedStays, NewestSaved DEF UpdateFinished, RowLeft, QueueInv,
       QueuesIdle
  <2>5. CASE NameSet
    <3>1. /\ at = "rename" /\ ~closed /\ names' = Renamed(latestStep) /\ trainer'.weights = trainer.weights
          /\ UNCHANGED <<saved, latestStep, closed, setup, built, runtime>>
          /\ NewestStep' = NewestStep /\ LastWeights' = LastWeights
      BY <2>5, SavedStays DEF NameSet, WeightsTypes
    <3>2. latestStep = NewestStep /\ trainer.weights = LastWeights /\ NewestStep \in DOMAIN saved
      BY <3>1, NewestSaved DEF TrainerInv
    <3>3. /\ DOMAIN names' = {latestStep} /\ names'[latestStep] = LastWeights
      BY <3>1, <3>2 DEF Renamed
    <3>4. at' = "idle" => runtime = "awake"
      BY <2>5, <3>1 DEF NameSet, Pausing, AwakeInv, Sending
    <3>5. at' \in {"idle", "resume"}
      BY <2>5 DEF NameSet, CallOver
    <3> QED BY <3>1, <3>2, <3>3, <3>4, <3>5 DEF LastWeights
  <2>6. CASE GenerationResumed
    <3>1. /\ at = "resume" /\ ~closed /\ runtime' = "awake"
          /\ at' = IF job.failed THEN "aclose" ELSE "idle"
          /\ UNCHANGED <<saved, latestStep, closed, setup, built, trainer, names, attached, task, inputs>>
          /\ NewestStep' = NewestStep /\ LastWeights' = LastWeights
      BY <2>6, SavedStays DEF GenerationResumed, CallOver
    <3>2. trainer.weights = LastWeights
      BY <3>1 DEF TrainerInv
    <3>3. ~RowLeft'
      BY <3>1 DEF QueueInv, QueuesIdle, RowLeft
    <3> QED BY <3>1, <3>2, <3>3
  <2>7. CASE SyncFails
    BY <2>7, SavedStays, NewestSaved DEF SyncFails, Pausing, RowLeft, QueueInv,
       QueuesIdle
  <2> QED BY <1>7, <2>1, <2>2, <2>3, <2>4, <2>5, <2>6, <2>7
<1>8. CASE CallBreaksOff \/ RegisterFails \/ TaskEnded
  <2>1. CASE CallBreaksOff
    BY <2>1, SavedStays, NewestSaved DEF CallBreaksOff, RowLeft, QueueInv,
       QueuesIdle
  <2>2. CASE RegisterFails
    BY <2>2, SavedStays, NewestSaved DEF RegisterFails, CallOver, RowLeft,
       QueueInv, QueuesIdle
  <2>3. CASE TaskEnded
    BY <2>3, SavedStays, NewestSaved DEF TaskEnded, RowLeft, QueueInv, QueuesIdle
  <2> QED BY <1>8, <2>1, <2>2, <2>3
<1> QED BY StepsListed, <1>1, <1>2, <1>3, <1>4, <1>5, <1>6, <1>7, <1>8 DEF
      GroupedStep

LEMMA UnslothStarts == UnslothInit => UnslothInv
<1> SUFFICES ASSUME UnslothInit PROVE UnslothInv
  OBVIOUS
<1> USE DEF UnslothInit
<1>1. ClientTypes /\ JobTypes /\ QueueTypes /\ WeightsTypes
  <2>1. ClientTypes
    BY UnslothAssumption DEF ClientTypes, Places
  <2>2. JobTypes
    BY NoCallTypes DEF JobTypes
  <2>3. QueueTypes
    BY EmptyFacts DEF QueueTypes
  <2>4. WeightsTypes
    BY EmptyFacts DEF WeightsTypes, FreshTrainer
  <2> QED BY <2>1, <2>2, <2>3, <2>4
<1>2. CheckpointsInv /\ SetupInv /\ JobInv /\ BuiltInv /\ ClosedInv /\ GpuInv
  BY EmptyFacts, NoCallTypes DEF CheckpointsInv, SetupInv, JobInv, BuiltInv,
     ClosedInv, GpuInv, Sending
<1>3. QueueInv /\ YieldInv
  BY EmptyFacts, NoCallTypes DEF QueueInv, QueuesIdle, YieldInv, Syncing
<1>4. NamesInv /\ TrainerInv /\ AwakeInv /\ LearnedInv
  BY EmptyFacts DEF NamesInv, TrainerInv, AwakeInv, LearnedInv, Sending, Syncing,
     FreshTrainer
<1> QED BY <1>1, <1>2, <1>3, <1>4 DEF UnslothInv

LEMMA UnslothKept == UnslothInv /\ (UnslothStep \/ UNCHANGED unslothVars) => UnslothInv'
<1>1. ASSUME UnslothInv, UnslothStep PROVE UnslothInv'
  BY <1>1, ClientTypesKept, JobTypesKept, QueueTypesKept, WeightsTypesKept,
     CheckpointsKept,
     SetupKept, JobKept, BuiltKept, ClosedKept, GpuKept, QueueKept, YieldKept, NamesKept,
     TrainerKept, AwakeKept, LearnedKept DEF UnslothInv
<1>2. ASSUME UnslothInv, UNCHANGED unslothVars PROVE UnslothInv'
  <2> USE <1>2 DEF unslothVars, clientState, serviceState, contextState, queueState,
        runtimeState
  <2>1. (ClientTypes /\ JobTypes /\ QueueTypes /\ WeightsTypes)'
    BY DEF UnslothInv, ClientTypes, JobTypes, QueueTypes, WeightsTypes
  <2>2. (CheckpointsInv /\ SetupInv /\ JobInv /\ BuiltInv /\ ClosedInv /\ GpuInv)'
    BY SavedStays DEF UnslothInv, CheckpointsInv, SetupInv, JobInv, BuiltInv,
       ClosedInv, GpuInv,
       OneGpuSet
  <2>3. QueueInv'
    BY AwaitedStays DEF UnslothInv, QueueInv, QueuesIdle, RowFed, RowTrained,
       RowLeft
  <2>4. YieldInv'
    BY SavedStays DEF UnslothInv, YieldInv, RowOf
  <2>5. NamesInv'
    BY SavedStays DEF UnslothInv, NamesInv, Sound, Named, RowLeft, OneGpuSet
  <2>6. TrainerInv' /\ AwakeInv' /\ LearnedInv'
    BY SavedStays DEF UnslothInv, TrainerInv, AwakeInv, LearnedInv, LeftBehind
  <2> QED BY <2>1, <2>2, <2>3, <2>4, <2>5, <2>6 DEF UnslothInv
<1> QED BY <1>1, <1>2

LEMMA GpuFollows == UnslothInv => GpuHandedOver
  BY DEF UnslothInv, GpuInv, GpuHandedOver

LEMMA ResultsFollow == UnslothInv => OneResultPerRow
<1> SUFFICES ASSUME UnslothInv PROVE OneResultPerRow
  OBVIOUS
<1>1. /\ job.yielded \in Seq(RowIds) /\ DOMAIN job.yielded = 1..Len(job.yielded)
      /\ Len(job.yielded) \in Nat
  BY SeqFacts, RowFacts DEF UnslothInv
<1>2. job.yielded = [i \in 1..Len(job.yielded) |-> RowOf(i)]
  BY <1>1 DEF UnslothInv, YieldInv
<1>3. \A i \in 1..Len(job.yielded) : RowOf(i) \in trainer.weights
  BY <1>1 DEF UnslothInv, YieldInv
<1>4. at \in {"wake", "load"} \cup Syncing /\ job.kind \in {"rl", "sft"} =>
        {RowOf(i) : i \in 1..job.rows} \subseteq saved[NewestStep]
  BY DEF UnslothInv, YieldInv, LastWeights
<1> QED BY <1>2, <1>3, <1>4 DEF OneResultPerRow

LEMMA StepsFollow == UnslothInv => ServesItsSteps
<1> SUFFICES ASSUME UnslothInv PROVE ServesItsSteps
  OBVIOUS
<1>1. runtime = "awake" /\ job.id # 0 /\ ~job.failed /\ at \notin {"aclose", "stopping"}
        => \A s \in DOMAIN names : names[s] = saved[s]
  BY NoCallTypes DEF UnslothInv, ClientTypes, Places, Suspended, Sending, Named,
     Sound, NamesInv, AwakeInv,
     JobInv, ClosedInv
<1>2. at = "idle" /\ ~closed /\ task # "raised" =>
        /\ runtime = "awake" /\ latestStep \in DOMAIN names
        /\ learned \subseteq names[latestStep]
        /\ \A s \in DOMAIN names : names[s] = saved[s]
        /\ built => trainer.weights = saved[NewestStep] /\ ~trainer.merged
  BY NewestSaved DEF UnslothInv, NamesInv, Sound, Named, TrainerInv, LeftBehind,
     LearnedInv, LastWeights,
     Sending
<1> QED BY <1>1, <1>2 DEF ServesItsSteps

-----------------------------------------------------------------------------
(* The backend hands over the rows it packed: there is at least one.         *)

RowsListed == rows \in Seq({rows[i] : i \in DOMAIN rows}) /\ Len(rows) > 0

LEMMA Listed ==
  ASSUME NEW s, NEW n \in Nat, s = [i \in 1..n |-> s[i]]
  PROVE  s \in Seq({s[i] : i \in DOMAIN s}) /\ Len(s) = n
<1> DEFINE S == {s[i] : i \in 1..n}
<1>1. [i \in 1..n |-> s[i]] \in [1..n -> S]
  OBVIOUS
<1>2. s \in Seq(S)
  BY <1>1
<1> QED BY <1>1, <1>2

LEMMA RowsStayListed ==
  ASSUME RowsListed, PackStep \/ ForgetRows \/ UNCHANGED rows
  PROVE  RowsListed'
<1> DEFINE Any == {rows[i] : i \in DOMAIN rows}
<1>0. /\ Len(rows) \in Nat \ {0} /\ DOMAIN rows = 1..Len(rows) /\ rows \in Seq(Any)
  BY DEF RowsListed
<1>1. CASE UNCHANGED rows
  BY <1>1 DEF RowsListed
<1>2. CASE ForgetRows
  <2>1. rows' = << <<>> >>
    BY <1>2 DEF ForgetRows
  <2>2. rows' = [i \in 1..1 |-> rows'[i]]
    BY <2>1
  <2>3. rows' \in Seq({rows'[i] : i \in DOMAIN rows'}) /\ Len(rows') = 1
    BY <2>2, Listed, 1 \in Nat
  <2> QED BY <2>3 DEF RowsListed
<1>3. CASE PackResult
  <2> DEFINE r == results[packed + 1]
             base == IF Fits(rows[Len(rows)], r) THEN rows ELSE Append(rows, <<>>)
             added == base[Len(base)] \o TokensOf(r, packed + 1, HoldsPrompt(base[Len(base)], r))
  <2>0. rows' = IF ~r.trained THEN rows ELSE [base EXCEPT ![Len(base)] = added]
    BY <1>3 DEF PackResult
  <2> HIDE DEF r, added
  <2>1. rows' = rows \/ rows' = [base EXCEPT ![Len(base)] = added]
    BY <2>0
  <2>4. base \in {rows, Append(rows, <<>>)}
    OBVIOUS
  <2> HIDE DEF base
  <2>2. CASE base = rows
    <3>1. rows' = [i \in 1..Len(rows) |-> rows'[i]]
      BY <1>0, <2>1, <2>2
    <3> QED BY <1>0, <3>1, Listed DEF RowsListed
  <2>3. CASE base = Append(rows, <<>>)
    <3> DEFINE More == Any \cup {<<>>}
    <3>1. rows \in Seq(More) /\ <<>> \in More
      BY <1>0
    <3>2. base \in Seq(More) /\ Len(base) = Len(rows) + 1 /\ DOMAIN base = 1..Len(base)
      BY <1>0, <2>3, <3>1
    <3>3. CASE rows' = rows
      BY <3>3 DEF RowsListed
    <3>4. CASE rows' # rows
      <4>1. rows' = [i \in 1..Len(base) |-> rows'[i]]
        BY <2>1, <3>2, <3>4
      <4> QED BY <1>0, <3>2, <4>1, Listed DEF RowsListed
    <3> QED BY <3>3, <3>4
  <2> QED BY <2>4, <2>2, <2>3
<1>4. CASE RowsShuffled
  <2>1. rows' = [i \in 1..Len(rows) |-> rows'[i]]
    BY <1>0, <1>4 DEF RowsShuffled
  <2> QED BY <1>0, <2>1, Listed DEF RowsListed
<1>5. CASE TokenizeGroup \/ DropTooLong
  BY <1>5 DEF TokenizeGroup, DropTooLong, RowsListed
<1> QED BY <1>1, <1>2, <1>3, <1>4, <1>5 DEF PackStep, Pack

-----------------------------------------------------------------------------
(* The composition takes the steps of either service, or none of its.        *)

LEMMA LocalUnsloth ==
  ASSUME Unsloth /\ RowsListed, UnslothSystem \/ UnslothOthers \/ TrainerTask
  PROVE  RowsListed' /\ (UnslothStep \/ UNCHANGED unslothVars)
<1>0. UNCHANGED passVars => UNCHANGED rows
  BY DEF passVars, packVars
<1>1. CASE UnslothRowsPacked
  <2>1. CASE PackStep /\ UNCHANGED unslothVars
    BY <2>1, RowsStayListed
  <2>2. CASE RowsHandedOver(Len(rows)) /\ ForgetRows
    <3>1. Len(rows) \in Nat
      BY DEF RowsListed
    <3> QED BY <2>2, <3>1, RowsStayListed DEF UnslothStep
  <2>3. CASE NoRows /\ (ForgetRows \/ UNCHANGED passVars)
    BY <2>3, <1>0, RowsStayListed DEF UnslothStep
  <2>4. CASE UNCHANGED passVars /\ \E n \in 1..MaxRows : RowsHandedOver(n)
    BY <2>4, <1>0, RowsStayListed, UnslothAssumption DEF UnslothStep
  <2> QED BY <1>1, <2>1, <2>2, <2>3, <2>4 DEF UnslothRowsPacked
<1>2. CASE UnslothCallBegins
  <2>1. \E kind \in {"rl", "sft"} : BeginTraining(kind)
    BY <1>2 DEF UnslothCallBegins
  <2>2. ForgetRows \/ UNCHANGED rows
    BY <1>0, <1>2 DEF UnslothCallBegins
  <2> QED BY <2>1, <2>2, RowsStayListed DEF UnslothStep
<1>3. CASE (StartService \/ ClientStep \/ RequestFails \/ Disturbance \/ TaskStep) /\ UNCHANGED passVars
  BY <1>0, <1>3, RowsStayListed DEF UnslothStep
<1> QED BY <1>1, <1>2, <1>3 DEF UnslothSystem, UnslothOthers, TrainerTask

LocalUnslothInv == UnslothInv /\ (Unsloth => RowsListed)

LEMMA LocalSteps == LocalSpec => LocalInit /\ [][LocalNext]_localVars
  BY PTL DEF LocalSpec

LEMMA UnslothInLocal == LocalSpec => []UnslothInv
<1>1. LocalInit => LocalUnslothInv
  <2> SUFFICES ASSUME LocalInit PROVE LocalUnslothInv
    OBVIOUS
  <2>1. rows = << <<>> >>
    BY DEF LocalInit, Init, StepsInit, PassInit, PlanInit, PackInit
  <2>2. rows = [i \in 1..1 |-> rows[i]]
    BY <2>1
  <2> QED BY <2>2, Listed, UnslothStarts DEF LocalInit, LocalUnslothInv, RowsListed
<1>2. LocalUnslothInv /\ [LocalNext]_localVars => LocalUnslothInv'
  <2> SUFFICES ASSUME LocalUnslothInv, [LocalNext]_localVars PROVE LocalUnslothInv'
    OBVIOUS
  <2>1. CASE Unsloth /\ (UnslothSystem \/ UnslothOthers \/ TrainerTask)
    BY <2>1, LocalUnsloth, UnslothKept DEF LocalUnslothInv
  <2>2. CASE Megatron /\ UNCHANGED <<unslothVars, service>>
    BY <2>2, UnslothKept DEF LocalUnslothInv, Megatron, Unsloth
  <2>3. CASE UNCHANGED localVars
    <3>1. UNCHANGED <<unslothVars, service, rows>>
      BY <2>3 DEF localVars, vars, passVars, packVars
    <3> QED BY <3>1, UnslothKept, RowsStayListed DEF LocalUnslothInv, Unsloth
  <2> QED BY <2>1, <2>2, <2>3 DEF LocalNext, OnlyMegatron, TrainerTask
<1>3. LocalUnslothInv => UnslothInv
  BY DEF LocalUnslothInv
<1> QED BY <1>1, <1>2, <1>3, LocalSteps, PTL

-----------------------------------------------------------------------------
(* What LocalBackend lets the Megatron service and its workers do, packing   *)
(* and training rows or serving an Unsloth model, is what MegatronJobs       *)
(* describes: its theorems hold in the composition (_get_service,            *)
(* _train_model, MegatronService.train).                                     *)
THEOREM JobsInLocal == LocalSpec => JobsSpec
<1>1. LocalInit => JobsInit
  BY DEF LocalInit, Init
<1>2. [LocalNext]_localVars => [JobsNext]_jobsVars
  <2> SUFFICES ASSUME [LocalNext]_localVars PROVE [JobsNext]_jobsVars
    OBVIOUS
  <2>1. CASE Next
    <3>1. CASE Packing \/ Compute
      BY <3>1 DEF Packing, Compute
    <3>2. CASE Packed \/ BeginFollowed \/ BeginOther
      BY <3>2 DEF Packed, BeginFollowed, BeginOther, JobsNext, Packs
    <3>3. CASE RowsRejectedExit \/ JobComputed \/ CallStep \/ WorkerStep \/ StartServer \/ Fault
      BY <3>3 DEF RowsRejectedExit, JobComputed, JobsNext, Fault
    <3> QED BY <2>1, <3>1, <3>2, <3>3 DEF Next, System
  <2>2. CASE Unsloth /\ OnlyUnsloth
    BY <2>2 DEF OnlyUnsloth
  <2>3. CASE UNCHANGED localVars
    BY <2>3 DEF localVars, vars
  <2> QED BY <2>1, <2>2, <2>3 DEF LocalNext, TrainerTask
<1> QED BY <1>1, <1>2, LocalSteps, PTL DEF JobsSpec

(* With one set of GPUs an Unsloth model is never on them while vLLM is      *)
(* awake, however a call ends (_train_shared, offload_to_cpu, aclose).       *)
THEOREM GpuIsHandedOver == LocalSpec => []GpuHandedOver
  BY UnslothInLocal, GpuFollows, PTL

(* A call passes on one result for each row it was given, in order and its   *)
(* own, and the checkpoint it saves has all of them in it, whatever a call   *)
(* before it left in the queues (process_train_batch, get_trainer).          *)
THEOREM OneResultForEachRow == LocalSpec => []OneResultPerRow
  BY UnslothInLocal, ResultsFollow, PTL

(* vLLM serves the weights of the steps it names, the newest of them with    *)
(* all the training that was reported done (_reload_adapter,                 *)
(* _sync_merged_weights, register_lora_for_step).                            *)
THEOREM StepsAreServed == LocalSpec => []ServesItsSteps
  BY UnslothInLocal, StepsFollow, PTL

(* Under LocalBackend too, a Megatron worker trains on the rows of its own   *)
(* job unless a process was killed (MegatronService.train, the job files).   *)
THEOREM RowsAreOwnInLocal == LocalSpec => [](kills = 0 => TrainsOnOwnRows)
  BY JobsInLocal, RowsAreOwn, PTL

-----------------------------------------------------------------------------
(* The gradient steps: the rows and the routes of their micro-batches.       *)

Accumulate == config.accumulate
LastMicro == Accumulate \div DpSize

\* Where the rows are with the ranks.
PassPhases == {"parse", "bundle", "place", "forward", "layers"}
StepPhases == {"step", "routers"} \cup PassPhases
BeforeSteps == {"tokenize", "pack", "nothing", "over"}

ConfigInv == config \in Configs /\ step \in Nat /\ RowsListed

LEMMA Slots ==
  ASSUME NEW n \in Nat \ {0}, NEW q \in Nat, NEW m \in Int, NEW d \in 0..(n - 1)
  PROVE  m * n + d < q * n <=> m < q
<1>1. CASE m < q
  <2>1. (q - m - 1) * n >= 0
    BY <1>1
  <2>2. (q - m - 1) * n = q * n - m * n - n
    OBVIOUS
  <2> QED BY <1>1, <2>1, <2>2
<1>2. CASE m >= q
  <2>1. (m - q) * n >= 0
    BY <1>2
  <2>2. (m - q) * n = m * n - q * n
    OBVIOUS
  <2> QED BY <1>2, <2>1, <2>2
<1> QED BY <1>1, <1>2

LEMMA SameSlot ==
  ASSUME NEW n \in Nat \ {0}, NEW m \in Int, NEW k \in Int,
         NEW d \in 0..(n - 1), NEW e \in 0..(n - 1), m * n + d = k * n + e
  PROVE  m = k /\ d = e
<1>1. ~(m < k) /\ ~(k < m)
  <2>1. (k - m) * n = k * n - m * n
    OBVIOUS
  <2>2. ASSUME m < k PROVE FALSE
    <3>1. (k - m - 1) * n >= 0
      BY <2>2
    <3>2. (k - m - 1) * n = (k - m) * n - n
      OBVIOUS
    <3> QED BY <2>1, <3>1, <3>2
  <2>3. ASSUME k < m PROVE FALSE
    <3>1. (m - k - 1) * n >= 0
      BY <2>3
    <3>2. (m - k - 1) * n = (m - k) * n - n
      OBVIOUS
    <3>3. (m - k) * n = m * n - k * n
      OBVIOUS
    <3> QED BY <3>1, <3>2, <3>3
  <2> QED BY <2>2, <2>3
<1> QED BY <1>1

LEMMA ConfigFacts ==
  ASSUME ConfigInv
  PROVE  /\ Accumulate \in Nat \ {0} /\ config.traceDp \in Nat
         /\ LastMicro \in Nat /\ Accumulate = LastMicro * DpSize
         /\ Micros(DpSize) = 0..(LastMicro - 1)
         /\ Len(rows) \in Nat \ {0} /\ DOMAIN rows = 1..Len(rows)
<1>1. /\ Accumulate \in Nat \ {0} /\ Accumulate % DpSize = 0 /\ config.traceDp \in Nat
      /\ DpSize \in Nat \ {0}
  BY StepsAssumption DEF ConfigInv, Accumulate
<1>2. LastMicro \in Nat /\ Accumulate = LastMicro * DpSize
  BY <1>1, Whole DEF LastMicro
<1> QED BY <1>1, <1>2 DEF ConfigInv, RowsListed, Micros, LastMicro, Accumulate

\* The key of a slot of a step: its row's, or a dummy's.
SlotKey(s, k) ==
  IF s * Accumulate + k < Len(rows) THEN <<"sample", s * Accumulate + k>>
  ELSE <<"dummy_micro_slot", k>>

LEMMA KeyOfSlot ==
  ASSUME ConfigInv, NEW s \in Nat, NEW d \in Nat, NEW m \in Nat, NEW dp \in Nat,
         NEW k \in Nat, k = m * dp + d
  PROVE  CallKey(s, d, m, dp) = SlotKey(s, k)
<1> DEFINE base == s * Accumulate
<1>1. base \in Nat /\ Len(rows) \in Nat
  BY ConfigFacts
<1>2. s * config.accumulate + m * dp + d = base + k
  <2>1. m * dp \in Nat
    OBVIOUS
  <2> QED BY <1>1, <2>1 DEF Accumulate
<1> HIDE DEF base
<1>3. CASE base + k < Len(rows)
  <2>1. SampleIndex(s, d, m, dp) = base + k
    BY <1>2, <1>3 DEF SampleIndex
  <2>2. base + k # None
    BY <1>1 DEF None
  <2> QED BY <1>3, <2>1, <2>2 DEF CallKey, SlotKey, base
<1>4. CASE ~(base + k < Len(rows))
  <2>1. SampleIndex(s, d, m, dp) = None
    BY <1>2, <1>4 DEF SampleIndex
  <2> QED BY <1>2, <1>4, <2>1 DEF CallKey, Slot, SlotKey, base
<1> QED BY <1>3, <1>4

LEMMA SlotsDiffer ==
  ASSUME ConfigInv, NEW s \in Nat, NEW k \in Nat, NEW j \in Nat
  PROVE  /\ SlotKey(s, k) # NoRoute
         /\ SlotKey(s, k) = SlotKey(s, j) => k = j
<1> DEFINE base == s * Accumulate
<1>1. base \in Nat
  BY ConfigFacts
<1> HIDE DEF base
<1> QED BY <1>1 DEF SlotKey, NoRoute, base

\* The replica's calls of a step are told apart by their keys.
OwnKey(m) == CallKey(step, 0, m, DpSize)

LEMMA OwnSlot ==
  ASSUME ConfigInv, NEW m \in Nat
  PROVE  m * DpSize \in Nat /\ OwnKey(m) = SlotKey(step, m * DpSize)
<1>1. DpSize \in Nat \ {0} /\ step \in Nat
  BY StepsAssumption DEF ConfigInv
<1> DEFINE k == m * DpSize
<1>2. k \in Nat /\ k = m * DpSize + 0
  BY <1>1
<1> HIDE DEF k
<1>3. OwnKey(m) = SlotKey(step, k)
  BY <1>1, <1>2, KeyOfSlot, 0 \in Nat DEF OwnKey
<1> QED BY <1>2, <1>3 DEF k

LEMMA KeysDiffer ==
  ASSUME ConfigInv, NEW m \in Nat, NEW k \in Nat
  PROVE  /\ OwnKey(m) # NoRoute
         /\ OwnKey(m) = OwnKey(k) => m = k
<1>0. DpSize \in Nat \ {0} /\ step \in Nat
  BY StepsAssumption DEF ConfigInv
<1>1. OwnKey(m) # NoRoute /\ (OwnKey(m) = OwnKey(k) => m * DpSize = k * DpSize)
  BY <1>0, OwnSlot, SlotsDiffer
<1>2. ASSUME m * DpSize = k * DpSize PROVE m = k
  BY <1>0, <1>2, SameSlot, 0 \in 0..(DpSize - 1), m * DpSize + 0 = k * DpSize + 0
<1> QED BY <1>1, <1>2

LEMMA SlotOfAny ==
  ASSUME NEW T \in Nat \ {0}, NEW a \in Nat, a % T = 0, NEW k \in Nat, k < a
  PROVE  /\ k % T \in 0..(T - 1) /\ k \div T \in 0..((a \div T) - 1)
         /\ k = (k \div T) * T + (k % T)
<1>1. PICK n \in Nat : n = a \div T /\ a = n * T
  <2>1. a \div T \in Nat /\ a = (a \div T) * T + (a % T)
    BY Whole
  <2> DEFINE n == a \div T
  <2>2. n \in Nat /\ a = n * T + (a % T)
    BY <2>1
  <2> HIDE DEF n
  <2>3. a = n * T
    BY <2>2
  <2> QED BY <2>2, <2>3 DEF n
<1>2. k \div T \in Nat /\ k % T \in 0..(T - 1) /\ k = (k \div T) * T + (k % T)
  BY Whole
<1>3. (k \div T) * T + (k % T) < n * T
  BY <1>1, <1>2
<1>4. k \div T < n
  BY <1>2, <1>3, Slots
<1> QED BY <1>1, <1>2, <1>4

LEMMA TracedHas ==
  ASSUME NEW b \in Traced, NEW e \in 0..(config.traceDp - 1),
         NEW p \in Micros(config.traceDp)
  PROVE  \E c \in DOMAIN b : b[c] = CallKey(step, e, p, config.traceDp)
<1> DEFINE keys == {CallKey(step, d, m, config.traceDp) :
                      d \in 0..(config.traceDp - 1), m \in Micros(config.traceDp)}
<1>1. \A k \in keys : \E c \in DOMAIN b : b[c] = k
  <2>1. Traced = {x \in [1..Cardinality(keys) -> keys] :
                    \A k \in keys : \E c \in DOMAIN x : x[c] = k}
    BY DEF Traced
  <2> HIDE DEF keys
  <2> QED BY <2>1
<1>2. CallKey(step, e, p, config.traceDp) \in keys
  OBVIOUS
<1> HIDE DEF keys
<1> QED BY <1>1, <1>2

LEMMA TracedDomain ==
  ASSUME ConfigInv, Replays, NEW b \in Traced
  PROVE  0 \notin DOMAIN b
<1> DEFINE T == config.traceDp
           a == 0..(T - 1)
           p == Micros(T)
           keys == {CallKey(step, d, m, T) : d \in a, m \in p}
<1>1. \E n \in Nat : p = 0..(n - 1)
  <2>1. Accumulate \in Nat /\ T \in Nat \ {0}
    BY ConfigFacts DEF Replays
  <2>2. Accumulate \div T \in Nat
    BY <2>1, Whole
  <2> QED BY <2>2 DEF Micros, Accumulate
<1>2. IsFiniteSet(a) /\ IsFiniteSet(p)
  <2>1. T \in Nat
    BY ConfigFacts
  <2> QED BY <1>1, <2>1, FS_Interval
<1>3. IsFiniteSet(a \X p)
  BY <1>2, FS_Product
<1> DEFINE f == [x \in a \X p |-> CallKey(step, x[1], x[2], T)]
<1>4. f \in Surjection(a \X p, keys)
  <2>1. f \in [a \X p -> keys]
    OBVIOUS
  <2>2. ASSUME NEW k \in keys PROVE \E x \in a \X p : f[x] = k
    <3>1. PICK d \in a, m \in p : k = CallKey(step, d, m, T)
      BY <2>2
    <3>2. <<d, m>> \in a \X p /\ f[<<d, m>>] = k
      BY <3>1
    <3> QED BY <3>2
  <2> HIDE DEF f, keys, a, p
  <2> QED BY <2>1, <2>2 DEF Surjection
<1>5. b \in [1..Cardinality(keys) -> keys]
  BY DEF Traced
<1> HIDE DEF T, a, p, keys, f
<1>6. Cardinality(keys) \in Nat
  BY <1>3, <1>4, FS_Surjection, FS_CardinalityType
<1> QED BY <1>5, <1>6

\* A complete trace has each call of the replica, whatever was traced.
LEMMA TraceComplete ==
  ASSUME ConfigInv, Replays, NEW b \in Traced, NEW m \in Micros(DpSize)
  PROVE  \E c \in DOMAIN b : b[c] = OwnKey(m)
<1>0. /\ DpSize \in Nat \ {0} /\ step \in Nat /\ m \in Nat /\ config.traceDp \in Nat \ {0}
      /\ m * DpSize \in Nat /\ Accumulate \in Nat \ {0} /\ Accumulate % config.traceDp = 0
  BY StepsAssumption, ConfigFacts DEF ConfigInv, Replays, Accumulate
<1>1. PICK k \in Nat : k = m * DpSize
  BY <1>0
<1>2. k < Accumulate
  <2>1. m < LastMicro /\ 0 \in 0..(DpSize - 1)
    BY <1>0, ConfigFacts
  <2>2. m * DpSize + 0 < LastMicro * DpSize
    BY <1>0, <2>1, ConfigFacts, Slots
  <2> QED BY <1>0, <1>1, <2>2, ConfigFacts
<1>3. PICK T \in Nat \ {0} : T = config.traceDp
  BY <1>0
<1>4. PICK q \in Micros(T), d \in 0..(T - 1) : k = q * T + d
  <2>1. k % T \in 0..(T - 1) /\ k \div T \in 0..((Accumulate \div T) - 1)
        /\ k = (k \div T) * T + (k % T)
    BY <1>0, <1>2, <1>3, SlotOfAny
  <2>2. k \div T \in Micros(T)
    BY <2>1 DEF Micros, Accumulate
  <2> QED BY <2>1, <2>2
<1>5. q \in Nat /\ d \in Nat
  <2>1. PICK n \in Nat : n = Accumulate \div T
    BY <1>0, Whole
  <2>2. q \in 0..(n - 1)
    BY <1>4, <2>1 DEF Micros, Accumulate
  <2> QED BY <1>4, <2>1, <2>2
<1>6. CallKey(step, d, q, T) = SlotKey(step, k)
  <2>1. k = q * T + d /\ T \in Nat /\ k \in Nat
    BY <1>0, <1>1, <1>4
  <2> QED BY <1>0, <1>5, <2>1, KeyOfSlot
<1>7. OwnKey(m) = CallKey(step, d, q, T)
  <2>1. OwnKey(m) = SlotKey(step, m * DpSize)
    BY <1>0, OwnSlot
  <2> QED BY <1>1, <1>6, <2>1
<1>8. \E c \in DOMAIN b : b[c] = CallKey(step, d, q, T)
  BY <1>3, <1>4, TracedHas
<1> QED BY <1>7, <1>8

-----------------------------------------------------------------------------
(* What a gradient step is made of.                                          *)

LEMMA IndexOf ==
  ASSUME ConfigInv, NEW d \in 0..(DpSize - 1), NEW m \in Micros(DpSize),
         NEW j \in 0..(Len(rows) - 1)
  PROVE  /\ m * DpSize + d \in 0..(Accumulate - 1)
         /\ SampleIndex(step, d, m, DpSize) = j <=> step * Accumulate + (m * DpSize + d) = j
<1>0. /\ DpSize \in Nat \ {0} /\ step \in Nat /\ m \in Nat /\ d \in Nat /\ m < LastMicro
      /\ Accumulate = LastMicro * DpSize /\ LastMicro \in Nat /\ Accumulate \in Nat
      /\ Len(rows) \in Nat
  BY StepsAssumption, ConfigFacts DEF ConfigInv
<1>1. m * DpSize + d < LastMicro * DpSize
  BY <1>0, Slots
<1>2. PICK k \in Nat : k = m * DpSize
  BY <1>0
<1>3. PICK base \in Nat : base = step * Accumulate
  BY <1>0
<1>4. step * config.accumulate + m * DpSize + d = base + k + d
  BY <1>2, <1>3 DEF Accumulate
<1>5. SampleIndex(step, d, m, DpSize) = IF base + k + d < Len(rows) THEN base + k + d ELSE None
  BY <1>4 DEF SampleIndex
<1> QED BY <1>0, <1>1, <1>2, <1>3, <1>5 DEF None

LEMMA InOneSlot ==
  ASSUME ConfigInv, NEW i \in DOMAIN rows
  PROVE  Cardinality({dm \in (0..(DpSize - 1)) \X Micros(DpSize) :
                        SampleIndex(step, dm[1], dm[2], DpSize) = i - 1})
           = IF step * Accumulate <= i - 1 /\ i - 1 < step * Accumulate + Accumulate
             THEN 1 ELSE 0
<1> DEFINE mine == {dm \in (0..(DpSize - 1)) \X Micros(DpSize) :
                      SampleIndex(step, dm[1], dm[2], DpSize) = i - 1}
<1>0. /\ DpSize \in Nat \ {0} /\ step \in Nat /\ Accumulate \in Nat
      /\ i - 1 \in 0..(Len(rows) - 1) /\ Len(rows) \in Nat
      /\ Accumulate % DpSize = 0 /\ Micros(DpSize) = 0..(LastMicro - 1)
      /\ LastMicro = Accumulate \div DpSize /\ LastMicro \in Nat
  BY StepsAssumption, ConfigFacts DEF ConfigInv, LastMicro, Accumulate
<1>1. PICK base \in Nat : base = step * Accumulate
  BY <1>0
<1>2. ASSUME base <= i - 1, i - 1 < base + Accumulate
      PROVE  Cardinality(mine) = 1
  <2>1. PICK k \in Nat : k = i - 1 - base /\ k < Accumulate
    BY <1>0, <1>2
  <2>2. PICK d \in 0..(DpSize - 1), m \in Micros(DpSize) : k = m * DpSize + d
    <3>1. /\ k % DpSize \in 0..(DpSize - 1) /\ k \div DpSize \in 0..((Accumulate \div DpSize) - 1)
          /\ k = (k \div DpSize) * DpSize + (k % DpSize)
      BY <1>0, <2>1, SlotOfAny
    <3> QED BY <1>0, <3>1
  <2>3. ASSUME NEW e \in 0..(DpSize - 1), NEW n \in Micros(DpSize)
        PROVE  SampleIndex(step, e, n, DpSize) = i - 1 <=> e = d /\ n = m
    <3>1. m \in Int /\ n \in Int
      BY <1>0
    <3>2. n * DpSize + e \in 0..(Accumulate - 1)
          /\ (SampleIndex(step, e, n, DpSize) = i - 1 <=> base + (n * DpSize + e) = i - 1)
      <4> HIDE DEF mine
      <4>1. /\ n * DpSize + e \in 0..(Accumulate - 1)
            /\ SampleIndex(step, e, n, DpSize) = i - 1 <=> step * Accumulate + (n * DpSize + e) = i - 1
        <5> DEFINE j == i - 1
        <5>1. j \in 0..(Len(rows) - 1)
          BY <1>0
        <5> HIDE DEF j
        <5>2. /\ n * DpSize + e \in 0..(Accumulate - 1)
              /\ SampleIndex(step, e, n, DpSize) = j <=> step * Accumulate + (n * DpSize + e) = j
          BY <5>1, IndexOf
        <5> QED BY <5>2 DEF j
      <4> QED BY <1>1, <4>1
    <3>3. base + (n * DpSize + e) = i - 1 <=> n * DpSize + e = k
      <4> DEFINE j == n * DpSize + e
      <4>1. j \in Int
        BY <3>2
      <4> HIDE DEF j
      <4>2. base + j = i - 1 <=> j = k
        <5> DEFINE x == i - 1
        <5>1. x \in Int /\ k = x - base
          BY <1>0, <2>1
        <5> HIDE DEF x
        <5>2. base + j = x <=> j = k
          BY <1>1, <4>1, <5>1
        <5> QED BY <5>2 DEF x
      <4> QED BY <4>2 DEF j
    <3>4. n * DpSize + e = m * DpSize + d => n = m /\ e = d
      BY <1>0, <3>1, SameSlot
    <3> QED BY <2>2, <3>2, <3>3, <3>4
  <2>4. mine = {<<d, m>>}
    BY <2>3
  <2> QED BY <2>4, FS_Singleton
<1>3. ASSUME ~(base <= i - 1 /\ i - 1 < base + Accumulate)
      PROVE  Cardinality(mine) = 0
  <2>1. ASSUME NEW e \in 0..(DpSize - 1), NEW n \in Micros(DpSize),
               SampleIndex(step, e, n, DpSize) = i - 1
        PROVE  FALSE
    <3>1. n * DpSize + e \in 0..(Accumulate - 1) /\ base + (n * DpSize + e) = i - 1
      BY <1>0, <1>1, <2>1, IndexOf
    <3> DEFINE k == n * DpSize + e
    <3>2. k \in 0..(Accumulate - 1) /\ base + k = i - 1
      BY <3>1
    <3> HIDE DEF k
    <3> QED BY <1>0, <1>3, <3>2
  <2>2. mine = {}
    BY <2>1
  <2> QED BY <2>2, FS_EmptySet
<1> HIDE DEF mine
<1>4. Cardinality(mine) = IF base <= i - 1 /\ i - 1 < base + Accumulate THEN 1 ELSE 0
  BY <1>2, <1>3
<1> QED BY <1>1, <1>4 DEF mine

-----------------------------------------------------------------------------
(* What holds between the steps of the ranks.                                *)

\* A row is in the gradients of the steps that are over.
ContributedKept ==
  \/ step = 0 /\ contributed = <<>> /\ phase \in BeforeSteps \cup {"packed"}
  \/ /\ phase \notin BeforeSteps
     /\ contributed = [i \in DOMAIN rows |-> IF i - 1 < step * Accumulate THEN 1 ELSE 0]

\* The replica's calls are all recorded.
BundleOwn ==
  /\ 0 \notin DOMAIN bundle
  /\ \A m \in Micros(DpSize) : \E c \in DOMAIN bundle : bundle[c] = OwnKey(m)

\* Every router has had one call for each micro-batch so far.
Cursors ==
  /\ consumed = [l \in LayerIds |-> IF l <= routed THEN micro + 1 ELSE micro]
  /\ lastCall = [l \in LayerIds |->
                   IF consumed[l] = 0 THEN 0 ELSE LocalCall(consumed[l] - 1)]

ReplayKept ==
  /\ routed \in 0..(2 * Layers) /\ route \in {NoRoute, ActiveKey} /\ micro \in Nat
  /\ phase # "routers" => routed = 0 /\ route = NoRoute
  /\ phase \in {"routers"} \cup PassPhases => micro \in Micros(DpSize)
  /\ Replays /\ phase \in StepPhases => BundleOwn /\ Cursors

GradientInv ==
  /\ ConfigInv
  /\ phase \in BeforeSteps \cup {"packed", "rejected"} \cup StepPhases
  /\ ContributedKept /\ ReplayKept

LEMMA KeysKept ==
  ASSUME UNCHANGED <<config, step, rows>>
  PROVE  /\ \A m : OwnKey(m)' = OwnKey(m)
         /\ Micros(DpSize)' = Micros(DpSize) /\ Accumulate' = Accumulate
         /\ Replays' = Replays
BY DEF OwnKey, CallKey, SampleIndex, Slot, Micros, Accumulate, Replays

LEMMA CallsKept ==
  ASSUME UNCHANGED <<config, step, rows, bundle>>
  PROVE  /\ \A m : LocalCall(m)' = LocalCall(m)
         /\ BundleOwn' = BundleOwn
<1>1. \A m : CallKey(step, 0, m, DpSize)' = CallKey(step, 0, m, DpSize)
  BY DEF CallKey, SampleIndex, Slot
<1>2. \A m : LocalCall(m)' = LocalCall(m)
  BY <1>1 DEF LocalCall
<1> QED BY <1>2, KeysKept DEF BundleOwn

LEMMA LocalCallOwn ==
  ASSUME BundleOwn, NEW m \in Micros(DpSize)
  PROVE  /\ LocalCall(m) \in DOMAIN bundle /\ LocalCall(m) # 0
         /\ bundle[LocalCall(m)] = OwnKey(m)
<1>1. \E c \in DOMAIN bundle : bundle[c] = CallKey(step, 0, m, DpSize)
  BY DEF BundleOwn, OwnKey
<1> QED BY <1>1 DEF LocalCall, OwnKey, BundleOwn

LEMMA RanksKeepRows ==
  ASSUME RanksStep \/ LayersStep
  PROVE  /\ phase \in PassPhases /\ phase' \in PassPhases \cup {"rejected"}
         /\ UNCHANGED packVars
<1>1. CASE Parse
  BY <1>1 DEF Parse, ReadPrefix, ReadCompletion, RowRejected, RowRead, AtToken, PassPhases
<1>2. CASE Plan
  BY <1>2 DEF Plan, BeginFamilies, AssignFamily, MoveBundle, BundlesSettled, BeginSegments,
    PlaceChained, PlaceLocal, Place, Placing, FamiliesAssigned, SharedByFamilies,
    AllRowsRead, PassPhases
<1>3. CASE Forward
  BY <1>3 DEF Forward, Begin, ScatterTokens, RunChainPrefixes, RunChainCompletions,
    ExchangeStates, GatherOutputs, RunPrefixes, SkipChainCompletions, RunReady,
    SkipExchange, RunRemote, PassPhases
<1>4. CASE LayersStep
  BY <1>4 DEF LayersStep, BeginLayers, LayerForward, LayerBackward, PassPhases
<1> QED BY <1>1, <1>2, <1>3, <1>4 DEF RanksStep

LEMMA NothingChanges ==
  ASSUME GradientInv, UNCHANGED <<phase, config, step, micro, rows, controllerVars, contributed>>
  PROVE  GradientInv'
<1>1. ContributedKept'
  BY KeysKept DEF GradientInv, ContributedKept
<1>2. UNCHANGED <<config, step, rows, bundle>>
  BY DEF controllerVars
<1>3. ReplayKept'
  <2>1. Cursors' = Cursors /\ BundleOwn' = BundleOwn
    BY <1>2, CallsKept DEF Cursors, controllerVars
  <2>2. ActiveKey' = ActiveKey
    BY DEF ActiveKey, CallKey, SampleIndex, Slot
  <2> QED BY <2>1, <2>2, KeysKept DEF GradientInv, ReplayKept, controllerVars
<1>4. ConfigInv'
  BY DEF GradientInv, ConfigInv, RowsListed
<1> QED BY <1>1, <1>3, <1>4 DEF GradientInv

LEMMA RowsForgotten ==
  ASSUME GradientInv, ForgetRows
  PROVE  GradientInv'
<1>1. ConfigInv'
  BY DEF ForgetRows, GradientInv, ConfigInv, RowsListed
<1>2. phase' = "over" /\ step' = 0 /\ contributed' = <<>> /\ routed' = 0 /\ route' = NoRoute
      /\ micro' = 0
  BY DEF ForgetRows
<1> QED BY <1>1, <1>2, StepsAssumption
       DEF GradientInv, ContributedKept, ReplayKept, BeforeSteps, StepPhases, PassPhases

LEMMA RowsArePacked ==
  ASSUME GradientInv, PackStep, UNCHANGED stepVars
  PROVE  GradientInv'
<1>1. /\ phase \in {"tokenize", "pack"} /\ phase' \in {"tokenize", "pack", "nothing", "packed"}
      /\ UNCHANGED <<config, step, micro, controllerVars, contributed>>
  BY DEF PackStep, Pack, TokenizeGroup, DropTooLong, PackResult, RowsShuffled, stepVars
<1>2. ConfigInv'
  BY <1>1, RowsStayListed DEF GradientInv, ConfigInv
<1>3. ContributedKept' /\ phase # "routers" /\ phase' \notin {"routers"} \cup StepPhases
  BY <1>1 DEF GradientInv, ContributedKept, BeforeSteps, StepPhases, PassPhases
<1>4. ReplayKept'
  BY <1>1, <1>3 DEF GradientInv, ReplayKept, controllerVars, StepPhases
<1> QED BY <1>1, <1>2, <1>3, <1>4 DEF GradientInv, BeforeSteps

LEMMA PassGoesOn ==
  ASSUME GradientInv, phase \in PassPhases \/ (phase = "step" /\ micro \in Micros(DpSize)),
         phase' \in PassPhases \cup {"rejected", "routers"},
         UNCHANGED <<config, step, micro, rows, controllerVars, contributed>>
  PROVE  GradientInv'
<1>1. UNCHANGED <<config, step, rows, bundle>>
  BY DEF controllerVars
<1>2. ContributedKept'
  BY KeysKept DEF GradientInv, ContributedKept, BeforeSteps, PassPhases
<1>3. ReplayKept'
  <2>1. Cursors' = Cursors /\ BundleOwn' = BundleOwn
    BY <1>1, CallsKept DEF Cursors, controllerVars
  <2>2. ActiveKey' = ActiveKey
    BY DEF ActiveKey, CallKey, SampleIndex, Slot
  <2>3. phase # "routers" /\ phase \in StepPhases /\ micro \in Micros(DpSize)
    BY DEF GradientInv, ReplayKept, PassPhases, StepPhases
  <2> QED BY <2>1, <2>2, <2>3, KeysKept DEF GradientInv, ReplayKept, controllerVars
<1>4. ConfigInv'
  BY DEF GradientInv, ConfigInv, RowsListed
<1> QED BY <1>2, <1>3, <1>4 DEF GradientInv, StepPhases

LEMMA StepBegins ==
  ASSUME GradientInv, BeginStep
  PROVE  GradientInv'
<1>0. /\ phase = "packed" /\ micro' = 0 /\ UNCHANGED <<config, step, rows, routed, route>>
      /\ routed = 0 /\ route = NoRoute /\ DOMAIN rows = 1..Len(rows) /\ Len(rows) \in Nat
      /\ ConfigInv /\ Layers \in Nat
  BY ConfigFacts, StepsAssumption
     DEF BeginStep, GradientInv, ReplayKept, packVars
<1>1. ConfigInv'
  BY <1>0 DEF GradientInv, ConfigInv, RowsListed
<1>2. PICK b \in IF Replays THEN Traced ELSE {<<>>} :
        /\ phase' = IF Replays /\ CallMissing(b) THEN "raised" ELSE "step"
        /\ bundle' = b
  BY DEF BeginStep
<1>3. Replays => BundleOwn' /\ ~CallMissing(b)
  <2> SUFFICES ASSUME Replays PROVE BundleOwn' /\ ~CallMissing(b)
    OBVIOUS
  <2>1. b \in Traced
    BY <1>2
  <2>2. \A m \in Micros(DpSize) : \E c \in DOMAIN b : b[c] = OwnKey(m)
    BY <1>0, <2>1, TraceComplete
  <2>3. 0 \notin DOMAIN b
    BY <1>0, <2>1, TracedDomain
  <2> QED BY <1>0, <1>2, <2>2, <2>3, KeysKept DEF BundleOwn, CallMissing, OwnKey
<1>4. phase' = "step"
  BY <1>2, <1>3
<1>5. ContributedKept'
  <2>1. Accumulate \in Nat /\ step \in Nat /\ Accumulate' = Accumulate
    BY <1>0, ConfigFacts, KeysKept DEF ConfigInv
  <2>2. CASE step = 0
    <3>1. step * Accumulate = 0
      BY <2>1, <2>2
    <3>2. contributed' = [i \in DOMAIN rows |-> 0]
      BY <2>2 DEF BeginStep
    <3>3. \A i \in DOMAIN rows : ~(i - 1 < 0)
      BY <1>0
    <3>4. contributed' = [i \in DOMAIN rows |-> IF i - 1 < step * Accumulate THEN 1 ELSE 0]
      BY <3>1, <3>2, <3>3
    <3> QED BY <1>0, <1>4, <2>1, <3>4 DEF ContributedKept, BeforeSteps
  <2>3. CASE step # 0
    <3>1. contributed' = contributed
      BY <2>3 DEF BeginStep
    <3> QED BY <1>0, <1>4, <2>1, <2>3, <3>1 DEF GradientInv, ContributedKept, BeforeSteps
  <2> QED BY <2>2, <2>3
<1>6. Cursors'
  <2>1. /\ consumed' = [l \in LayerIds |-> 0] /\ lastCall' = [l \in LayerIds |-> 0]
        /\ routed' = 0 /\ micro' = 0
    BY <1>0 DEF BeginStep
  <2> QED BY <1>0, <2>1 DEF Cursors, LayerIds
<1>7. ReplayKept'
  BY <1>0, <1>3, <1>4, <1>6, KeysKept DEF ReplayKept, PassPhases
<1> QED BY <1>1, <1>4, <1>5, <1>7 DEF GradientInv, StepPhases

LEMMA MicroIsOver ==
  ASSUME GradientInv, MicroOver
  PROVE  GradientInv'
<1>0. /\ phase = "routers" /\ phase' = "step" /\ micro' = micro + 1 /\ routed' = 0
      /\ route' = NoRoute /\ (Replays => routed = 2 * Layers) /\ Layers \in Nat \ {0}
      /\ UNCHANGED <<config, step, rows, bundle, consumed, lastCall, contributed>>
      /\ micro \in Nat
  BY StepsAssumption DEF MicroOver, packVars, GradientInv, ReplayKept
<1>1. ConfigInv'
  BY <1>0 DEF GradientInv, ConfigInv, RowsListed
<1>2. ContributedKept'
  BY <1>0, KeysKept DEF GradientInv, ContributedKept, BeforeSteps
<1>3. Replays => BundleOwn' /\ Cursors'
  <2> SUFFICES ASSUME Replays PROVE BundleOwn' /\ Cursors'
    OBVIOUS
  <2>1. BundleOwn /\ Cursors
    BY <1>0 DEF GradientInv, ReplayKept, StepPhases
  <2>2. consumed = [l \in LayerIds |-> micro + 1]
    BY <1>0, <2>1 DEF Cursors, LayerIds
  <2>3. consumed' = [l \in LayerIds |-> IF l <= routed' THEN micro' + 1 ELSE micro']
    BY <1>0, <2>2 DEF LayerIds
  <2> QED BY <1>0, <2>1, <2>3, CallsKept DEF Cursors
<1>4. ReplayKept'
  BY <1>0, <1>3, KeysKept DEF ReplayKept, PassPhases
<1> QED BY <1>0, <1>1, <1>2, <1>4 DEF GradientInv, StepPhases

LEMMA RouterIsCalled ==
  ASSUME GradientInv, RouterCalled
  PROVE  GradientInv'
<1>0. /\ phase = "routers" /\ Replays /\ routed \in 0..(2 * Layers - 1)
      /\ routed' = routed + 1 /\ Layers \in Nat \ {0} /\ micro \in Micros(DpSize)
      /\ UNCHANGED <<config, step, micro, rows, bundle, contributed>>
      /\ ConfigInv /\ BundleOwn /\ Cursors /\ micro \in Nat
  BY StepsAssumption DEF RouterCalled, packVars, GradientInv, ReplayKept, StepPhases
<1>1. PICK last \in Nat : Micros(DpSize) = 0..(last - 1)
  BY <1>0, ConfigFacts
<1> DEFINE l == Called
<1>2. l \in LayerIds
  BY <1>0 DEF Called, LayerIds
<1>3. ActiveKey = OwnKey(micro)
  BY DEF ActiveKey, OwnKey
<1>4. /\ consumed[l] = IF l <= routed THEN micro + 1 ELSE micro
      /\ lastCall[l] = IF consumed[l] = 0 THEN 0 ELSE LocalCall(consumed[l] - 1)
  BY <1>0, <1>2 DEF Cursors
<1>5. /\ route' = ActiveKey /\ phase' = "routers"
      /\ \/ routed < Layers /\ l = routed + 1
            /\ consumed' = [consumed EXCEPT ![l] = micro + 1]
            /\ lastCall' = [lastCall EXCEPT ![l] = LocalCall(micro)]
         \/ routed >= Layers /\ UNCHANGED <<consumed, lastCall>>
  <2>1. CASE routed < Layers
    <3>1. l = routed + 1 /\ consumed[l] = micro
      BY <1>0, <1>4, <2>1 DEF Called
    <3>2. ~Reuses(l)
      <4>1. CASE micro = 0
        BY <1>4, <3>1, <4>1 DEF Reuses
      <4>2. CASE micro # 0
        <5>1. micro - 1 \in Micros(DpSize) /\ micro - 1 \in Nat
          BY <1>0, <1>1, <4>2
        <5>2. bundle[lastCall[l]] = OwnKey(micro - 1)
          BY <1>0, <1>4, <3>1, <4>2, <5>1, LocalCallOwn
        <5>3. OwnKey(micro - 1) # OwnKey(micro)
          BY <1>0, <5>1, KeysDiffer
        <5> QED BY <1>3, <5>2, <5>3 DEF Reuses
      <4> QED BY <4>1, <4>2
    <3>3. NextKey(l) = OwnKey(micro)
      BY <1>0, <3>1, LocalCallOwn DEF NextKey
    <3> QED BY <1>0, <1>3, <2>1, <3>1, <3>2, <3>3 DEF RouterCalled
  <2>2. CASE routed >= Layers
    <3>1. l <= routed /\ consumed[l] = micro + 1
      BY <1>0, <1>4, <2>2 DEF Called
    <3>2. lastCall[l] = LocalCall(micro)
      BY <1>0, <1>4, <3>1
    <3>3. lastCall[l] # 0 /\ bundle[lastCall[l]] = OwnKey(micro)
      BY <1>0, <3>2, LocalCallOwn
    <3>4. NextKey(l) # OwnKey(micro)
      <4>1. CASE micro + 1 \in Micros(DpSize)
        <5>1. NextKey(l) = OwnKey(micro + 1)
          BY <3>1, <4>1, <1>0, LocalCallOwn DEF NextKey
        <5> QED BY <1>0, <5>1, KeysDiffer
      <4>2. CASE micro + 1 \notin Micros(DpSize)
        <5>1. NextKey(l) = NoRoute
          BY <3>1, <4>2 DEF NextKey
        <5> QED BY <1>0, <5>1, KeysDiffer
      <4> QED BY <4>1, <4>2
    <3>5. Reuses(l)
      BY <1>3, <3>3, <3>4 DEF Reuses
    <3> QED BY <1>0, <1>3, <2>2, <3>3, <3>5 DEF RouterCalled
  <2> QED BY <1>0, <2>1, <2>2
<1> HIDE DEF l
<1>6. consumed' = [k \in LayerIds |-> IF k <= routed' THEN micro' + 1 ELSE micro']
  <2>1. CASE routed < Layers
    <3>1. consumed' = [consumed EXCEPT ![l] = micro + 1] /\ l = routed + 1
      BY <1>0, <1>5, <2>1
    <3>2. consumed = [k \in LayerIds |-> IF k <= routed THEN micro + 1 ELSE micro]
      BY <1>0 DEF Cursors
    <3>3. ASSUME NEW k \in LayerIds
          PROVE  consumed'[k] = IF k <= routed + 1 THEN micro + 1 ELSE micro
      BY <1>0, <1>2, <3>1, <3>2 DEF LayerIds
    <3>4. consumed' = [k \in LayerIds |-> consumed'[k]]
      BY <3>1, <3>2
    <3> QED BY <1>0, <3>3, <3>4
  <2>2. CASE routed >= Layers
    <3>1. consumed' = consumed
      BY <1>0, <1>5, <2>2
    <3> QED BY <1>0, <2>2, <3>1 DEF Cursors, LayerIds
  <2> QED BY <1>0, <2>1, <2>2
<1>7. lastCall' = [k \in LayerIds |-> IF consumed'[k] = 0 THEN 0 ELSE LocalCall(consumed'[k] - 1)]
  <2>1. CASE routed < Layers
    <3>1. /\ consumed' = [consumed EXCEPT ![l] = micro + 1]
          /\ lastCall' = [lastCall EXCEPT ![l] = LocalCall(micro)]
      BY <1>0, <1>5, <2>1
    <3>2. consumed'[l] = micro + 1 /\ micro + 1 # 0 /\ (micro + 1) - 1 = micro
      BY <1>0, <1>2, <3>1 DEF Cursors
    <3>3. /\ \A k \in LayerIds \ {l} : consumed'[k] = consumed[k] /\ lastCall'[k] = lastCall[k]
          /\ lastCall'[l] = LocalCall(micro)
      BY <1>0, <1>2, <3>1 DEF Cursors
    <3>4. \A k \in LayerIds :
            lastCall'[k] = IF consumed'[k] = 0 THEN 0 ELSE LocalCall(consumed'[k] - 1)
      BY <1>0, <3>2, <3>3 DEF Cursors
    <3>5. lastCall' = [k \in LayerIds |-> lastCall'[k]]
      BY <1>0, <3>1 DEF Cursors
    <3> QED BY <3>4, <3>5
  <2>2. CASE routed >= Layers
    <3>1. lastCall' = lastCall /\ consumed' = consumed
      BY <1>0, <1>5, <2>2
    <3> QED BY <1>0, <3>1 DEF Cursors
  <2> QED BY <1>0, <2>1, <2>2
<1>8. Cursors' /\ BundleOwn'
  BY <1>0, <1>6, <1>7, CallsKept DEF Cursors, LayerIds
<1>9. ActiveKey' = ActiveKey
  BY <1>0 DEF ActiveKey, CallKey, SampleIndex, Slot
<1>10. ReplayKept'
  BY <1>0, <1>5, <1>8, <1>9, KeysKept DEF ReplayKept
<1>11. ContributedKept' /\ ConfigInv'
  BY <1>0, <1>5, KeysKept DEF GradientInv, ContributedKept, BeforeSteps, ConfigInv, RowsListed
<1> QED BY <1>5, <1>10, <1>11 DEF GradientInv, StepPhases

LEMMA OptimizerSteps ==
  ASSUME GradientInv, OptimizerStep
  PROVE  GradientInv'
<1>0. /\ phase = "step" /\ step' = step + 1 /\ micro' = 0
      /\ UNCHANGED <<config, rows, routed, route>> /\ ConfigInv /\ ContributedKept
      /\ routed = 0 /\ route = NoRoute /\ step \in Nat /\ Accumulate \in Nat /\ Layers \in Nat
      /\ DOMAIN rows = 1..Len(rows) /\ Len(rows) \in Nat
  BY ConfigFacts, StepsAssumption
     DEF OptimizerStep, packVars, GradientInv, ReplayKept, ConfigInv
<1>1. phase' = "packed"
  <2>1. ASSUME Replays PROVE \A l \in LayerIds : consumed[l] = micro
    BY <1>0, <2>1 DEF GradientInv, ReplayKept, StepPhases, Cursors, LayerIds
  <2> QED BY <2>1 DEF OptimizerStep
<1>2. ConfigInv'
  BY <1>0 DEF ConfigInv, RowsListed
<1>3. ContributedKept'
  <2>1. PICK base \in Nat : base = step * Accumulate
    BY <1>0
  <2>2. (step + 1) * Accumulate = base + Accumulate
    BY <1>0, <2>1
  <2>3. contributed = [i \in DOMAIN rows |-> IF i - 1 < base THEN 1 ELSE 0]
    BY <1>0, <2>1 DEF ContributedKept, BeforeSteps
  <2>4. ASSUME NEW i \in DOMAIN rows
        PROVE  contributed[i] + Cardinality({dm \in (0..(DpSize - 1)) \X Micros(DpSize) :
                        SampleIndex(step, dm[1], dm[2], DpSize) = i - 1})
                 = IF i - 1 < base + Accumulate THEN 1 ELSE 0
    <3> DEFINE n == Cardinality({dm \in (0..(DpSize - 1)) \X Micros(DpSize) :
                        SampleIndex(step, dm[1], dm[2], DpSize) = i - 1})
    <3>1. n = IF base <= i - 1 /\ i - 1 < base + Accumulate THEN 1 ELSE 0
      BY <1>0, <2>1, InOneSlot
    <3> HIDE DEF n
    <3>2. contributed[i] = IF i - 1 < base THEN 1 ELSE 0
      BY <2>3
    <3>3. contributed[i] + n = IF i - 1 < base + Accumulate THEN 1 ELSE 0
      BY <1>0, <3>1, <3>2
    <3> QED BY <3>3 DEF n
  <2>5. contributed' = [i \in DOMAIN rows |-> IF i - 1 < base + Accumulate THEN 1 ELSE 0]
    BY <2>4 DEF OptimizerStep
  <2>6. Accumulate' = Accumulate
    BY <1>0 DEF Accumulate
  <2> QED BY <1>0, <1>1, <2>2, <2>5, <2>6 DEF ContributedKept, BeforeSteps
<1>4. ReplayKept'
  BY <1>0, <1>1 DEF ReplayKept, PassPhases, StepPhases
<1> QED BY <1>1, <1>2, <1>3, <1>4 DEF GradientInv

-----------------------------------------------------------------------------
(* The properties.                                                           *)

LEMMA ReplicaKeeps == GradientInv /\ ReplicaStep => GradientInv'
<1> SUFFICES ASSUME GradientInv, ReplicaStep PROVE GradientInv'
  OBVIOUS
<1>1. CASE BeginMicro
  BY <1>1, PassGoesOn DEF BeginMicro, SelectRow, stepVars, packVars, PassPhases
<1>2. CASE PassComputed
  BY <1>2, PassGoesOn DEF PassComputed, LayersDone, packVars, PassPhases
<1>3. CASE (RanksStep /\ UNCHANGED stepVars)
        \/ (LayersStep /\ UNCHANGED <<config, step, micro, controllerVars, contributed>>)
  <2>1. UNCHANGED <<config, step, micro, rows, controllerVars, contributed>>
    BY <1>3, RanksKeepRows DEF stepVars, packVars
  <2> QED BY <1>3, <2>1, RanksKeepRows, PassGoesOn
<1> QED BY <1>1, <1>2, <1>3, StepBegins, RouterIsCalled, MicroIsOver, OptimizerSteps
        DEF ReplicaStep

LEMMA StepsInit_Inv == LocalInit => GradientInv
<1> SUFFICES ASSUME LocalInit PROVE GradientInv
  OBVIOUS
<1>1. /\ config \in Configs /\ step = 0 /\ micro = 0 /\ routed = 0 /\ route = NoRoute
      /\ contributed = <<>> /\ phase = "tokenize" /\ rows = << <<>> >>
  BY DEF LocalInit, Init, StepsInit, PassInit, PlanInit, PackInit
<1> QED BY <1>1, StepsAssumption
        DEF GradientInv, ConfigInv, RowsListed, ContributedKept, ReplayKept, BeforeSteps,
            StepPhases, PassPhases

\* All that a step of the system does to the rows.
LEMMA StepOfRows ==
  ASSUME LocalNext
  PROVE  \/ UNCHANGED <<passVars, stepVars>>
         \/ ForgetRows
         \/ PackStep /\ UNCHANGED stepVars
         \/ ReplicaStep
<1> DEFINE Goal == \/ UNCHANGED <<passVars, stepVars>>
                   \/ ForgetRows
                   \/ PackStep /\ UNCHANGED stepVars
                   \/ ReplicaStep
<1>1. UNCHANGED <<passVars, stepVars>> \/ RowsFollow => Goal
  BY DEF RowsFollow
<1>2. CASE Megatron /\ Next /\ OnlyMegatron
  BY <1>1, <1>2 DEF Next, System, Packing, Packed, Compute, RowsRejectedExit, JobComputed,
     BeginFollowed, BeginOther
<1>3. CASE Unsloth /\ (UnslothSystem \/ UnslothOthers) /\ OnlyUnsloth
  BY <1>1, <1>3 DEF UnslothSystem, UnslothOthers, UnslothRowsPacked, UnslothCallBegins,
     OnlyUnsloth
<1>4. CASE TrainerTask
  BY <1>1, <1>4 DEF TrainerTask, OnlyUnsloth
<1> QED BY <1>2, <1>3, <1>4 DEF LocalNext

LEMMA StepsAlways == LocalSpec => []GradientInv
<1>1. GradientInv /\ [LocalNext]_localVars => GradientInv'
  <2> SUFFICES ASSUME GradientInv, [LocalNext]_localVars PROVE GradientInv'
    OBVIOUS
  <2>1. CASE LocalNext
    <3>1. UNCHANGED <<passVars, stepVars>>
            => UNCHANGED <<phase, config, step, micro, rows, controllerVars, contributed>>
      BY DEF passVars, packVars, stepVars
    <3> QED BY <2>1, <3>1, StepOfRows, NothingChanges, RowsForgotten, RowsArePacked, ReplicaKeeps
  <2>2. CASE UNCHANGED localVars
    BY <2>2, NothingChanges DEF localVars, vars, passVars, packVars, stepVars
  <2> QED BY <2>1, <2>2
<1> QED BY <1>1, StepsInit_Inv, PTL DEF LocalSpec

\* RoutesOwn, whatever the number of replicas, of routers and of rows: the
\* cursors of the routers never part, so a call finds its own route at them,
\* and a second call of the micro-batch finds another and takes its last.
THEOREM RoutesAreOwn == LocalSpec => []RoutesOwn
<1>1. GradientInv => RoutesOwn
  BY DEF GradientInv, ReplayKept, RoutesOwn, BeforeSteps, StepPhases, PassPhases
<1> QED BY <1>1, StepsAlways, PTL

\* RowsContributeOnce: after each step exactly the rows before its end have
\* contributed, since a row has one slot, a replica and a micro-batch, in one step.
THEOREM RowsAreTrainedOnOnce == LocalSpec => []RowsContributeOnce
<1>1. GradientInv => RowsContributeOnce
  <2> SUFFICES ASSUME GradientInv PROVE RowsContributeOnce
    OBVIOUS
  <2>0. /\ ConfigInv /\ ContributedKept /\ step \in Nat /\ Accumulate \in Nat \ {0}
        /\ DOMAIN rows = 1..Len(rows) /\ Len(rows) \in Nat
    BY ConfigFacts DEF GradientInv, ConfigInv
  <2>1. \A i \in DOMAIN contributed : contributed[i] <= 1
    BY <2>0 DEF ContributedKept
  <2>2. ASSUME StepsDone, NEW i \in DOMAIN contributed PROVE contributed[i] = 1
    <3>1. PICK m \in Nat : m = Len(rows) + Accumulate - 1
      BY <2>0
    <3>2. step = m \div Accumulate
      BY <2>2, <3>1 DEF StepsDone, NumSteps, Accumulate
    <3>3. m = (m \div Accumulate) * Accumulate + (m % Accumulate) /\ m % Accumulate \in 0..(Accumulate - 1)
      BY <2>0, <3>1, Whole
    <3>4. PICK base \in Nat : base = step * Accumulate
      BY <2>0
    <3>5. base >= Len(rows)
      BY <2>0, <3>1, <3>2, <3>3, <3>4
    <3>6. contributed = [j \in DOMAIN rows |-> IF j - 1 < base THEN 1 ELSE 0]
      BY <2>0, <2>2, <3>4 DEF ContributedKept
    <3> QED BY <2>0, <2>2, <3>5, <3>6
  <2> QED BY <2>1, <2>2 DEF RowsContributeOnce
<1> QED BY <1>1, StepsAlways, PTL

-----------------------------------------------------------------------------
(* The packing and the reading of the rows: what PackedRowsProofs proves of   *)
(* their steps, among those of the services and of the ranks.                *)

PackingInv == ResultsInv /\ LaidInv /\ ParseInv /\ RowsAccepted

\* Where the results, the rows and the parser stay as they are, the phase is
\* all that matters.
LEMMA PackingStays ==
  ASSUME PackingInv, UNCHANGED packVars,
         phase' \notin {"tokenize", "pack", "rejected"} \/ phase' = phase,
         phase \notin {"tokenize", "pack"} \/ phase' = phase,
         ParseInv'
  PROVE  PackingInv'
<1>1. ResultsInv'
  BY DEF PackingInv, ResultsInv, packVars
<1>2. LaidInv'
  <2>1. UNCHANGED <<results, rows, packed>>
    BY DEF packVars
  <2>2. \A tokens, k : /\ RowShape(tokens, k)' <=> RowShape(tokens, k)
                       /\ CanReadBack(tokens, k)' <=> CanReadBack(tokens, k)
                       /\ HoldsOwn(tokens, k)' <=> HoldsOwn(tokens, k)
    BY <2>1, SameResults
  <2>3. Laid(rows, packed) => Laid(rows, packed)'
    BY <2>1, <2>2 DEF Laid
  <2> QED BY <2>1, <2>3 DEF PackingInv, LaidInv
<1>3. RowsAccepted'
  BY DEF PackingInv, RowsAccepted, packVars
<1> QED BY <1>1, <1>2, <1>3 DEF PackingInv

\* Once the row is parsed nothing reads the segments here until it is given back.
LEMMA ParseStays ==
  ASSUME ParseInv, UNCHANGED <<rows, parseVars>>,
         \/ phase' = phase
         \/ phase' \in {"bundle", "place", "forward", "layers"}
         \/ /\ phase \notin {"parse", "rejected", "bundle", "place", "forward", "layers"}
            /\ phase' \notin {"parse", "rejected"}
  PROVE  ParseInv'
<1>1. Line' = Line /\ Reached' = Reached
  BY DEF Line, Reached, parseVars
<1>2. UNCHANGED <<rows, input, row, cursor, segs>>
  BY DEF parseVars
<1>3. CASE phase' = phase /\ phase \in {"parse", "rejected"}
  <2>1. SegsOf(Reached) => SegsOf(Reached)'
    BY <1>1, <1>2 DEF SegsOf
  <2> QED BY <1>1, <1>2, <1>3, <2>1 DEF ParseInv
<1>4. CASE phase' \notin {"parse", "rejected"}
  BY <1>2, <1>4 DEF ParseInv
<1> QED BY <1>2, <1>3, <1>4

\* Nothing is left of the rows of a call that is over.
LEMMA PackingForgotten ==
  ASSUME ForgetRows
  PROVE  PackingInv'
<1>1. /\ phase' = "over" /\ groups' = <<>> /\ results' = <<>> /\ packed' = 0
      /\ rows' = << <<>> >> /\ row' = 1 /\ cursor' = 0 /\ segs' = <<>>
  BY DEF ForgetRows, ForgetPlan
<1>2. ResultsInv'
  <2>1. groups' \in Seq(Seq(Trajectory)) /\ results' \in Seq(Result) /\ DOMAIN results' = {}
    BY <1>1
  <2> QED BY <2>1 DEF ResultsInv
<1>3. Laid(rows, packed)'
  <2>1. <<>> \in Seq(PackedToken) /\ DOMAIN <<>> = {}
    OBVIOUS
  <2>2. rows' \in Seq(Seq(PackedToken)) /\ Len(rows') = 1 /\ DOMAIN rows' = {1} /\ rows'[1] = <<>>
    BY <1>1, <2>1
  <2>3. RowShape(<<>>, 0)'
    BY <2>1 DEF RowShape
  <2> QED BY <1>1, <2>2, <2>3 DEF Laid
<1>4. LaidInv'
  BY <1>1, <1>3 DEF LaidInv
<1>5. ParseInv' /\ RowsAccepted'
  BY <1>1 DEF ParseInv, RowsAccepted
<1> QED BY <1>2, <1>4, <1>5 DEF PackingInv

\* _get_packed_tensors
LEMMA PackingDone ==
  ASSUME PackingInv, PackStep
  PROVE  PackingInv'
<1>1. ResultsInv' /\ LaidInv'
  BY PackKeeps DEF PackStep, PackingInv
<1>2. /\ phase \in {"tokenize", "pack"} /\ phase' \in {"tokenize", "pack", "nothing", "packed"}
      /\ UNCHANGED parseVars
  BY DEF PackStep, Pack, TokenizeGroup, DropTooLong, PackResult, RowsShuffled
<1>3. ParseInv' /\ RowsAccepted'
  BY <1>2 DEF PackingInv, ParseInv, RowsAccepted, parseVars
<1> QED BY <1>1, <1>3 DEF PackingInv

\* A micro-batch takes a row there is, and the parser starts from its beginning.
LEMMA RowIsSelected ==
  ASSUME GradientInv, PackingInv, BeginMicro
  PROVE  PackingInv'
<1> DEFINE index == SampleIndex(step, 0, micro, DpSize)
           i == IF index = None THEN 1 ELSE index + 1
<1>1. i \in DOMAIN rows
  <2>0. /\ step \in Nat /\ micro \in Nat /\ Accumulate \in Nat /\ DpSize \in Nat
        /\ Len(rows) \in Nat \ {0} /\ DOMAIN rows = 1..Len(rows)
    BY ConfigFacts, StepsAssumption DEF GradientInv, ConfigInv, ReplayKept
  <2>1. PICK base \in Nat : base = step * Accumulate
    BY <2>0
  <2>2. PICK slot \in Nat : slot = micro * DpSize
    BY <2>0
  <2>3. index = IF base + slot + 0 < Len(rows) THEN base + slot + 0 ELSE None
    BY <2>1, <2>2 DEF SampleIndex, Accumulate
  <2> QED BY <2>0, <2>3 DEF None
<1> HIDE DEF i
<1>2. /\ phase = "step" /\ phase' = "parse" /\ input' = << rows[i] >>
      /\ UNCHANGED <<packVars, row, cursor, segs>>
  BY DEF BeginMicro, SelectRow, i
<1>3. row = 1 /\ cursor = 0 /\ segs = <<>>
  BY <1>2 DEF PackingInv, ParseInv
<1>4. Line' = rows[i] /\ Len(Line') \in Nat
  <2>1. rows \in Seq(Seq(PackedToken))
    BY DEF PackingInv, LaidInv, Laid
  <2> QED BY <1>1, <1>2, <2>1 DEF Line
<1>5. Reached' = 0
  BY <1>2, <1>3 DEF Reached
<1>6. SegsOf(Reached)'
  <2>1. segs' = <<>> /\ DOMAIN segs' = {} /\ segs' \in Seq(Segment)
    BY <1>2, <1>3
  <2> QED BY <1>5, <2>1 DEF SegsOf
<1>7. ParseInv'
  BY <1>1, <1>2, <1>3, <1>4, <1>6 DEF ParseInv, packVars
<1> QED BY <1>2, <1>7, PackingStays

\* Only the parser moves on in the row; the plan and the layers leave it.
LEMMA RowIsRead ==
  ASSUME PackingInv, RanksStep \/ LayersStep
  PROVE  PackingInv'
<1>0. UNCHANGED packVars
  BY RanksKeepRows
<1>1. CASE Parse
  <2>1. ParseInv' /\ (phase' = "rejected" => \E k \in DOMAIN results : results[k].promptLength = 0)
    BY <1>1, ParseKeeps DEF PackingInv
  <2>2. phase = "parse" /\ phase' \in {"parse", "rejected"}
    BY <1>1 DEF Parse, ReadPrefix, ReadCompletion, RowRejected, RowRead, AtToken
  <2>3. RowsAccepted'
    BY <1>0, <2>1 DEF RowsAccepted, packVars
  <2>4. ResultsInv' /\ LaidInv'
    <3>1. CASE phase' = phase
      BY <1>0, <2>1, <3>1, PackingStays DEF PackingInv
    <3>2. CASE phase' = "rejected"
      <4> QED BY <1>0, <2>2, <3>2, SameResults DEF PackingInv, ResultsInv, LaidInv, Laid, packVars
    <3> QED BY <2>2, <3>1, <3>2
  <2> QED BY <2>1, <2>3, <2>4 DEF PackingInv
<1>2. CASE Plan \/ Forward \/ LayersStep
  <2>1. /\ phase \in PassPhases /\ UNCHANGED parseVars
        /\ phase' = phase \/ phase' \in {"bundle", "place", "forward", "layers"}
    <3>1. CASE Plan
      BY <3>1 DEF Plan, BeginFamilies, AssignFamily, MoveBundle, BundlesSettled, BeginSegments,
        PlaceChained, PlaceLocal, Place, Placing, FamiliesAssigned, SharedByFamilies,
        AllRowsRead, PassPhases
    <3>2. CASE Forward
      BY <3>2 DEF Forward, Begin, ScatterTokens, RunChainPrefixes, RunChainCompletions,
        ExchangeStates, GatherOutputs, RunPrefixes, SkipChainCompletions, RunReady,
        SkipExchange, RunRemote, PassPhases
    <3>3. CASE LayersStep
      BY <3>3 DEF LayersStep, BeginLayers, LayerForward, LayerBackward, PassPhases
    <3> QED BY <1>2, <3>1, <3>2, <3>3
  <2>2. ParseInv'
    BY <1>0, <2>1, ParseStays DEF PackingInv, packVars
  <2> QED BY <1>0, <2>1, <2>2, PackingStays DEF PassPhases
<1> QED BY <1>1, <1>2 DEF RanksStep

LEMMA ReplicaKeepsPacking ==
  ASSUME GradientInv, GradientInv', PackingInv, ReplicaStep
  PROVE  PackingInv'
<1>1. CASE BeginStep \/ RouterCalled \/ MicroOver \/ OptimizerStep
  <2>1. /\ phase \in {"packed", "step", "routers"} /\ UNCHANGED <<packVars, parseVars>>
        /\ phase' \in {"packed", "step", "routers", "raised"}
    BY <1>1 DEF BeginStep, RouterCalled, MicroOver, OptimizerStep
  <2>2. ParseInv'
    BY <2>1, ParseStays DEF PackingInv, packVars
  <2> QED BY <2>1, <2>2, PackingStays
<1>2. CASE PassComputed
  <2>1. /\ phase = "layers" /\ phase' = "routers" /\ UNCHANGED packVars
        /\ row' = 1 /\ cursor' = 0 /\ segs' = <<>>
    BY <1>2 DEF PassComputed, LayersDone, ForgetPlan
  <2>2. ParseInv'
    BY <2>1 DEF ParseInv
  <2> QED BY <2>1, <2>2, PackingStays
<1> QED BY <1>1, <1>2, RowIsSelected, RowIsRead DEF ReplicaStep

LEMMA PackingAlways == LocalSpec => []PackingInv
<1>1. LocalInit => PackingInv
  <2> SUFFICES ASSUME LocalInit PROVE PackingInv
    OBVIOUS
  <2>1. PackInit
    BY DEF LocalInit, Init, StepsInit, PassInit, PlanInit
  <2>2. ParseInv /\ RowsAccepted
    BY <2>1 DEF PackInit, ParseInv, RowsAccepted
  <2> QED BY <2>1, <2>2, LaidInit DEF PackingInv
<1>2. GradientInv /\ GradientInv' /\ PackingInv /\ [LocalNext]_localVars => PackingInv'
  <2> SUFFICES ASSUME GradientInv, GradientInv', PackingInv, [LocalNext]_localVars PROVE PackingInv'
    OBVIOUS
  <2>1. CASE UNCHANGED passVars
    <3>1. UNCHANGED <<phase, packVars, rows, parseVars>>
      BY <2>1 DEF passVars, packVars
    <3>2. ParseInv'
      BY <3>1, ParseStays DEF PackingInv
    <3> QED BY <3>1, <3>2, PackingStays
  <2>2. UNCHANGED localVars => UNCHANGED passVars
    BY DEF localVars, vars
  <2> QED BY <2>1, <2>2, StepOfRows, PackingForgotten, PackingDone, ReplicaKeepsPacking
<1> QED BY <1>1, <1>2, StepsAlways, LocalSteps, PTL

\* RowsAccepted, for every batch, row length and way of packing: the parser
\* rejects a row of packed_tensors_from_tokenized_results only if the trajectories
\* of some group have no prompt token in common.
THEOREM PackedIsAccepted == LocalSpec => []RowsAccepted
<1>1. PackingInv => RowsAccepted
  BY DEF PackingInv
<1> QED BY <1>1, PackingAlways, PTL

\* ResultsReadBack: each result with something to train on is in one row, and the
\* parser reads it from there as it was tokenized, once and with its own prompt,
\* whichever result of its group brought that.
THEOREM PackedIsReadBack == LocalSpec => []ResultsReadBack
<1>1. PackingInv => ResultsReadBack
  BY ReadBack DEF PackingInv
<1> QED BY <1>1, PackingAlways, PTL

-----------------------------------------------------------------------------
(* What attention lets a token of a row see.                                 *)

LEMMA RunOf ==
  ASSUME NEW a \in Nat, NEW b \in Nat, a <= b
  PROVE  IsFiniteSet((a + 1)..b) /\ Cardinality((a + 1)..b) = b - a
<1>1. a + 1 \in Int /\ b \in Int
  OBVIOUS
<1>2. /\ IsFiniteSet((a + 1)..b)
      /\ Cardinality((a + 1)..b) = IF a + 1 > b THEN 0 ELSE b - (a + 1) + 1
  BY <1>1, FS_Interval
<1> QED BY <1>2

\* The m positions after the a-th, and those after the s-th up to the b-th.
Runs(a, m, s, b) == ((a + 1)..(a + m)) \cup ((s + 1)..b)

LEMMA TwoRuns ==
  ASSUME NEW a \in Nat, NEW m \in Nat, NEW s \in Nat, NEW b \in Nat, a + m <= s, s <= b
  PROVE  Cardinality(Runs(a, m, s, b)) = m + (b - s)
<1> DEFINE S == (a + 1)..(a + m)
           T == (s + 1)..b
<1>1. IsFiniteSet(S) /\ Cardinality(S) = m
  BY RunOf, a + m \in Nat, a <= a + m, (a + m) - a = m
<1>2. IsFiniteSet(T) /\ Cardinality(T) = b - s
  BY RunOf
<1>3. S \cap T = {}
  OBVIOUS
<1>5. Runs(a, m, s, b) = S \cup T
  BY DEF Runs
<1> HIDE DEF S, T
<1>4. Cardinality(S \cup T) = Cardinality(S) + Cardinality(T) - Cardinality({})
  BY <1>1, <1>2, <1>3, FS_Union
<1> QED BY <1>1, <1>2, <1>4, <1>5, FS_EmptySet

\* A token sees the run of its prompt, or the runs of its prompt and of its own.
LEMMA SeesItsRuns ==
  ASSUME ResultsInv, NEW tokens \in Seq(PackedToken), NEW k \in DOMAIN results,
         NEW a \in Nat, NEW s \in Nat, ReadsBack(tokens, k, a, s),
         NEW q \in DOMAIN tokens, tokens[q].parent = Prompt(k)
  PROVE  LET m == results[k].promptLength
         IN  /\ q \in Nat
             /\ tokens[q].group = Prompt(k) =>
                  q \in (a + 1)..(a + m) /\ Visible(tokens, q) = (a + 1)..q
             /\ tokens[q].group = OwnGroup(k) =>
                  q \in (s + 1)..(s + OwnLength(k)) /\ Visible(tokens, q) = Runs(a, m, s, q)
<1> DEFINE m == results[k].promptLength
           n == OwnLength(k)
<1>0. PICK g, p : g = OwnGroup(k) /\ p = Prompt(k)
  OBVIOUS
<1>1. /\ DOMAIN tokens = 1..Len(tokens) /\ Len(tokens) \in Nat /\ q \in 1..Len(tokens)
      /\ m \in Nat /\ n \in Nat /\ a + m <= s /\ tokens[q].parent = p
  BY <1>0, ResultFacts DEF ReadsBack
<1>2. /\ \A i \in 1..Len(tokens) : tokens[i].group = p <=> i \in (a + 1)..(a + m)
      /\ \A i \in 1..Len(tokens) : tokens[i].group = g <=> i \in (s + 1)..(s + n)
  BY <1>0, <1>1 DEF ReadsBack, Block
<1> HIDE DEF m, n
<1>3. ASSUME tokens[q].group = p
      PROVE  q \in (a + 1)..(a + m) /\ Visible(tokens, q) = (a + 1)..q
  <2>1. Visible(tokens, q) = {i \in 1..q : tokens[i].group = p}
    BY <1>1, <1>3 DEF Visible
  <2>2. q \in (a + 1)..(a + m)
    BY <1>1, <1>2, <1>3
  <2>3. \A i \in 1..q : tokens[i].group = p <=> i \in (a + 1)..(a + m)
    BY <1>1, <1>2
  <2>4. {i \in 1..q : tokens[i].group = p} = (a + 1)..q
    BY <1>1, <2>2, <2>3
  <2> QED BY <2>1, <2>2, <2>4
<1>4. ASSUME tokens[q].group = g
      PROVE  q \in (s + 1)..(s + n) /\ Visible(tokens, q) = Runs(a, m, s, q)
  <2>1. Visible(tokens, q) = {i \in 1..q : tokens[i].group = g \/ tokens[i].group = p}
    BY <1>1, <1>4 DEF Visible
  <2>2. q \in (s + 1)..(s + n)
    BY <1>1, <1>2, <1>4
  <2>3. \A i \in 1..q : tokens[i].group = g \/ tokens[i].group = p
          <=> i \in (s + 1)..(s + n) \/ i \in (a + 1)..(a + m)
    BY <1>1, <1>2
  <2>4. {i \in 1..q : tokens[i].group = g \/ tokens[i].group = p}
          = ((a + 1)..(a + m)) \cup ((s + 1)..q)
    BY <1>1, <2>2, <2>3
  <2> QED BY <2>1, <2>2, <2>4 DEF Runs
<1> QED BY <1>0, <1>1, <1>3, <1>4 DEF m, n

\* What a token sees is its trajectory up to itself, in order.
LEMMA SeesOwn ==
  ASSUME PackingInv, phase = "packed", NEW x \in DOMAIN rows, NEW q \in DOMAIN rows[x]
  PROVE  \E r \in IF rows[x][q].group[2] = 0 THEN DOMAIN results ELSE {rows[x][q].group[2]} :
           /\ rows[x][q].parent[1] = results[r].prompt
           /\ rows[x][q].group[2] = 0 =>
                Cardinality(Visible(rows[x], q)) <= results[r].promptLength
           /\ \A j \in Visible(rows[x], q) :
                results[r].tokens[Cardinality({i \in Visible(rows[x], q) : i <= j})]
                  = rows[x][j].token
<1> DEFINE tokens == rows[x]
           seen == Visible(tokens, q)
<1>1. /\ tokens \in Seq(PackedToken) /\ RowShape(tokens, Len(results))
      /\ Laid(rows, Len(results)) /\ ResultsInv /\ Len(results) \in Nat
  <2>1. results \in Seq(Result)
    BY DEF PackingInv, ResultsInv
  <2> QED BY <2>1 DEF PackingInv, LaidInv, Laid, RowShape
<1>2. PICK k \in 1..Len(results) :
        /\ k \in DOMAIN results /\ HoldsOwn(tokens, k) /\ tokens[q].parent = Prompt(k)
        /\ \/ tokens[q].group = Prompt(k) /\ tokens[q].group[2] = 0
           \/ tokens[q].group = OwnGroup(k) /\ tokens[q].group[2] = k
  <2>1. q \in DOMAIN tokens /\ Len(results) \in 0..Len(results)
    BY <1>1
  <2> HIDE DEF tokens
  <2> QED BY ONLY <1>1, <2>1, GroupsOfRow
<1>3. PICK a \in Nat, s \in Nat : ReadsBack(tokens, k, a, s)
  BY <1>1, <1>2, LaidReadable DEF CanReadBack
<1> DEFINE m == results[k].promptLength
           n == OwnLength(k)
<1>4. /\ m \in Nat /\ n \in Nat /\ a + m <= s /\ k > 0
      /\ Block(tokens, Prompt(k), a, m) /\ Block(tokens, OwnGroup(k), s, n)
      /\ \A i \in 1..m : tokens[a + i].token = results[k].tokens[i]
      /\ \A i \in 1..n : tokens[s + i].token = results[k].tokens[m + i]
  BY <1>1, <1>2, <1>3, ResultFacts DEF ReadsBack
<1>5. tokens[q].parent[1] = results[k].prompt
  BY <1>2 DEF Prompt
<1> HIDE DEF tokens, m, n
<1>11. m \in Nat /\ n \in Nat /\ a \in Nat /\ s \in Nat /\ a + m <= s /\ q \in DOMAIN tokens
  BY <1>4 DEF tokens
<1>6. /\ q \in Nat
      /\ tokens[q].group = Prompt(k) => q \in (a + 1)..(a + m) /\ seen = (a + 1)..q
      /\ tokens[q].group = OwnGroup(k) => q \in (s + 1)..(s + n) /\ seen = Runs(a, m, s, q)
  BY <1>1, <1>2, <1>3, <1>11, SeesItsRuns DEF m, n
<1> HIDE DEF seen
<1>7. ASSUME tokens[q].group = Prompt(k)
      PROVE  /\ Cardinality(seen) <= m
             /\ \A j \in seen :
                  results[k].tokens[Cardinality({i \in seen : i <= j})] = tokens[j].token
  <2>1. seen = (a + 1)..q /\ q \in (a + 1)..(a + m)
    BY <1>6, <1>7
  <2>2. Cardinality(seen) = q - a
    BY <1>6, <2>1, RunOf
  <2>3. ASSUME NEW j \in seen
        PROVE  results[k].tokens[Cardinality({i \in seen : i <= j})] = tokens[j].token
    <3>1. j \in Nat /\ a <= j /\ j - a \in 1..m /\ a + (j - a) = j
      BY <1>4, <2>1, <1>6
    <3>2. {i \in seen : i <= j} = (a + 1)..j
      BY <2>1, <1>6, <3>1
    <3>3. Cardinality({i \in seen : i <= j}) = j - a
      BY <3>1, <3>2, RunOf
    <3> QED BY <1>4, <3>1, <3>3
  <2> QED BY <1>4, <1>6, <2>1, <2>2, <2>3
<1>8. ASSUME tokens[q].group = OwnGroup(k), NEW j \in seen
      PROVE  results[k].tokens[Cardinality({i \in seen : i <= j})] = tokens[j].token
  <2>1. seen = ((a + 1)..(a + m)) \cup ((s + 1)..q) /\ q \in (s + 1)..(s + n)
    BY <1>6, <1>8 DEF Runs
  <2>2. CASE j \in (a + 1)..(a + m)
    <3>1. j \in Nat /\ a <= j /\ j - a \in 1..m /\ a + (j - a) = j
      BY <1>4, <2>2
    <3>2. {i \in seen : i <= j} = (a + 1)..j
      BY <1>4, <1>6, <2>1, <2>2, <3>1
    <3>3. Cardinality({i \in seen : i <= j}) = j - a
      BY <3>1, <3>2, RunOf
    <3> QED BY <1>4, <3>1, <3>3
  <2>3. CASE j \in (s + 1)..q
    <3>1. j \in Nat /\ s <= j /\ j - s \in 1..n /\ s + (j - s) = j
      BY <1>4, <1>6, <2>1, <2>3
    <3>2. {i \in seen : i <= j} = Runs(a, m, s, j)
      BY <1>4, <1>6, <2>1, <2>3, <3>1 DEF Runs
    <3>3. Cardinality({i \in seen : i <= j}) = m + (j - s)
      <4>1. PICK c \in Nat : c = m
        BY ONLY <1>11
      <4>2. a + c <= s /\ s <= j /\ j \in Nat
        BY ONLY <1>11, <3>1, <4>1
      <4>3. Cardinality(Runs(a, c, s, j)) = c + (j - s)
        BY ONLY <4>2, TwoRuns
      <4> QED BY ONLY <3>2, <4>1, <4>3
    <3> QED BY <1>4, <3>1, <3>3
  <2> QED BY <2>1, <2>2, <2>3, <1>8
<1>9. CASE tokens[q].group = Prompt(k) /\ tokens[q].group[2] = 0
  BY <1>2, <1>5, <1>7, <1>9 DEF seen, tokens, m
<1>10. CASE tokens[q].group = OwnGroup(k) /\ tokens[q].group[2] = k
  <2>1. k # 0
    BY <1>4
  <2> QED BY <1>5, <1>8, <1>10, <2>1 DEF seen, tokens, m
<1> QED BY <1>2, <1>9, <1>10

\* TokensSeeOwnTrajectory, for rows of any length: calculate_mask lets a token
\* attend to its own trajectory up to itself, and to nothing else in its row.
THEOREM OnlyOwnIsSeen == LocalSpec => []TokensSeeOwnTrajectory
<1>1. PackingInv => TokensSeeOwnTrajectory
  BY SeesOwn DEF TokensSeeOwnTrajectory
<1> QED BY <1>1, PackingAlways, PTL

-----------------------------------------------------------------------------
(* The plan and the layers: what GdnLayersProofs proves of their steps, among *)
(* those of the services, of the packing and of the job.                     *)

GdnInv == FamiliesInv /\ PlanInv /\ LayersInv

\* The phases outside the passes are those in which there is no plan.
LEMMA GdnStays ==
  ASSUME GdnInv, UNCHANGED <<segs, planVars, layerVars>>,
         \/ phase' = phase
         \/ phase \notin PlannedPhases /\ phase' \notin PlannedPhases
  PROVE  GdnInv'
<1>1. FamiliesInv'
  BY DEF GdnInv, FamiliesInv, LastFamily, Families
<1>2. PlanInv'
  BY PlanStays DEF GdnInv
<1>3. LayersInv'
  BY LayersStay DEF GdnInv, PlannedPhases
<1> QED BY <1>1, <1>2, <1>3 DEF GdnInv

\* The plan, the segments and the layers of a pass that is over.
LEMMA GdnForgotten ==
  ASSUME ForgetPlan, ForgetLayers, phase' \notin PlannedPhases
  PROVE  GdnInv'
<1>1. segs' = <<>> /\ segs' \in Seq(Segment) /\ DOMAIN segs' = {}
  BY DEF ForgetPlan
<1>2. FamiliesInv'
  BY <1>1 DEF FamiliesInv, LastFamily
<1>3. PlanFresh'
  BY DEF ForgetPlan, PlanFresh
<1>4. PlanInv'
  BY <1>1, <1>3, PlanForgotten
<1>5. LayersInv'
  BY DEF ForgetLayers, LayersInv, PlannedPhases
<1> QED BY <1>2, <1>4, <1>5 DEF GdnInv

LEMMA RanksKeepGdn ==
  ASSUME GdnInv, ParseInv', RanksStep, UNCHANGED layerVars
  PROVE  GdnInv'
<1>1. phase # "layers" /\ phase' # "layers"
  <2>1. CASE Parse
    BY <2>1 DEF Parse, ReadPrefix, ReadCompletion, RowRejected, RowRead, AtToken
  <2>2. CASE Plan
    BY <2>2 DEF Plan, BeginFamilies, AssignFamily, MoveBundle, BundlesSettled, BeginSegments,
      PlaceChained, PlaceLocal, Place, Placing, FamiliesAssigned, SharedByFamilies,
      AllRowsRead
  <2>3. CASE Forward
    BY <2>3 DEF Forward, Begin, ScatterTokens, RunChainPrefixes, RunChainCompletions,
      ExchangeStates, GatherOutputs, RunPrefixes, SkipChainCompletions, RunReady,
      SkipExchange, RunRemote
  <2> QED BY <2>1, <2>2, <2>3 DEF RanksStep
<1>2. FamiliesInv'
  <2>1. CASE Parse
    <3>1. phase' \in {"parse", "rejected"}
      BY <2>1 DEF Parse, ReadPrefix, ReadCompletion, RowRejected, RowRead, AtToken
    <3> QED BY <2>1, <3>1, ParseKeepsFamilies DEF GdnInv
  <2>2. CASE Plan \/ Forward
    <3>1. UNCHANGED parseVars
      BY <2>2 DEF Plan, BeginFamilies, AssignFamily, MoveBundle, BundlesSettled, BeginSegments,
        PlaceChained, PlaceLocal, Place, Forward, Begin, ScatterTokens, RunChainPrefixes,
        RunChainCompletions, ExchangeStates, GatherOutputs, RunPrefixes,
        SkipChainCompletions, RunReady, SkipExchange, RunRemote
    <3> QED BY <3>1 DEF GdnInv, FamiliesInv, LastFamily, Families, parseVars
  <2> QED BY <2>1, <2>2 DEF RanksStep
<1>3. PlanInv'
  BY <1>2, RanksKeepPlan DEF GdnInv
<1>4. LayersInv'
  BY <1>1, LayersStay DEF GdnInv
<1> QED BY <1>2, <1>3, <1>4 DEF GdnInv

LEMMA LayersKeepGdn ==
  ASSUME GdnInv, LayersStep
  PROVE  GdnInv'
<1>1. /\ UNCHANGED <<segs, planVars>>
      /\ phase' = phase \/ (phase = "forward" /\ phase' = "layers")
  BY DEF LayersStep, BeginLayers, LayerForward, LayerBackward, parseVars
<1>2. FamiliesInv'
  BY <1>1 DEF GdnInv, FamiliesInv, LastFamily, Families
<1>3. PlanInv'
  BY <1>1, PlanStays DEF GdnInv
<1>4. LayersInv'
  BY LayersKeep DEF GdnInv
<1> QED BY <1>2, <1>3, <1>4 DEF GdnInv

LEMMA ReplicaKeepsGdn ==
  ASSUME GdnInv, PackingInv', ReplicaStep
  PROVE  GdnInv'
<1>1. CASE BeginStep \/ RouterCalled \/ MicroOver \/ OptimizerStep
  <2>1. /\ phase \in {"packed", "step", "routers"} /\ UNCHANGED <<parseVars, planVars, layerVars>>
        /\ phase' \in {"packed", "step", "routers", "raised"}
    BY <1>1 DEF BeginStep, RouterCalled, MicroOver, OptimizerStep
  <2> QED BY <2>1, GdnStays DEF PlannedPhases, parseVars
<1>2. CASE BeginMicro
  <2>1. phase = "step" /\ phase' = "parse" /\ UNCHANGED <<segs, planVars, layerVars>>
    BY <1>2 DEF BeginMicro, SelectRow, stepVars
  <2> QED BY <2>1, GdnStays DEF PlannedPhases
<1>3. CASE PassComputed
  <2>1. phase' = "routers" /\ ForgetPlan /\ ForgetLayers
    BY <1>3 DEF PassComputed
  <2> QED BY <2>1, GdnForgotten DEF PlannedPhases
<1>4. CASE RanksStep /\ UNCHANGED stepVars
  <2>1. UNCHANGED layerVars
    BY <1>4 DEF stepVars
  <2> QED BY <1>4, <2>1, RanksKeepGdn DEF PackingInv
<1> QED BY <1>1, <1>2, <1>3, <1>4, LayersKeepGdn DEF ReplicaStep

LEMMA GdnAlways == LocalSpec => []GdnInv
<1>1. LocalInit => GdnInv
  <2> SUFFICES ASSUME LocalInit PROVE GdnInv
    OBVIOUS
  <2>1. PlanInit /\ LayersInit /\ PackInit
    BY DEF LocalInit, Init, StepsInit, PassInit, PlanInit
  <2>2. segs = <<>> /\ phase = "tokenize" /\ segs \in Seq(Segment)
    BY <2>1 DEF PackInit
  <2>3. FamiliesInv
    BY <2>2, NoFamilies
  <2>4. PlanInv
    <3>1. /\ next = 1 /\ gdn = <<>> /\ position = <<>> /\ owner = <<>> /\ bundles = <<>>
          /\ loads = [r \in Ranks |-> 0]
      BY <2>1 DEF PlanInit
    <3>2. PlanFresh
      BY <3>1 DEF PlanFresh
    <3>3. Len(segs) = 0 /\ Len(owner) = 0 /\ DOMAIN owner = {} /\ DOMAIN gdn = {}
          /\ owner \in Seq(0..CpSize) /\ bundles \in Seq([prefix : Ranks, completions : Ranks])
      BY <2>2, <3>1
    <3>4. PlacedInv
      <4>1. loads \in [Ranks -> Nat] /\ DOMAIN gdn = DOMAIN position /\ next \in 1..(Len(segs) + 1)
            /\ 1..(next - 1) = {}
        BY <3>1, <3>3
      <4> QED BY <3>3, <4>1 DEF PlacedInv
    <3>5. OwnersInv
      BY <2>2, <3>1, <3>3 DEF OwnersInv, PlannedPhases
    <3> QED BY <2>2, <3>2, <3>4, <3>5 DEF PlanInv, PlannedPhases
  <2>5. LayersInv
    BY <2>1, <2>2 DEF LayersInit, LayersInv
  <2> QED BY <2>3, <2>4, <2>5 DEF GdnInv
<1>2. GdnInv /\ PackingInv' /\ [LocalNext]_localVars => GdnInv'
  <2> SUFFICES ASSUME GdnInv, PackingInv', [LocalNext]_localVars PROVE GdnInv'
    OBVIOUS
  <2>1. CASE UNCHANGED <<passVars, stepVars>>
    <3>1. UNCHANGED <<phase, segs, planVars, layerVars>>
      BY <2>1 DEF passVars, parseVars, stepVars
    <3> QED BY <3>1, GdnStays
  <2>2. CASE ForgetRows
    <3>1. phase' = "over" /\ ForgetPlan /\ ForgetLayers
      BY <2>2 DEF ForgetRows
    <3> QED BY <3>1, GdnForgotten DEF PlannedPhases
  <2>3. CASE PackStep /\ UNCHANGED stepVars
    <3>1. /\ phase \in {"tokenize", "pack"} /\ phase' \in {"tokenize", "pack", "nothing", "packed"}
          /\ UNCHANGED <<segs, planVars, layerVars>>
      BY <2>3 DEF PackStep, Pack, TokenizeGroup, DropTooLong, PackResult, RowsShuffled,
         parseVars, stepVars
    <3> QED BY <3>1, GdnStays DEF PlannedPhases
  <2>4. UNCHANGED localVars => UNCHANGED <<passVars, stepVars>>
    BY DEF localVars, vars
  <2> QED BY <2>1, <2>2, <2>3, <2>4, StepOfRows, ReplicaKeepsGdn
<1> QED BY <1>1, <1>2, PackingAlways, LocalSteps, PTL

\* LayersGetTheirRows, for every row, number of ranks, owner that the planner
\* finds and stack of layers: the plan gives each token of the row one row on one
\* rank, so the exchange and its inverse lead from either layout to the other.
THEOREM LayersAreGiven == LocalSpec => []LayersGetTheirRows
<1>1. GdnInv => LayersGetTheirRows
  BY LayersGiven DEF GdnInv
<1> QED BY <1>1, GdnAlways, PTL

-----------------------------------------------------------------------------
(* The pass over the ranks, in the steps of the backend.                     *)

\* The pass, in the phases in which there is one.
LEMMA PassStays ==
  ASSUME GdnInv, PassInv, UNCHANGED <<segs, planVars>>,
         \/ phase' = phase /\ UNCHANGED forwardVars
         \/ phase \notin PlannedPhases /\ phase' \notin PlannedPhases
         \/ phase = "forward" /\ phase' = "layers"
         \/ phase = "layers" /\ phase' = "layers"
         \/ phase = "place" /\ phase' = "forward" /\ ForwardInv'
  PROVE  PassInv'
<1>1. SegmentsInv'
  BY DEF PassInv, SegmentsInv
<1>2. SharedInv'
  <2>1. UNCHANGED <<segs, gdn, owner, chain, transfers, path>>
    BY DEF planVars, placeVars, layoutVars
  <2>2. phase' \in {"place", "forward", "layers"} \/ chain = {}
    BY DEF PassInv, SharedInv, PlannedPhases
  <2> QED BY <2>1, <2>2, SharedStays DEF PassInv
<1>3. ForwardInv'
  <2>1. CASE phase' = phase /\ UNCHANGED forwardVars
    <3>1. stage' = stage /\ tables' = tables /\ out' = out /\ segs' = segs
      BY <2>1 DEF forwardVars
    <3>2. SUFFICES ASSUME phase = "forward" PROVE ForwardInv'
      BY <2>1 DEF ForwardInv
    <3>3. stage \in [Ranks -> Stages] /\ TablesInv /\ OutInv
      BY <3>2 DEF PassInv, ForwardInv, Stages
    <3>4. TablesInv'
      BY <3>1, <3>3, TablesKeep DEF TablesInv
    <3>5. OutInv'
      BY <3>1, <3>3, OutKeeps, PlanFixed DEF OutInv
    <3> QED BY <3>1, <3>3, <3>4, <3>5, StillPassing
  <2>2. CASE phase' # "forward"
    BY <2>2 DEF ForwardInv
  <2> QED BY <2>1, <2>2 DEF PlannedPhases
<1> QED BY <1>1, <1>2, <1>3 DEF PassInv

LEMMA PassForgotten ==
  ASSUME ForgetPlan, phase' \notin PlannedPhases
  PROVE  PassInv'
<1>1. segs' = <<>> /\ DOMAIN segs' = {}
  BY DEF ForgetPlan
<1>2. SegmentsInv'
  BY <1>1 DEF SegmentsInv
<1>3. SharedInv'
  BY SharedFresh DEF ForgetPlan
<1>4. ForwardInv'
  BY DEF ForwardInv, PlannedPhases
<1> QED BY <1>2, <1>3, <1>4 DEF PassInv

LEMMA RanksKeepPass ==
  ASSUME GdnInv, PassInv, ParseInv', RanksStep
  PROVE  PassInv'
<1>1. CASE Parse /\ UNCHANGED planVars
  <2>1. phase = "parse" /\ phase' \in {"parse", "rejected"}
    BY <1>1 DEF Parse, ReadPrefix, ReadCompletion, RowRejected, RowRead, AtToken
  <2>2. SegmentsInv'
    BY <1>1, <2>1, ParseKeepsSegments DEF GdnInv, PassInv
  <2>3. SharedInv'
    <3>1. owner = <<>> /\ chain = {} /\ transfers = {}
      BY <2>1, NothingShared DEF GdnInv, PassInv, PlannedPhases
    <3> QED BY <1>1, <3>1, SharedFresh DEF planVars, placeVars, layoutVars
  <2> QED BY <2>1, <2>2, <2>3 DEF PassInv, ForwardInv
<1>2. CASE Plan
  <2>1. phase' \in {"bundle", "place"} /\ UNCHANGED segs
    BY <1>2 DEF Plan, BeginFamilies, AssignFamily, MoveBundle, BundlesSettled, BeginSegments,
      PlaceChained, PlaceLocal, Place, Placing, FamiliesAssigned, SharedByFamilies,
      AllRowsRead, parseVars
  <2>2. SegmentsInv'
    BY <2>1 DEF PassInv, SegmentsInv
  <2>3. SharedInv'
    BY <1>2, PlanKeepsShared DEF GdnInv, PassInv
  <2> QED BY <2>1, <2>2, <2>3 DEF PassInv, ForwardInv
<1>3. CASE Forward
  <2>1. UNCHANGED <<segs, planVars>>
    BY <1>3 DEF Forward, Begin, ScatterTokens, RunChainPrefixes, RunChainCompletions,
      ExchangeStates, GatherOutputs, RunPrefixes, SkipChainCompletions, RunReady,
      SkipExchange, RunRemote, parseVars
  <2>2. SegmentsInv'
    BY <2>1 DEF PassInv, SegmentsInv
  <2>3. phase \in {"place", "forward"} /\ phase' = "forward"
    BY <1>3 DEF Forward, Begin, ScatterTokens, RunChainPrefixes, RunChainCompletions,
      ExchangeStates, GatherOutputs, RunPrefixes, SkipChainCompletions, RunReady,
      SkipExchange, RunRemote
  <2>4. SharedInv'
    <3>1. UNCHANGED <<segs, gdn, owner, chain, transfers, path>>
      BY <2>1 DEF planVars, placeVars, layoutVars
    <3> QED BY <2>3, <3>1, SharedStays DEF PassInv
  <2>5. ForwardInv'
    <3>1. CASE Begin
      <4>1. PlanFacts
        BY <3>1, PlanGives DEF Begin, GdnInv, PassInv
      <4> QED BY <3>1, <4>1, BeginGives
    <3>2. CASE ~Begin
      <4>1. phase = "forward"
        BY <1>3, <3>2 DEF Forward, ScatterTokens, RunChainPrefixes, RunChainCompletions,
          ExchangeStates, GatherOutputs, RunPrefixes, SkipChainCompletions, RunReady,
          SkipExchange, RunRemote
      <4>2. Passing
        BY <4>1, PlanGives DEF Passing, GdnInv, PassInv
      <4> QED BY <1>3, <4>2, ForwardGoesOn
    <3> QED BY <3>1, <3>2
  <2> QED BY <2>2, <2>4, <2>5 DEF PassInv
<1> QED BY <1>1, <1>2, <1>3 DEF RanksStep

LEMMA ReplicaKeepsPass ==
  ASSUME GdnInv, PassInv, PackingInv', ReplicaStep
  PROVE  PassInv'
<1>1. CASE BeginStep \/ RouterCalled \/ MicroOver \/ OptimizerStep
  <2>1. /\ phase \in {"packed", "step", "routers"} /\ UNCHANGED <<parseVars, planVars>>
        /\ phase' \in {"packed", "step", "routers", "raised"}
    BY <1>1 DEF BeginStep, RouterCalled, MicroOver, OptimizerStep
  <2> QED BY <2>1, PassStays DEF PlannedPhases, parseVars
<1>2. CASE BeginMicro
  <2>1. phase = "step" /\ phase' = "parse" /\ UNCHANGED <<segs, planVars>>
    BY <1>2 DEF BeginMicro, SelectRow
  <2> QED BY <2>1, PassStays DEF PlannedPhases
<1>3. CASE PassComputed
  <2>1. phase' = "routers" /\ ForgetPlan
    BY <1>3 DEF PassComputed
  <2> QED BY <2>1, PassForgotten DEF PlannedPhases
<1>4. CASE RanksStep
  BY <1>4, RanksKeepPass DEF PackingInv
<1>5. CASE LayersStep
  <2>1. /\ UNCHANGED <<segs, planVars>>
        /\ (phase = "layers" \/ phase = "forward") /\ phase' = "layers"
    BY <1>5 DEF LayersStep, BeginLayers, LayerForward, LayerBackward, parseVars
  <2> QED BY <2>1, PassStays
<1> QED BY <1>1, <1>2, <1>3, <1>4, <1>5 DEF ReplicaStep

LEMMA PassAlways == LocalSpec => []PassInv
<1>1. LocalInit => PassInv
  <2> SUFFICES ASSUME LocalInit PROVE PassInv
    OBVIOUS
  <2>1. PlanInit /\ PackInit
    BY DEF LocalInit, Init, StepsInit, PassInit, PlanInit
  <2>2. segs = <<>> /\ DOMAIN segs = {} /\ phase = "tokenize"
    BY <2>1 DEF PackInit
  <2>3. owner = <<>> /\ DOMAIN owner = {} /\ transfers = {} /\ chain = {}
    BY <2>1 DEF PlanInit
  <2>4. Parted = {}
    BY <2>3 DEF Parted
  <2> QED BY <2>2, <2>3, <2>4 DEF PassInv, SegmentsInv, SharedInv, ForwardInv
<1>2. GdnInv /\ PassInv /\ PackingInv' /\ [LocalNext]_localVars => PassInv'
  <2> SUFFICES ASSUME GdnInv, PassInv, PackingInv', [LocalNext]_localVars PROVE PassInv'
    OBVIOUS
  <2>1. CASE UNCHANGED <<passVars, stepVars>>
    <3>1. UNCHANGED <<phase, segs, planVars, forwardVars>>
      BY <2>1 DEF passVars, parseVars
    <3> QED BY <3>1, PassStays
  <2>2. CASE ForgetRows
    <3>1. phase' = "over" /\ ForgetPlan
      BY <2>2 DEF ForgetRows
    <3> QED BY <3>1, PassForgotten DEF PlannedPhases
  <2>3. CASE PackStep /\ UNCHANGED stepVars
    <3>1. /\ phase \in {"tokenize", "pack"} /\ phase' \in {"tokenize", "pack", "nothing", "packed"}
          /\ UNCHANGED <<segs, planVars>>
      BY <2>3 DEF PackStep, Pack, TokenizeGroup, DropTooLong, PackResult, RowsShuffled,
         parseVars
    <3> QED BY <3>1, PassStays DEF PlannedPhases
  <2>4. UNCHANGED localVars => UNCHANGED <<passVars, stepVars>>
    BY DEF localVars, vars
  <2> QED BY <2>1, <2>2, <2>3, <2>4, StepOfRows, ReplicaKeepsPass
<1> QED BY <1>1, <1>2, GdnAlways, PackingAlways, LocalSteps, PTL

\* OutputsRight, for every row, number of ranks and plan that the planner finds:
\* wherever a prompt and its completions are computed, each token's output has
\* seen its prompt and its own completion up to itself, and nothing else.
THEOREM OutputsAreRight == LocalSpec => []OutputsRight
<1>1. GdnInv /\ PassInv => OutputsRight
  <2>1. phase # "forward" => OutputsRight
    BY DEF OutputsRight
  <2>2. ASSUME GdnInv, PassInv, phase = "forward" PROVE Passing
    BY <2>2, PlanGives DEF Passing, GdnInv, PassInv
  <2> QED BY <2>1, <2>2, OutputsGiven
<1> QED BY <1>1, GdnAlways, PassAlways, PTL

=============================================================================
