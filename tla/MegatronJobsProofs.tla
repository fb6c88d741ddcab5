------------------------- MODULE MegatronJobsProofs -------------------------
(* Theorems about MegatronJobs, for every value of its constants: any number *)
(* of ranks, calls, restarts and, where it is not said otherwise, kills.     *)
EXTENDS MegatronJobs, TLAPS

-----------------------------------------------------------------------------
(* Type correctness.  It rests on what the code assumes when it opens a      *)
(* checkpoint: that the directory it found has an adapter.                   *)

\* Where a call has the checkpoint it started from.
BasedPcs == {"open", "write", "stream", "merge", "mkdir", "fill", "lock",
             "wake", "load"}
\* Where a rank has loaded its job.
LoadedPcs == {"run", "save", "push", "offload", "finalize", "remove", "clean",
              "report"}

ClientInv ==
  /\ mode \in Modes /\ pc \in Pcs /\ calls \in 0..MaxCalls
  /\ call \in [id : CallIds \cup {0}, kind : Kinds, base : Nat]
  /\ pc \notin {"new", "idle"} => call.id \in CallIds
  /\ latest \in Nat /\ closing \in BOOLEAN /\ failed \in BOOLEAN
  /\ returned \subseteq CallIds
  /\ restarts \in 0..MaxRestarts /\ kills \in 0..MaxKills

\* The steps on disk are all those up to the last one; only the last one may
\* lack its adapter, while it is filled or after the process was killed there.
StepsInv ==
  /\ LastStep \in Nat /\ (dirs = {} \/ dirs = 0..LastStep)
  /\ DOMAIN ckpt \subseteq dirs /\ \A s \in DOMAIN ckpt : ckpt[s] \subseteq CallIds
  /\ \A s \in dirs \ DOMAIN ckpt :
       s = LastStep /\ (pc = "new" \/ (pc = "fill" /\ s = Target))
  /\ pc # "new" => latest \in DOMAIN ckpt
  /\ pc \in BasedPcs => call.base \in DOMAIN ckpt
  /\ pc = "fill" => Target \in dirs
  /\ pc \in {"lock", "wake", "load"} => Target \in DOMAIN ckpt

ShardsInv ==
  /\ DOMAIN shards \subseteq WorkerRanks
  /\ \A r \in DOMAIN shards : shards[r] \subseteq CallIds
  /\ pc = "fill" /\ MergesIntoTarget => 0 \in DOMAIN shards

FileInv ==
  /\ jobFile \in [id : CallIds \cup {0}, kind : Kinds, base : Nat, whole : BOOLEAN]
  /\ jobFile.id # 0 => jobFile.base \in DOMAIN ckpt
  /\ reported \subseteq CallIds /\ lock \in BOOLEAN /\ tensors \in CallIds \cup {0}
  /\ vllm \in {"down", "awake", "asleep"} /\ served \subseteq CallIds

RankInv ==
  /\ worker \in {"down", "up", "dead"}
  /\ rank \in [WorkerRanks -> [pc : RankPcs, id : CallIds \cup {0}, kind : Kinds, base : Nat]]
  /\ \A r \in WorkerRanks :
       /\ rank[r].pc \notin {"start", "barrier", "look"} => rank[r].id # 0
       /\ rank[r].pc \in LoadedPcs => rank[r].base \in DOMAIN ckpt

JobsInv == ClientInv /\ StepsInv /\ ShardsInv /\ FileInv /\ RankInv

LEMMA InvType == JobsInv => JobsTypeOK
  BY DEF JobsInv, ClientInv, StepsInv, ShardsInv, FileInv, RankInv, JobsTypeOK

LEMMA ZeroIsRank == 0 \in WorkerRanks
  BY JobsAssumption DEF WorkerRanks

LEMMA IdsAreNat == CallIds \subseteq Nat \ {0}
  BY JobsAssumption DEF CallIds

LEMMA PutFacts ==
  ASSUME NEW f, NEW k, NEW v
  PROVE  /\ DOMAIN Put(f, k, v) = DOMAIN f \cup {k}
         /\ Put(f, k, v)[k] = v
         /\ \A x \in DOMAIN f \ {k} : Put(f, k, v)[x] = f[x]
  BY DEF Put

\* The last of the steps up to n is n.
LEMMA LastOf ==
  ASSUME NEW n \in Nat, dirs = 0..n
  PROVE  LastStep = n
<1>1. n \in dirs /\ \A t \in dirs : t <= n
  OBVIOUS
<1>2. dirs # {} /\ \A s \in dirs : s \in Nat
  OBVIOUS
<1>3. \A s \in dirs : (\A t \in dirs : t <= s) => s = n
  BY <1>1, <1>2
<1> QED
  BY <1>1, <1>2, <1>3 DEF LastStep

LEMMA LastOfNext ==
  ASSUME NEW n \in Nat, dirs' = 0..n
  PROVE  LastStep' = n
<1>1. n \in dirs' /\ \A t \in dirs' : t <= n
  OBVIOUS
<1>2. dirs' # {} /\ \A s \in dirs' : s \in Nat
  OBVIOUS
<1>3. \A s \in dirs' : (\A t \in dirs' : t <= s) => s = n
  BY <1>1, <1>2
<1> QED
  BY <1>1, <1>2, <1>3 DEF LastStep

LEMMA JobsInitInv == JobsInit => JobsInv
<1> SUFFICES ASSUME JobsInit PROVE JobsInv
  OBVIOUS
<1> USE JobsAssumption, IdsAreNat DEF JobsInit
<1>1. ClientInv
  <2>1. NoCall \in [id : CallIds \cup {0}, kind : Kinds, base : Nat]
    BY DEF NoCall, Kinds
  <2>2. 0 \in 0..MaxCalls /\ 0 \in 0..MaxRestarts /\ 0 \in 0..MaxKills
    OBVIOUS
  <2> QED
    BY <2>1, <2>2 DEF ClientInv, Pcs
<1>2. StepsInv
  BY DEF StepsInv, LastStep, BasedPcs
<1>3. ShardsInv
  BY DEF ShardsInv
<1>4. FileInv
  BY DEF FileInv, NoJob, Kinds
<1>5. RankInv
  BY DEF RankInv, AllRanksAt, RankAt, RankPcs, Kinds, LoadedPcs
<1> QED
  BY <1>1, <1>2, <1>3, <1>4, <1>5 DEF JobsInv

-----------------------------------------------------------------------------
(* What the worker does. *)

WorkerAction == WorkerStep \/ RanksRun \/ WorkerDies

LEMMA WorkerFrame ==
  ASSUME WorkerAction
  PROVE  UNCHANGED <<mode, clientVars, dirs, ckpt, lock, vllm, historyVars>>
BY DEF WorkerAction, WorkerStep, RankStep, RanksRun, WorkerDies, LoopBarrier,
       RanksPush, FinalizeBarrier, RemoveJobFile, RemoveRows, ReportDone,
       CollectiveTimesOut, RankStarts, RankLooks, RankReady, RankLoads, RankSaves,
       RankOffloads, checkpointVars, fileVars, servingVars

LEMMA WorkerShards ==
  ASSUME JobsInv, WorkerAction
  PROVE  ShardsInv'
<1> USE DEF JobsInv
<1>0. UNCHANGED <<mode, clientVars>>
  BY WorkerFrame
<1>1. ASSUME NEW r \in WorkerRanks, RankSaves(r) PROVE ShardsInv'
  <2>1. rank[r].id \in CallIds /\ ckpt[rank[r].base] \subseteq CallIds
    BY <1>1 DEF RankSaves, RankInv, StepsInv, LoadedPcs
  <2>2. shards' = Put(shards, r, ckpt[rank[r].base] \cup {rank[r].id})
    BY <1>1 DEF RankSaves
  <2>3. /\ DOMAIN shards' = DOMAIN shards \cup {r}
        /\ shards'[r] = ckpt[rank[r].base] \cup {rank[r].id}
        /\ \A q \in DOMAIN shards \ {r} : shards'[q] = shards[q]
    BY <2>2 DEF Put
  <2> QED
    BY <1>0, <2>1, <2>3 DEF ShardsInv, clientVars, MergesIntoTarget, Shared
<1>2. CASE UNCHANGED shards
  BY <1>0, <1>2 DEF ShardsInv, clientVars, MergesIntoTarget, Shared
<1> QED
  BY <1>1, <1>2
     DEF WorkerAction, WorkerStep, RankStep, RanksRun, WorkerDies, LoopBarrier,
         RanksPush, FinalizeBarrier, RemoveJobFile, RemoveRows, ReportDone,
         CollectiveTimesOut, RankStarts, RankLooks, RankReady, RankLoads, RankOffloads,
         checkpointVars

LEMMA WorkerFiles ==
  ASSUME JobsInv, WorkerAction
  PROVE  FileInv'
<1> USE DEF JobsInv
<1>0. UNCHANGED <<ckpt, lock, vllm>>
  BY WorkerFrame
<1>1. CASE RanksPush
  <2>1. rank[0].base \in DOMAIN ckpt /\ rank[0].id \in CallIds
    BY <1>1, ZeroIsRank DEF RanksPush, RanksAt, RankInv, LoadedPcs
  <2>2. served' \subseteq CallIds
    BY <1>1, <2>1 DEF RanksPush, Pushed, StepsInv
  <2> QED
    BY <1>0, <1>1, <2>2 DEF RanksPush, FileInv, fileVars
<1>2. CASE RemoveJobFile
  <2>1. NoJob \in [id : CallIds \cup {0}, kind : Kinds, base : Nat, whole : BOOLEAN]
        /\ NoJob.id = 0
    BY DEF NoJob, Kinds
  <2> QED
    BY <1>0, <1>2, <2>1 DEF RemoveJobFile, FileInv, servingVars
<1>3. CASE RemoveRows
  BY <1>0, <1>3 DEF RemoveRows, FileInv, servingVars
<1>4. CASE ReportDone
  <2>1. rank[0].id \in CallIds
    BY <1>4, ZeroIsRank DEF ReportDone, Rank0At, RankInv
  <2> QED
    BY <1>0, <1>4, <2>1 DEF ReportDone, FileInv, servingVars
<1>5. CASE UNCHANGED <<fileVars, servingVars>>
  BY <1>0, <1>5 DEF FileInv, fileVars, servingVars
<1> QED
  BY <1>1, <1>2, <1>3, <1>4, <1>5
     DEF WorkerAction, WorkerStep, RankStep, RanksRun, WorkerDies, LoopBarrier,
         FinalizeBarrier, CollectiveTimesOut, RankStarts, RankLooks, RankReady, RankLoads,
         RankSaves, RankOffloads

\* One rank's record changes: what RankInv asks of it.
RankOK(x) ==
  /\ x \in [pc : RankPcs, id : CallIds \cup {0}, kind : Kinds, base : Nat]
  /\ x.pc \notin {"start", "barrier", "look"} => x.id # 0
  /\ x.pc \in LoadedPcs => x.base \in DOMAIN ckpt

LEMMA RanksOK == RankInv => \A r \in WorkerRanks : RankOK(rank[r])
  BY DEF RankInv, RankOK

LEMMA AtOK == \A p \in {"start", "barrier", "look"} : RankOK(RankAt(p))
  BY DEF RankAt, RankOK, RankPcs, Kinds, LoadedPcs

LEMMA AllOK ==
  ASSUME rank' \in [WorkerRanks -> [pc : RankPcs, id : CallIds \cup {0}, kind : Kinds, base : Nat]],
         worker' \in {"down", "up", "dead"}, UNCHANGED ckpt,
         \A r \in WorkerRanks : RankOK(rank'[r])
  PROVE  RankInv'
  BY DEF RankInv, RankOK

LEMMA WorkerRanksInv ==
  ASSUME JobsInv, WorkerAction
  PROVE  RankInv'
<1> USE DEF JobsInv
<1>0. UNCHANGED ckpt /\ \A r \in WorkerRanks : RankOK(rank[r])
  BY WorkerFrame, RanksOK
<1>t. worker \in {"down", "up", "dead"}
      /\ rank \in [WorkerRanks -> [pc : RankPcs, id : CallIds \cup {0}, kind : Kinds, base : Nat]]
  BY DEF RankInv
<1>1. CASE WorkerExits
  BY <1>0, <1>1, AllOK, AtOK DEF WorkerExits, AllRanksAt, RankOK
<1>2. CASE LoopBarrier
  BY <1>0, <1>t, <1>2, AllOK, AtOK DEF LoopBarrier, AllRanksAt, RankOK
<1>3. ASSUME NEW r \in WorkerRanks, RankStep(r) PROVE RankInv'
  <2>1. CASE RankLooks(r)
    <3>1. CASE jobFile.id = 0
      BY <1>0, <1>t, <2>1, <3>1, AllOK DEF RankLooks, MoveRank, RankOK, RankPcs, LoadedPcs
    <3>2. CASE jobFile.id # 0
      BY <1>0, <1>t, <2>1, <3>2, AllOK
         DEF RankLooks, RankOK, RankPcs, LoadedPcs, FileInv
    <3> QED BY <3>1, <3>2
  <2>2. CASE RankReady(r)
    BY <1>0, <1>t, <2>2, AllOK DEF RankReady, MoveRank, RankOK, RankPcs, LoadedPcs
  <2>3. CASE RankLoads(r)
    <3>1. CASE jobFile.id = rank[r].id /\ jobFile.whole
      <4>1. rank[r].id # 0
        BY <2>3 DEF RankLoads, RankInv
      <4> QED
        BY <1>0, <1>t, <2>3, <3>1, <4>1, AllOK
           DEF RankLoads, RankOK, RankPcs, LoadedPcs, FileInv
    <3>2. CASE ~(jobFile.id = rank[r].id /\ jobFile.whole)
      BY <1>1, <2>3, <3>2 DEF RankLoads
    <3> QED BY <3>1, <3>2
  <2>4. CASE RankSaves(r)
    BY <1>0, <1>t, <2>4, AllOK DEF RankSaves, MoveRank, RankOK, RankPcs, LoadedPcs
  <2>5. CASE RankOffloads(r)
    BY <1>0, <1>t, <2>5, AllOK DEF RankOffloads, MoveRank, RankOK, RankPcs, LoadedPcs
  <2>6. CASE RankStarts(r)
    BY <1>0, <1>t, <2>6, AllOK DEF RankStarts, MoveRank, RankOK, RankPcs, LoadedPcs
  <2> QED
    BY <1>3, <2>1, <2>2, <2>3, <2>4, <2>5, <2>6 DEF RankStep
<1>4. CASE RanksRun \/ RanksPush
  BY <1>0, <1>t, <1>4, AllOK
     DEF RanksRun, RanksPush, RanksAt, MoveRanks, RankOK, RankPcs, LoadedPcs
<1>5. CASE FinalizeBarrier
  BY <1>0, <1>t, <1>5, AllOK, AtOK
     DEF FinalizeBarrier, RanksAt, RankOK, RankPcs, LoadedPcs
<1>6. CASE RemoveJobFile \/ RemoveRows \/ ReportDone
  <2>1. \E p \in {"remove", "clean", "report"} : Rank0At(p) /\ Rank0Goes(p) /\ UNCHANGED worker
    BY <1>6 DEF RemoveJobFile, RemoveRows, ReportDone
  <2> QED
    BY <1>0, <1>t, <2>1, AllOK, AtOK, ZeroIsRank
       DEF Rank0At, Rank0Goes, After, RankOK, RankPcs, LoadedPcs
<1> QED
  BY <1>1, <1>2, <1>3, <1>4, <1>5, <1>6
     DEF WorkerAction, WorkerStep, WorkerDies, CollectiveTimesOut

LEMMA WorkerInv ==
  ASSUME JobsInv, WorkerAction
  PROVE  JobsInv'
<1>0. UNCHANGED <<mode, clientVars, dirs, ckpt, lock, vllm, historyVars>>
  BY WorkerFrame
<1>1. ClientInv'
  BY <1>0 DEF JobsInv, ClientInv, clientVars, historyVars
<1>2. StepsInv'
  BY <1>0 DEF JobsInv, StepsInv, clientVars, LastStep, Target
<1> QED
  BY <1>1, <1>2, WorkerShards, WorkerFiles, WorkerRanksInv DEF JobsInv

-----------------------------------------------------------------------------
(* What goes wrong. *)

LEMMA NoCallType == NoCall \in [id : CallIds \cup {0}, kind : Kinds, base : Nat]
  BY DEF NoCall, Kinds

LEMMA NoJobType ==
  /\ NoJob \in [id : CallIds \cup {0}, kind : Kinds, base : Nat, whole : BOOLEAN]
  /\ NoJob.id = 0
  BY DEF NoJob, Kinds

LEMMA IdleRanks ==
  ASSUME rank' = AllRanksAt("barrier") \/ rank' = AllRanksAt("start"),
         worker' \in {"down", "up", "dead"}
  PROVE  RankInv'
  BY DEF RankInv, AllRanksAt, RankAt, RankPcs, Kinds, LoadedPcs

LEMMA SameRanks ==
  ASSUME RankInv, UNCHANGED <<worker, rank>>, DOMAIN ckpt \subseteq DOMAIN ckpt'
  PROVE  RankInv'
  BY DEF RankInv

LEMMA RaiseInv ==
  ASSUME JobsInv, Raise, pc # "new", pc = "fill" => Target = call.base
  PROVE  JobsInv'
<1> USE DEF JobsInv
<1>0. /\ pc' = "idle" /\ call' = NoCall
      /\ UNCHANGED <<mode, calls, latest, failed, checkpointVars, tensors,
                     served, historyVars>>
  BY DEF Raise
<1>1. ClientInv'
  <2>1. closing' \in BOOLEAN
    BY DEF Raise, CloseEffects, ClientInv
  <2> QED
    BY <1>0, <2>1, NoCallType DEF ClientInv, historyVars, Pcs
<1>2. StepsInv'
  <2>1. dirs = DOMAIN ckpt
    BY DEF StepsInv, BasedPcs
  <2> QED
    BY <1>0, <2>1 DEF StepsInv, checkpointVars, LastStep, BasedPcs
<1>3. ShardsInv'
  BY <1>0 DEF ShardsInv, checkpointVars
<1>4. FileInv'
  <2>1. jobFile' = NoJob \/ UNCHANGED jobFile
    BY DEF Raise
  <2>2. reported' \subseteq reported
    BY DEF Raise
  <2>3. lock' \in BOOLEAN /\ vllm' \in {"down", "awake", "asleep"}
    BY DEF Raise, CloseEffects, FileInv
  <2> QED
    BY <1>0, <2>1, <2>2, <2>3, NoJobType DEF FileInv, checkpointVars
<1>5. RankInv'
  <2>1. CASE CloseEffects
    BY <2>1, IdleRanks DEF CloseEffects
  <2>2. CASE ~CloseEffects
    <3>1. UNCHANGED <<worker, rank>>
      BY <2>2 DEF Raise
    <3> QED
      BY <1>0, <3>1, SameRanks DEF checkpointVars
  <2> QED
    BY <2>1, <2>2
<1> QED
  BY <1>1, <1>2, <1>3, <1>4, <1>5

Raises == CallRaises \/ CallFails \/ StreamRaises \/ PublishRaises \/ SftRefused

LEMMA RaisesInv ==
  ASSUME JobsInv, Raises
  PROVE  JobsInv'
<1>1. Raise /\ pc # "new" /\ (pc = "fill" => Target = call.base)
  BY DEF Raises, CallRaises, Awaits, CallFails, ChecksChildren, StreamRaises,
         PublishRaises, SftRefused
<1> QED
  BY <1>1, RaiseInv

\* A watcher closes the service.
ServiceCloses == SupervisorCloses \/ VllmExits

LEMMA ClosesInv ==
  ASSUME JobsInv, ServiceCloses
  PROVE  JobsInv'
<1> USE DEF JobsInv
<1>0. /\ CloseEffects /\ failed' = TRUE
      /\ UNCHANGED <<mode, pc, call, calls, latest, checkpointVars, jobFile,
                     reported, tensors, served, historyVars>>
  BY DEF ServiceCloses, SupervisorCloses, VllmExits
<1>1. ClientInv'
  BY <1>0 DEF ClientInv, CloseEffects, historyVars
<1>2. StepsInv'
  BY <1>0 DEF StepsInv, checkpointVars, LastStep, Target
<1>3. ShardsInv'
  BY <1>0 DEF ShardsInv, checkpointVars, MergesIntoTarget, Shared
<1>4. FileInv'
  BY <1>0 DEF FileInv, CloseEffects, checkpointVars
<1>5. RankInv'
  BY <1>0, IdleRanks DEF CloseEffects
<1> QED
  BY <1>1, <1>2, <1>3, <1>4, <1>5

LEMMA FreshInv ==
  ASSUME JobsInv, Restart \/ Kill
  PROVE  JobsInv'
<1> USE DEF JobsInv
<1>0. FreshService
  BY DEF Restart, Kill
<1>1. ClientInv'
  <2>1. restarts' \in 0..MaxRestarts /\ kills' \in 0..MaxKills
    BY JobsAssumption DEF Restart, Kill, ClientInv
  <2> QED
    BY <1>0, <2>1, NoCallType DEF ClientInv, FreshService, Pcs
<1>2. StepsInv'
  BY <1>0 DEF StepsInv, FreshService, checkpointVars, LastStep, BasedPcs
<1>3. ShardsInv'
  BY <1>0 DEF ShardsInv, FreshService, checkpointVars
<1>4. FileInv'
  BY <1>0 DEF FileInv, FreshService, checkpointVars, fileVars
<1>5. RankInv'
  BY <1>0, IdleRanks DEF FreshService
<1> QED
  BY <1>1, <1>2, <1>3, <1>4, <1>5

-----------------------------------------------------------------------------
(* The calls. *)

\* The last step's directory as _ensure_identity_lora leaves it.
LEMMA IdentityFacts ==
  ASSUME JobsInv, dirs' = dirs \cup {LastStep}, ckpt' = WithIdentity(LastStep)
  PROVE  /\ LastStep' = LastStep /\ LastStep \in Nat
         /\ dirs' = 0..LastStep
         /\ DOMAIN ckpt' = DOMAIN ckpt \cup {LastStep}
         /\ \A s \in DOMAIN ckpt' : ckpt'[s] \subseteq CallIds
<1>1. LastStep \in Nat /\ (dirs = {} \/ dirs = 0..LastStep)
  BY DEF JobsInv, StepsInv
<1>2. dirs = {} => LastStep = 0
  BY DEF LastStep
<1>3. dirs' = 0..LastStep
  BY <1>1, <1>2
<1>4. LastStep' = LastStep
  BY <1>1, <1>3, LastOfNext
<1>5. /\ DOMAIN ckpt' = DOMAIN ckpt \cup {LastStep}
      /\ \A s \in DOMAIN ckpt' : ckpt'[s] \subseteq CallIds
  BY DEF WithIdentity, Put, JobsInv, StepsInv
<1> QED
  BY <1>1, <1>3, <1>4, <1>5

LEMMA StartInv ==
  ASSUME JobsInv, StartServer
  PROVE  JobsInv'
<1> USE DEF JobsInv
<1>0. /\ pc = "new" /\ dirs' = dirs \cup {LastStep} /\ ckpt' = WithIdentity(LastStep)
      /\ latest' = LastStep /\ vllm' = "awake" /\ pc' \in {"ensure", "idle"}
      /\ UNCHANGED <<mode, calls, closing, failed, shards, fileVars, workerVars,
                     historyVars>>
  BY DEF StartServer
<1>t. /\ LastStep' = LastStep /\ LastStep \in Nat /\ dirs' = 0..LastStep
      /\ DOMAIN ckpt' = DOMAIN ckpt \cup {LastStep}
      /\ \A s \in DOMAIN ckpt' : ckpt'[s] \subseteq CallIds
  BY <1>0, IdentityFacts
<1>1. ClientInv'
  <2>1. SyncId \in CallIds
    BY JobsAssumption DEF SyncId, CallIds, ClientInv
  <2>2. /\ call' \in [id : CallIds \cup {0}, kind : Kinds, base : Nat]
        /\ pc' # "idle" => call'.id \in CallIds
    BY <2>1, <1>t DEF StartServer, ClientInv, Kinds
  <2> QED
    BY <1>0, <1>t, <2>2 DEF ClientInv, Pcs, historyVars
<1>2. StepsInv'
  <2>1. \A s \in dirs' \ DOMAIN ckpt' : FALSE
    BY <1>0, <1>t DEF StepsInv
  <2> QED
    BY <1>0, <1>t, <2>1 DEF StepsInv, BasedPcs
<1>3. ShardsInv'
  BY <1>0 DEF ShardsInv
<1>4. FileInv'
  <2>1. served' \subseteq CallIds
    BY <1>0, <1>t DEF StartServer
  <2> QED
    BY <1>0, <1>t, <2>1 DEF FileInv, fileVars
<1>5. RankInv'
  BY <1>0, <1>t, SameRanks DEF workerVars
<1> QED
  BY <1>1, <1>2, <1>3, <1>4, <1>5

LEMMA BeginInv ==
  ASSUME JobsInv, NEW k \in {"rl", "sft"}, BeginCall(k)
  PROVE  JobsInv'
<1> USE DEF JobsInv, BeginCall
<1>1. ClientInv'
  <2>1. calls + 1 \in CallIds /\ calls + 1 \in 0..MaxCalls
    BY JobsAssumption DEF CallIds, ClientInv
  <2>2. call' \in [id : CallIds \cup {0}, kind : Kinds, base : Nat] /\ call'.id \in CallIds
    BY <2>1 DEF Kinds
  <2> QED
    BY <2>1, <2>2 DEF ClientInv, historyVars, Pcs
<1>2. StepsInv'
  BY DEF StepsInv, BasedPcs, LastStep, checkpointVars
<1>3. ShardsInv'
  BY DEF ShardsInv, checkpointVars
<1>4. FileInv'
  BY DEF FileInv, checkpointVars, fileVars, servingVars
<1>5. RankInv'
  BY SameRanks DEF workerVars, checkpointVars
<1> QED
  BY <1>1, <1>2, <1>3, <1>4, <1>5

\* Steps of a call that leave the checkpoints, the files and the worker alone,
\* but for the rows and the wake lock.
LEMMA QuietInv ==
  ASSUME JobsInv, pc \notin {"new", "fill"},
         pc' \in {"ensure", "spawn", "sleep", "prepare", "transfer", "stream",
                  "wake", "load", "mkdir"},
         pc' \in BasedPcs => pc \in BasedPcs,
         pc' \in {"wake", "load"} => pc \in {"lock", "wake"},
         tensors' \in CallIds \cup {0}, lock' \in BOOLEAN,
         vllm' \in {"down", "awake", "asleep"},
         jobFile' \in [id : CallIds \cup {0}, kind : Kinds, base : Nat, whole : BOOLEAN],
         jobFile'.id # 0 => jobFile'.base \in DOMAIN ckpt,
         call.id \in CallIds,
         UNCHANGED <<mode, call, calls, latest, closing, failed, checkpointVars,
                     reported, workerVars, served, historyVars>>
  PROVE  JobsInv'
<1> USE DEF JobsInv
<1>1. ClientInv'
  BY DEF ClientInv, historyVars, Pcs
<1>2. StepsInv'
  BY DEF StepsInv, BasedPcs, LastStep, checkpointVars, Target
<1>3. ShardsInv'
  BY DEF ShardsInv, checkpointVars
<1>4. FileInv'
  BY DEF FileInv, checkpointVars
<1>5. RankInv'
  BY SameRanks DEF workerVars, checkpointVars
<1> QED
  BY <1>1, <1>2, <1>3, <1>4, <1>5

Quiet == RowsPacked \/ WorkerRuns \/ Slept \/ WriteJobFile \/ TakeWakeLock \/ Awoken

LEMMA QuietStepsInv ==
  ASSUME JobsInv, Quiet
  PROVE  JobsInv'
<1>0. /\ tensors \in CallIds \cup {0} /\ lock \in BOOLEAN
      /\ vllm \in {"down", "awake", "asleep"}
      /\ jobFile \in [id : CallIds \cup {0}, kind : Kinds, base : Nat, whole : BOOLEAN]
      /\ (jobFile.id # 0 => jobFile.base \in DOMAIN ckpt)
      /\ (pc \notin {"new", "idle"} => call.id \in CallIds)
  BY DEF JobsInv, ClientInv, FileInv
<1>1. CASE RowsPacked
  BY <1>0, <1>1, QuietInv DEF RowsPacked, BasedPcs, servingVars
<1>2. CASE WorkerRuns
  BY <1>0, <1>2, QuietInv DEF WorkerRuns, AfterEnsure, BasedPcs, servingVars, fileVars
<1>3. CASE Slept
  BY <1>0, <1>3, QuietInv DEF Slept, BasedPcs, fileVars
<1>4. CASE WriteJobFile
  <2>1. /\ jobFile' \in [id : CallIds \cup {0}, kind : Kinds, base : Nat, whole : BOOLEAN]
        /\ jobFile'.id = jobFile.id /\ jobFile'.base = jobFile.base
    BY <1>0, <1>4 DEF WriteJobFile
  <2> QED
    BY <1>0, <1>4, <2>1, QuietInv DEF WriteJobFile, BasedPcs, servingVars
<1>5. CASE TakeWakeLock
  BY <1>0, <1>5, QuietInv DEF TakeWakeLock, BasedPcs, servingVars
<1>6. CASE Awoken
  BY <1>0, <1>6, QuietInv DEF Awoken, BasedPcs
<1> QED
  BY <1>1, <1>2, <1>3, <1>4, <1>5, <1>6 DEF Quiet

LEMMA NothingInv ==
  ASSUME JobsInv, NothingToTrain
  PROVE  JobsInv'
<1> USE DEF JobsInv, NothingToTrain
<1>1. LastStep \in Nat /\ LastStep \in DOMAIN ckpt
  <2>1. dirs # {} /\ LastStep \in Nat /\ dirs = 0..LastStep /\ dirs = DOMAIN ckpt
    BY DEF StepsInv
  <2> QED
    BY <2>1
<1>2. ClientInv'
  <2>1. call' \in [id : CallIds \cup {0}, kind : Kinds, base : Nat] /\ call'.id = call.id
    BY <1>1 DEF ClientInv, Kinds
  <2> QED
    BY <2>1 DEF ClientInv, historyVars, Pcs
<1>3. StepsInv'
  <2>1. call'.base = LastStep
    BY DEF ClientInv
  <2> QED
    BY <1>1, <2>1 DEF StepsInv, BasedPcs, LastStep, checkpointVars
<1>4. ShardsInv'
  BY DEF ShardsInv, checkpointVars
<1>5. FileInv'
  BY DEF FileInv, checkpointVars, fileVars, servingVars
<1>6. RankInv'
  BY SameRanks DEF workerVars, checkpointVars
<1> QED
  BY <1>2, <1>3, <1>4, <1>5, <1>6

LEMMA SpawnInv ==
  ASSUME JobsInv, WorkerSpawned
  PROVE  JobsInv'
<1> USE DEF JobsInv, WorkerSpawned
<1>1. ClientInv'
  BY DEF ClientInv, historyVars, Pcs, AfterEnsure
<1>2. StepsInv'
  BY DEF StepsInv, BasedPcs, LastStep, checkpointVars, AfterEnsure
<1>3. ShardsInv'
  BY DEF ShardsInv, checkpointVars, AfterEnsure
<1>4. FileInv'
  BY DEF FileInv, checkpointVars, fileVars, servingVars
<1>5. RankInv'
  BY IdleRanks
<1> QED
  BY <1>1, <1>2, <1>3, <1>4, <1>5

LEMMA PrepareInv ==
  ASSUME JobsInv, Prepare
  PROVE  JobsInv'
<1> USE DEF JobsInv, Prepare
<1>t. /\ LastStep' = LastStep /\ LastStep \in Nat /\ dirs' = 0..LastStep
      /\ DOMAIN ckpt' = DOMAIN ckpt \cup {LastStep}
      /\ \A s \in DOMAIN ckpt' : ckpt'[s] \subseteq CallIds
  BY IdentityFacts
<1>b. call'.base = LastStep /\ call'.id = call.id /\ call'.kind = call.kind
  BY DEF ClientInv
<1>1. ClientInv'
  <2>1. call' \in [id : CallIds \cup {0}, kind : Kinds, base : Nat]
    BY <1>t DEF ClientInv
  <2> QED
    BY <1>t, <1>b, <2>1 DEF ClientInv, historyVars, Pcs
<1>2. StepsInv'
  <2>1. \A s \in dirs' \ DOMAIN ckpt' : FALSE
    BY <1>t DEF StepsInv
  <2>2. latest' \in DOMAIN ckpt'
    BY <1>t DEF StepsInv
  <2> QED
    BY <1>t, <1>b, <2>1, <2>2 DEF StepsInv, BasedPcs
<1>3. ShardsInv'
  BY DEF ShardsInv
<1>4. FileInv'
  BY NoJobType DEF FileInv, servingVars
<1>5. RankInv'
  BY <1>t, SameRanks DEF workerVars
<1> QED
  BY <1>1, <1>2, <1>3, <1>4, <1>5

LEMMA OpenInv ==
  ASSUME JobsInv, OpenJobFile
  PROVE  JobsInv'
<1> USE DEF JobsInv, OpenJobFile
<1>0. call \in [id : CallIds \cup {0}, kind : Kinds, base : Nat]
      /\ call.id \in CallIds /\ call.base \in DOMAIN ckpt
  BY DEF ClientInv, StepsInv, BasedPcs
<1>1. ClientInv'
  BY DEF ClientInv, historyVars, Pcs
<1>2. StepsInv'
  BY <1>0 DEF StepsInv, BasedPcs, LastStep, checkpointVars
<1>3. ShardsInv'
  BY DEF ShardsInv, checkpointVars
<1>4. FileInv'
  <2>1. /\ jobFile' \in [id : CallIds \cup {0}, kind : Kinds, base : Nat, whole : BOOLEAN]
        /\ jobFile'.base = call.base
    BY <1>0
  <2> QED
    BY <1>0, <2>1 DEF FileInv, checkpointVars, servingVars
<1>5. RankInv'
  BY SameRanks DEF workerVars, checkpointVars
<1> QED
  BY <1>1, <1>2, <1>3, <1>4, <1>5

LEMMA DoneInv ==
  ASSUME JobsInv, StreamSeesDone
  PROVE  JobsInv'
<1> USE DEF JobsInv, StreamSeesDone
<1>1. ClientInv'
  BY NoCallType DEF ClientInv, historyVars, Pcs
<1>2. StepsInv'
  BY DEF StepsInv, BasedPcs, LastStep, checkpointVars
<1>3. ShardsInv'
  BY DEF ShardsInv, checkpointVars
<1>4. FileInv'
  BY NoJobType DEF FileInv, checkpointVars, servingVars
<1>5. RankInv'
  BY SameRanks DEF workerVars, checkpointVars
<1> QED
  BY <1>1, <1>2, <1>3, <1>4, <1>5

LEMMA MergeInv ==
  ASSUME JobsInv, MergeInPlace
  PROVE  JobsInv'
<1> USE DEF JobsInv, MergeInPlace
<1>0. call.base \in DOMAIN ckpt /\ 0 \in DOMAIN shards /\ shards[0] \subseteq CallIds
  BY ZeroIsRank DEF StepsInv, BasedPcs, ShardsThere, ShardsInv
<1>t. DOMAIN ckpt' = DOMAIN ckpt /\ \A s \in DOMAIN ckpt' : ckpt'[s] \subseteq CallIds
  BY <1>0 DEF Put, StepsInv
<1>1. ClientInv'
  BY DEF ClientInv, historyVars, Pcs
<1>2. StepsInv'
  BY <1>0, <1>t DEF StepsInv, BasedPcs, LastStep
<1>3. ShardsInv'
  BY DEF ShardsInv
<1>4. FileInv'
  BY <1>t DEF FileInv, fileVars, servingVars
<1>5. RankInv'
  BY <1>t, SameRanks DEF workerVars
<1> QED
  BY <1>1, <1>2, <1>3, <1>4, <1>5

LEMMA MakeDirInv ==
  ASSUME JobsInv, MakeTargetDir
  PROVE  JobsInv'
<1> USE DEF JobsInv, MakeTargetDir
<1>0. UNCHANGED <<call, latest, ckpt, shards>>
  OBVIOUS
<1>d. dirs = 0..LastStep /\ LastStep \in Nat /\ DOMAIN ckpt = dirs
      /\ latest \in 0..LastStep /\ call.base \in 0..LastStep
  BY DEF StepsInv, BasedPcs
<1>t. Target \in 0..(LastStep + 1) /\ Target' = Target
  BY <1>0, <1>d DEF Target
<1>e. LastStep' \in Nat /\ dirs' = 0..LastStep'
      /\ (Target \notin dirs => Target = LastStep')
  <2>1. CASE Target \in dirs
    BY <1>d, <2>1, LastOfNext
  <2>2. CASE Target \notin dirs
    <3>1. Target = LastStep + 1 /\ dirs' = 0..(LastStep + 1)
      BY <1>d, <1>t, <2>2
    <3> QED
      BY <1>d, <3>1, LastOfNext
  <2> QED BY <2>1, <2>2
<1>1. ClientInv'
  BY DEF ClientInv, historyVars, Pcs
<1>2. StepsInv'
  BY <1>0, <1>d, <1>t, <1>e DEF StepsInv, BasedPcs
<1>3. ShardsInv'
  BY ZeroIsRank DEF ShardsInv, MergesIntoTarget, ShardsThere, Shared
<1>4. FileInv'
  BY DEF FileInv, fileVars, servingVars
<1>5. RankInv'
  BY SameRanks DEF workerVars
<1> QED
  BY <1>1, <1>2, <1>3, <1>4, <1>5

LEMMA FillInv ==
  ASSUME JobsInv, FillTargetDir
  PROVE  JobsInv'
<1> USE DEF JobsInv, FillTargetDir
<1>0. /\ call.base \in DOMAIN ckpt /\ Target \in Nat
      /\ (MergesIntoTarget => 0 \in DOMAIN shards)
  BY DEF StepsInv, BasedPcs, ShardsInv, ClientInv, Target
<1>w. (IF MergesIntoTarget THEN shards[0] ELSE ckpt[call.base]) \subseteq CallIds
  BY <1>0 DEF ShardsInv, StepsInv
<1>t. /\ DOMAIN ckpt' = DOMAIN ckpt \cup {Target}
      /\ \A s \in DOMAIN ckpt' : ckpt'[s] \subseteq CallIds
  BY <1>w DEF Put, StepsInv
<1>d. Target \in dirs /\ dirs \ DOMAIN ckpt \subseteq {Target}
  <2>1. \A s \in dirs \ DOMAIN ckpt : s = Target
    BY DEF StepsInv
  <2>2. Target \in dirs
    BY DEF StepsInv
  <2> QED BY <2>1, <2>2
<1>1. ClientInv'
  BY <1>0, NoCallType DEF Publish, ClientInv, Pcs
<1>2. StepsInv'
  <2>1. dirs' = DOMAIN ckpt'
    BY <1>t, <1>d DEF StepsInv
  <2>2. Target' \in DOMAIN ckpt' \/ pc' = "idle"
    BY <1>t DEF Publish, Target
  <2>3. latest' \in DOMAIN ckpt'
    BY <1>t DEF Publish, StepsInv
  <2>4. pc' \in {"idle", "lock", "load"} /\ (pc' # "idle" => call' = call)
    BY DEF Publish
  <2>5. LastStep' = LastStep
    BY DEF LastStep
  <2> QED
    BY <1>0, <1>t, <2>1, <2>2, <2>3, <2>4, <2>5 DEF StepsInv, BasedPcs
<1>3. ShardsInv'
  BY DEF ShardsInv, Publish
<1>4. FileInv'
  BY <1>t DEF FileInv, fileVars, servingVars
<1>5. RankInv'
  BY <1>t, SameRanks DEF workerVars
<1> QED
  BY <1>1, <1>2, <1>3, <1>4, <1>5

LEMMA LoadedInv ==
  ASSUME JobsInv, AdapterLoaded
  PROVE  JobsInv'
<1> USE DEF JobsInv, AdapterLoaded
<1>0. Target \in DOMAIN ckpt /\ Target \in Nat /\ ckpt[Target] \subseteq CallIds
  BY DEF StepsInv, ClientInv, Target
<1>1. ClientInv'
  BY <1>0, NoCallType DEF Publish, ClientInv, Pcs
<1>2. StepsInv'
  BY <1>0 DEF Publish, StepsInv, BasedPcs, LastStep, checkpointVars
<1>3. ShardsInv'
  BY DEF Publish, ShardsInv, checkpointVars
<1>4. FileInv'
  BY <1>0 DEF FileInv, checkpointVars, fileVars
<1>5. RankInv'
  BY SameRanks DEF workerVars, checkpointVars
<1> QED
  BY <1>1, <1>2, <1>3, <1>4, <1>5

LEMMA JobsNextInv ==
  ASSUME JobsInv, [JobsNext]_jobsVars
  PROVE  JobsInv'
<1>1. CASE UNCHANGED jobsVars
  <2> USE <1>1 DEF JobsInv, jobsVars
  <2>1. ClientInv'
    BY DEF ClientInv, clientVars, historyVars
  <2>2. StepsInv'
    BY DEF StepsInv, clientVars, checkpointVars, LastStep, Target
  <2>3. ShardsInv'
    BY DEF ShardsInv, clientVars, checkpointVars, MergesIntoTarget, Shared
  <2>4. FileInv'
    BY DEF FileInv, checkpointVars, fileVars, servingVars
  <2>5. RankInv'
    BY SameRanks DEF workerVars, checkpointVars
  <2> QED
    BY <2>1, <2>2, <2>3, <2>4, <2>5
<1>2. CASE CallStep
  BY <1>2, QuietStepsInv, SpawnInv, PrepareInv, OpenInv, DoneInv, MergeInv,
     MakeDirInv, FillInv, LoadedInv, RaisesInv
     DEF CallStep, Quiet, Raises
<1>3. CASE StartServer \/ BeginCall("rl") \/ BeginCall("sft") \/ Packs \/ Kill
  BY <1>3, StartInv, BeginInv, QuietStepsInv, NothingInv, FreshInv DEF Packs, Quiet
<1>4. CASE WorkerStep \/ RanksRun \/ Fault
  BY <1>4, WorkerInv, RaisesInv, ClosesInv, FreshInv
     DEF Fault, WorkerAction, Raises, ServiceCloses
<1> QED
  BY <1>1, <1>2, <1>3, <1>4 DEF JobsNext

\* The variables of the service, the worker and the files between them keep
\* their types, and no call starts from a step without an adapter, whatever is
\* closed, killed and started again.
THEOREM JobsTypeCorrect == JobsSpec => []JobsTypeOK
<1>1. JobsInit => JobsInv
  BY JobsInitInv
<1>2. JobsInv /\ [JobsNext]_jobsVars => JobsInv'
  BY JobsNextInv
<1>3. JobsInv => JobsTypeOK
  BY InvType
<1> QED
  BY <1>1, <1>2, <1>3, PTL DEF JobsSpec

-----------------------------------------------------------------------------
(* A call's job, from its rows to what is served.  The invariant follows the *)
(* call through the worker and the checkpoints, in all three modes; it holds *)
(* as long as no service's process is killed.                                *)

\* Where rank 0 ends a job alone.
EndPcs == {"remove", "clean", "report"}

\* The ids of the calls there have been, the service's own syncs among them.
OverId(i) == i <= calls \/ i \in (MaxCalls + 1)..SyncId

\* The one job file is the call's, and gone when the call's log says so; the
\* logs that are left are of calls that are over.
JobFileInv ==
  /\ jobFile.id # 0 =>
       /\ pc \in {"write", "stream"} /\ jobFile.id = call.id
       /\ jobFile.kind = call.kind /\ jobFile.base = call.base
  /\ jobFile.whole => pc = "stream"
  /\ call.id \in reported => pc = "stream" /\ jobFile.id = 0
  /\ \A i \in reported : OverId(i) /\ (pc = "new" => i # SyncId)

\* Where a call of a kind can be, and vLLM meanwhile.
CallInv ==
  /\ pc \in {"new", "idle"} => call = NoCall
  /\ pc \notin {"new", "idle"} =>
       \/ /\ call.kind = "sync" /\ mode = "merged" /\ call.id = SyncId
          /\ pc \in {"ensure", "spawn", "transfer", "open", "write", "stream"}
       \/ /\ call.kind # "sync" /\ call.id = calls /\ pc # "transfer"
  /\ call.kind = "skip" => pc \in {"mkdir", "fill", "load"}
  /\ pc \in {"sleep", "merge", "lock", "wake"} => Shared
  /\ pc = "load" /\ mode = "merged" => call.kind = "skip"
  /\ pc \in {"new", "refuse", "pack", "ensure"} => Open
  /\ closing => vllm = "down"
  /\ Shared /\ vllm = "awake" =>
       /\ pc \notin {"prepare", "open", "write", "stream", "merge", "lock", "wake"}
       /\ pc \in {"mkdir", "fill"} => call.kind = "skip"

Resting(x) == x.pc \in {"start", "barrier", "look"}
Quiescent == \A r \in WorkerRanks : Resting(rank[r])

\* Ranks have the call's job, or one that was left by the failed call of a
\* closed service, which then ends with the service; rank 0 ends a job alone.
RanksFollow ==
  /\ ~Quiescent => \/ pc \in {"write", "stream"} /\ call.id \notin reported
                   \/ pc = "idle" /\ closing
  /\ \A r \in WorkerRanks :
       /\ ~Resting(rank[r]) => OverId(rank[r].id) /\ (pc # "idle" => rank[r].id = call.id)
       /\ rank[r].pc \in LoadedPcs /\ pc # "idle" =>
            pc = "stream" /\ rank[r].kind = call.kind /\ rank[r].base = call.base
       /\ rank[r].pc \in EndPcs =>
            r = 0 /\ \A q \in WorkerRanks \ {0} : rank[q].pc = "barrier"
       /\ rank[r].pc \in {"clean", "report"} => jobFile.id = 0

\* The rows in the directory are the call's until its job file is gone.
RowsInv ==
  /\ TrainsOnOwnRows
  /\ pc \in {"ensure", "spawn", "sleep", "prepare", "open"} \/ jobFile.id # 0
       => (call.kind = "rl" => tensors = call.id)

\* Rank 0 has only the files of the job to remove, or has done so.
JobEnding == rank[0].pc \in EndPcs \/ call.id \in reported

\* A rank past saving has saved what training made of the call's base.
SavedInv ==
  /\ pc = "stream" /\ call.kind # "sync" =>
       \A r \in WorkerRanks :
         rank[r].pc \in {"push", "offload", "finalize"} \/ JobEnding
           => r \in DOMAIN shards /\ shards[r] = Trained
  /\ MergesOwnShards

\* The merged weights vLLM serves after a push.
PushedInv ==
  mode = "merged" =>
    /\ pc = "stream" =>
         \A r \in WorkerRanks :
           rank[r].pc \in {"offload", "finalize"} \/ JobEnding
             => served = IF call.kind = "sync" THEN ckpt[call.base] ELSE Trained
    /\ pc \in {"mkdir", "fill"} /\ call.kind # "skip" => served = Trained

\* The last checkpoint holds the training of every call that returned.
StoredInv ==
  /\ dirs = {} => pc = "new" /\ returned = {}
  /\ dirs # {} /\ pc # "fill" =>
       LastStep \in DOMAIN ckpt /\ returned \subseteq ckpt[LastStep]
  /\ pc \in {"open", "write", "stream", "merge", "mkdir"} => call.base = LastStep
  /\ pc = "fill" => /\ returned \subseteq ckpt[call.base]
                    /\ LastStep \in {call.base, Target}
  /\ pc \in {"open", "write", "stream", "mkdir", "fill", "load"} /\ ~Shared
       /\ call.kind # "skip" => latest = call.base
  /\ pc \in {"mkdir", "fill"} /\ Shared /\ call.kind # "skip" =>
       call.id \in ckpt[call.base]
  /\ pc \in {"lock", "wake", "load"} =>
       /\ ckpt[LastStep] = ckpt[Target]
       /\ call.kind # "skip" => call.id \in ckpt[Target]

\* What is served is the latest step's adapter, and the last one's: where they
\* differ the last one is a copy.
ServedInv ==
  /\ pc \in {"idle", "pack"} /\ Open =>
       served = ckpt[latest] /\ ckpt[latest] = ckpt[LastStep]
  /\ pc \in {"mkdir", "fill", "load"} /\ call.kind = "skip" =>
       /\ served = ckpt[latest] /\ ckpt[latest] = ckpt[call.base]
       /\ latest <= call.base
  /\ pc = "load" /\ call.kind = "skip" => ckpt[Target] = ckpt[call.base]

WorkInv ==
  /\ JobFileInv /\ CallInv /\ RanksFollow /\ RowsInv /\ SavedInv /\ PushedInv
  /\ StoredInv /\ ServedInv

-----------------------------------------------------------------------------
(* The ranks.  A step of theirs changes one rank, all of them, or rank 0     *)
(* where it ends a job alone.                                                *)

LEMMA WorkerClient ==
  ASSUME WorkerAction
  PROVE  /\ UNCHANGED <<mode, pc, call, calls, latest, closing, failed, dirs,
                        ckpt, lock, vllm, returned, restarts, kills>>
         /\ LastStep' = LastStep /\ SyncId' = SyncId /\ Target' = Target
         /\ Trained' = Trained
  BY WorkerFrame DEF clientVars, historyVars, LastStep, SyncId, Target, Trained

RankSteps == {<<"start", "barrier">>, <<"look", "barrier">>, <<"look", "wait">>,
              <<"wait", "load">>, <<"load", "run">>, <<"save", "push">>,
              <<"save", "offload">>, <<"offload", "finalize">>}

LEMMA RankMoves ==
  ASSUME JobsInv, NEW r \in WorkerRanks, RankStep(r)
  PROVE  /\ UNCHANGED <<jobFile, reported, tensors, served>>
         /\ \/ rank' = AllRanksAt("barrier")
            \/ /\ rank' = [rank EXCEPT ![r] = rank'[r]]
               /\ <<rank[r].pc, rank'[r].pc>> \in RankSteps
               /\ IF rank[r].pc = "look" /\ rank'[r].pc = "wait"
                  THEN rank'[r].id = jobFile.id /\ jobFile.id # 0
                  ELSE rank'[r].id = rank[r].id
               /\ IF rank[r].pc = "load"
                  THEN /\ jobFile.id = rank[r].id
                       /\ rank'[r].kind = jobFile.kind /\ rank'[r].base = jobFile.base
                       /\ jobFile.whole
                  ELSE rank'[r].kind = rank[r].kind /\ rank'[r].base = rank[r].base
<1>t. /\ rank \in [WorkerRanks -> [pc : RankPcs, id : CallIds \cup {0}, kind : Kinds, base : Nat]]
      /\ jobFile \in [id : CallIds \cup {0}, kind : Kinds, base : Nat, whole : BOOLEAN]
  BY DEF JobsInv, RankInv, FileInv
<1>u. UNCHANGED <<jobFile, reported, tensors, served>>
  BY DEF RankStep, RankStarts, RankLooks, RankReady, RankLoads, RankSaves, RankOffloads,
         fileVars, servingVars
<1>1. CASE RankLooks(r)
  <2>1. CASE jobFile.id = 0
    BY <1>t, <1>u, <1>1, <2>1 DEF RankLooks, MoveRank, RankSteps
  <2>2. CASE jobFile.id # 0
    BY <1>t, <1>u, <1>1, <2>2 DEF RankLooks, RankSteps
  <2> QED BY <2>1, <2>2
<1>2. CASE RankReady(r)
  BY <1>t, <1>u, <1>2 DEF RankReady, MoveRank, RankSteps
<1>3. CASE RankLoads(r)
  <2>1. CASE jobFile.id = rank[r].id /\ jobFile.whole
    BY <1>t, <1>u, <1>3, <2>1 DEF RankLoads, RankSteps
  <2>2. CASE ~(jobFile.id = rank[r].id /\ jobFile.whole)
    BY <1>u, <1>3, <2>2 DEF RankLoads, WorkerExits
  <2> QED BY <2>1, <2>2
<1>4. CASE RankSaves(r)
  BY <1>t, <1>u, <1>4 DEF RankSaves, MoveRank, RankSteps
<1>5. CASE RankOffloads(r)
  BY <1>t, <1>u, <1>5 DEF RankOffloads, MoveRank, RankSteps
<1>6. CASE RankStarts(r)
  BY <1>t, <1>u, <1>6 DEF RankStarts, MoveRank, RankSteps
<1> QED
  BY <1>1, <1>2, <1>3, <1>4, <1>5, <1>6 DEF RankStep

LEMMA RestFollow ==
  ASSUME \E p \in {"start", "barrier", "look"} : rank' = AllRanksAt(p)
  PROVE  RanksFollow'
  BY DEF RanksFollow, Quiescent, Resting, AllRanksAt, RankAt, LoadedPcs, EndPcs

LEMMA SameFollow ==
  ASSUME Quiescent, UNCHANGED rank
  PROVE  RanksFollow'
  BY DEF RanksFollow, Quiescent, Resting, LoadedPcs, EndPcs

\* What a rank with a job knows of it.
LEMMA FollowFacts ==
  ASSUME RanksFollow, NEW r \in WorkerRanks, ~Resting(rank[r])
  PROVE  /\ \/ pc \in {"write", "stream"} /\ call.id \notin reported
            \/ pc = "idle" /\ closing
         /\ OverId(rank[r].id) /\ (pc # "idle" => rank[r].id = call.id)
         /\ rank[r].pc \in LoadedPcs /\ pc # "idle" =>
              pc = "stream" /\ rank[r].kind = call.kind /\ rank[r].base = call.base
  BY DEF RanksFollow, Quiescent

\* While a rank does not end the job alone, none does.
LEMMA NoneEnds ==
  ASSUME RanksFollow, NEW r \in WorkerRanks,
         rank[r].pc \notin EndPcs \cup {"barrier"}
  PROVE  \A q \in WorkerRanks : rank[q].pc \notin EndPcs
  BY ZeroIsRank DEF RanksFollow

\* The next state's ranks follow the call if each of them does.
Follows(r) ==
  /\ ~Resting(rank[r]) =>
       /\ \/ pc \in {"write", "stream"} /\ call.id \notin reported
          \/ pc = "idle" /\ closing
       /\ OverId(rank[r].id) /\ (pc # "idle" => rank[r].id = call.id)
  /\ rank[r].pc \in LoadedPcs /\ pc # "idle" =>
       pc = "stream" /\ rank[r].kind = call.kind /\ rank[r].base = call.base
  /\ rank[r].pc \in EndPcs =>
       r = 0 /\ \A q \in WorkerRanks \ {0} : rank[q].pc = "barrier"
  /\ rank[r].pc \in {"clean", "report"} => jobFile.id = 0

LEMMA AllFollow == RanksFollow <=> \A r \in WorkerRanks : Follows(r)
  BY DEF RanksFollow, Follows, Quiescent

LEMMA AllFollowNext == RanksFollow' <=> \A r \in WorkerRanks : Follows(r)'
  BY DEF RanksFollow, Follows, Quiescent

LEMMA WorkerFollow ==
  ASSUME JobsInv, WorkInv, WorkerAction
  PROVE  RanksFollow'
<1> USE DEF WorkInv
<1>0. /\ UNCHANGED <<pc, call, calls, closing>> /\ SyncId' = SyncId
      /\ \A i : OverId(i)' = OverId(i)
  BY WorkerClient DEF OverId
<1>t. rank \in [WorkerRanks -> [pc : RankPcs, id : CallIds \cup {0}, kind : Kinds, base : Nat]]
  BY DEF JobsInv, RankInv
<1>1. CASE WorkerExits \/ LoopBarrier
  BY <1>1, RestFollow DEF WorkerExits, LoopBarrier
<1>2. ASSUME NEW r \in WorkerRanks, RankStep(r) PROVE RanksFollow'
  <2>0. UNCHANGED <<jobFile, reported>>
    BY <1>2, RankMoves
  <2>1. CASE rank' = AllRanksAt("barrier")
    BY <2>1, RestFollow
  <2>2. CASE rank' # AllRanksAt("barrier")
    <3>1. /\ rank' = [rank EXCEPT ![r] = rank'[r]]
          /\ <<rank[r].pc, rank'[r].pc>> \in RankSteps
          /\ IF rank[r].pc = "look" /\ rank'[r].pc = "wait"
             THEN rank'[r].id = jobFile.id /\ jobFile.id # 0
             ELSE rank'[r].id = rank[r].id
          /\ IF rank[r].pc = "load"
             THEN /\ jobFile.id = rank[r].id
                  /\ rank'[r].kind = jobFile.kind /\ rank'[r].base = jobFile.base
                  /\ jobFile.whole
             ELSE rank'[r].kind = rank[r].kind /\ rank'[r].base = rank[r].base
      BY <1>2, <2>2, RankMoves
    <3>2. /\ rank[r].pc \notin EndPcs \cup {"barrier"}
          /\ rank'[r].pc \notin EndPcs
      BY <3>1 DEF RankSteps, EndPcs
    <3>3. \A q \in WorkerRanks : rank[q].pc \notin EndPcs
      BY <3>2, NoneEnds
    <3>4. \A q \in WorkerRanks \ {r} : rank'[q] = rank[q]
      BY <1>t, <3>1
    <3>5. \A q \in WorkerRanks : rank'[q].pc \notin EndPcs
      BY <3>2, <3>3, <3>4
    <3>6. \A q \in WorkerRanks \ {r} : Follows(q)'
      <4>1. ASSUME NEW q \in WorkerRanks \ {r} PROVE Follows(q)'
        <5>1. Follows(q) /\ rank'[q] = rank[q] /\ rank'[q].pc \notin EndPcs
          BY <3>4, <3>5, AllFollow
        <5> QED
          BY <1>0, <2>0, <5>1 DEF Follows, Resting, EndPcs
      <4> QED BY <4>1
    <3>7. Follows(r)'
      <4>1. CASE rank[r].pc = "look"
        <5>1. CASE rank'[r].pc = "barrier"
          BY <5>1 DEF Follows, Resting, EndPcs, LoadedPcs
        <5>2. CASE rank'[r].pc = "wait"
          <6>1. /\ pc \in {"write", "stream"} /\ rank'[r].id = call.id
                /\ call.id \notin reported
            BY <3>1, <4>1, <5>2, ZeroIsRank DEF JobFileInv
          <6>2. OverId(call.id)
            BY <6>1, JobsAssumption DEF CallInv, OverId, SyncId, JobsInv, ClientInv
          <6> QED
            BY <1>0, <2>0, <5>2, <6>1, <6>2 DEF Follows, Resting, EndPcs, LoadedPcs
        <5> QED BY <3>1, <4>1, <5>1, <5>2 DEF RankSteps
      <4>0. CASE rank[r].pc = "start"
        BY <3>1, <4>0 DEF RankSteps, Follows, Resting, EndPcs, LoadedPcs
      <4>2. CASE rank[r].pc \notin {"start", "look"}
        <5>1. ~Resting(rank[r]) /\ rank'[r].id = rank[r].id
          BY <3>1, <4>2 DEF Resting, RankSteps
        <5>2. CASE rank[r].pc = "load"
          <6>1. jobFile.id # 0
            BY <3>1, <5>2 DEF JobsInv, RankInv
          <6>2. /\ jobFile.kind = call.kind /\ jobFile.base = call.base
                /\ pc = "stream" /\ jobFile.id = call.id
            BY <3>1, <5>2, <6>1 DEF JobFileInv
          <6> QED
            BY <1>0, <2>0, <3>1, <3>2, <5>1, <5>2, <6>2, FollowFacts
               DEF Follows, EndPcs
        <5>3. CASE rank[r].pc # "load"
          <6>1. rank'[r].kind = rank[r].kind /\ rank'[r].base = rank[r].base
            BY <3>1, <5>3
          <6>2. rank'[r].pc \in LoadedPcs => rank[r].pc \in LoadedPcs
            BY <3>1, <5>3 DEF RankSteps, LoadedPcs
          <6> QED
            BY <1>0, <2>0, <3>2, <5>1, <6>1, <6>2, FollowFacts DEF Follows, EndPcs
        <5> QED BY <5>2, <5>3
      <4> QED BY <4>0, <4>1, <4>2
    <3> QED
      BY <3>6, <3>7, AllFollowNext
  <2> QED
    BY <2>1, <2>2
<1>3. CASE RanksRun \/ RanksPush
  <2>1. PICK p \in {"save", "push", "offload"} :
          /\ rank' = [q \in WorkerRanks |-> [rank[q] EXCEPT !.pc = p]]
          /\ \A q \in WorkerRanks : rank[q].pc \in {"run", "push"}
          /\ UNCHANGED <<jobFile, reported>>
    BY <1>3 DEF RanksRun, RanksPush, RanksAt, MoveRanks, fileVars
  <2>2. ASSUME NEW q \in WorkerRanks PROVE Follows(q)'
    <3>1. /\ rank'[q].pc = p /\ rank'[q].id = rank[q].id
          /\ rank'[q].kind = rank[q].kind /\ rank'[q].base = rank[q].base
          /\ rank[q].pc \in LoadedPcs /\ ~Resting(rank[q])
      BY <1>t, <2>1 DEF LoadedPcs, Resting
    <3> QED
      BY <1>0, <2>1, <3>1, FollowFacts DEF Follows, EndPcs
  <2> QED
    BY <2>2, AllFollowNext
<1>4. CASE FinalizeBarrier
  <2>1. /\ rank' = [q \in WorkerRanks |->
                      IF q = 0 THEN [rank[0] EXCEPT !.pc = "remove"]
                      ELSE RankAt("barrier")]
        /\ rank[0].pc = "finalize"
        /\ UNCHANGED <<jobFile, reported>>
    BY <1>4, ZeroIsRank DEF FinalizeBarrier, RanksAt, fileVars
  <2>2. \A q \in WorkerRanks \ {0} : rank'[q].pc = "barrier"
    BY <2>1 DEF RankAt
  <2>3. /\ rank'[0].pc = "remove" /\ rank'[0].id = rank[0].id
        /\ rank'[0].kind = rank[0].kind /\ rank'[0].base = rank[0].base
        /\ rank[0].pc \in LoadedPcs /\ ~Resting(rank[0])
    BY <1>t, <2>1, ZeroIsRank DEF LoadedPcs, Resting
  <2>4. Follows(0)'
    BY <1>0, <2>1, <2>2, <2>3, FollowFacts, ZeroIsRank DEF Follows, EndPcs
  <2>5. \A q \in WorkerRanks \ {0} : Follows(q)'
    BY <2>2 DEF Follows, EndPcs, LoadedPcs, Resting
  <2> QED
    BY <2>4, <2>5, AllFollowNext
<1>5. CASE RemoveJobFile \/ RemoveRows
  <2>1. PICK p \in {"clean", "report"} :
          /\ rank' = [rank EXCEPT ![0] = [@ EXCEPT !.pc = p]]
          /\ rank[0].pc \in {"remove", "clean"}
          /\ UNCHANGED reported
    BY <1>5 DEF RemoveJobFile, RemoveRows, Rank0At, Rank0Goes, After
  <2>2. /\ ~Resting(rank[0]) /\ rank[0].pc \in LoadedPcs
        /\ \A q \in WorkerRanks \ {0} : rank[q].pc = "barrier"
    BY <2>1, ZeroIsRank DEF RanksFollow, Resting, LoadedPcs, EndPcs
  <2>3. jobFile'.id = 0
    <3>1. CASE RemoveJobFile
      <4>1. jobFile.id # 0 => jobFile.id = rank[0].id
        BY <2>2, FollowFacts, ZeroIsRank DEF JobFileInv
      <4> QED
        BY <3>1, <4>1 DEF RemoveJobFile, NoJob
    <3>2. CASE RemoveRows
      BY <3>2, ZeroIsRank DEF RemoveRows, Rank0At, RanksFollow
    <3> QED BY <1>5, <3>1, <3>2
  <2>4. /\ rank'[0].pc = p /\ rank'[0].id = rank[0].id
        /\ rank'[0].kind = rank[0].kind /\ rank'[0].base = rank[0].base
    BY <1>t, <2>1, ZeroIsRank
  <2>5. \A q \in WorkerRanks \ {0} : rank'[q].pc = "barrier"
    BY <1>t, <2>1, <2>2
  <2>6. Follows(0)'
    BY <1>0, <2>1, <2>2, <2>3, <2>4, <2>5, FollowFacts, ZeroIsRank DEF Follows, EndPcs
  <2>7. \A q \in WorkerRanks \ {0} : Follows(q)'
    BY <2>5 DEF Follows, EndPcs, LoadedPcs, Resting
  <2> QED
    BY <2>6, <2>7, AllFollowNext
<1>6. CASE ReportDone
  <2>1. /\ rank' = [rank EXCEPT ![0] = RankAt("barrier")]
        /\ rank[0].pc = "report"
    BY <1>6 DEF ReportDone, Rank0At, Rank0Goes, After
  <2>2. \A q \in WorkerRanks \ {0} : rank[q].pc = "barrier"
    BY <2>1, ZeroIsRank DEF RanksFollow, EndPcs
  <2>3. \A q \in WorkerRanks : rank'[q].pc = "barrier"
    BY <1>t, <2>1, <2>2, ZeroIsRank DEF RankAt
  <2>4. \A q \in WorkerRanks : Follows(q)'
    BY <2>3 DEF Follows, EndPcs, LoadedPcs, Resting
  <2> QED
    BY <2>4, AllFollowNext
<1> QED
  BY <1>1, <1>2, <1>3, <1>4, <1>5, <1>6
     DEF WorkerAction, WorkerStep, WorkerDies, CollectiveTimesOut

LEMMA WorkerCall == ASSUME WorkInv, WorkerAction PROVE CallInv'
  BY WorkerClient DEF WorkInv, CallInv, Shared, Open

LEMMA WorkerStored == ASSUME WorkInv, WorkerAction PROVE StoredInv'
  BY WorkerClient DEF WorkInv, StoredInv, Shared

LEMMA WorkerJobFile ==
  ASSUME JobsInv, WorkInv, WorkerAction
  PROVE  JobFileInv'
<1> USE DEF WorkInv
<1>0. \A i : OverId(i)' = OverId(i)
  BY WorkerClient DEF OverId
<1>1. CASE RemoveJobFile
  BY <1>0, <1>1, WorkerClient DEF RemoveJobFile, JobFileInv, NoJob
<1>2. CASE ReportDone
  <2>1. reported' = reported \cup {rank[0].id} /\ UNCHANGED jobFile
    BY <1>2 DEF ReportDone
  <2>2. /\ rank[0].pc = "report" /\ rank[0].pc \in LoadedPcs /\ ~Resting(rank[0])
        /\ rank[0].id \in CallIds
    BY <1>2, ZeroIsRank DEF ReportDone, Rank0At, LoadedPcs, Resting, JobsInv, RankInv
  <2>3. jobFile.id = 0
    BY <2>2, ZeroIsRank DEF RanksFollow
  <2>4. OverId(rank[0].id) /\ pc # "new"
    BY <2>2, FollowFacts, ZeroIsRank
  <2>5. CASE pc # "idle"
    BY <1>0, <2>1, <2>2, <2>3, <2>4, <2>5, FollowFacts, ZeroIsRank, WorkerClient
       DEF JobFileInv
  <2>6. CASE pc = "idle"
    <3>1. call.id = 0 /\ 0 \notin CallIds
      BY <2>6, IdsAreNat DEF CallInv, NoCall
    <3> QED
      BY <1>0, <2>1, <2>2, <2>3, <2>4, <3>1, WorkerClient DEF JobFileInv
  <2> QED
    BY <2>5, <2>6
<1>3. CASE UNCHANGED <<jobFile, reported>>
  BY <1>0, <1>3, WorkerClient DEF JobFileInv
<1> QED
  BY <1>1, <1>2, <1>3
     DEF WorkerAction, WorkerStep, RankStep, RanksRun, WorkerDies, LoopBarrier,
         RanksPush, FinalizeBarrier, RemoveRows, CollectiveTimesOut, RankStarts, RankLooks,
         RankReady, RankLoads, RankSaves, RankOffloads, fileVars

\* A rank that runs a job has just loaded it, or ran it already.
LEMMA WorkerHasRun ==
  ASSUME JobsInv, WorkInv, WorkerAction, NEW r \in WorkerRanks,
         rank'[r].pc = "run"
  PROVE  /\ UNCHANGED tensors
         /\ \/ rank[r].pc = "run" /\ rank'[r] = rank[r]
            \/ /\ rank[r].pc = "load" /\ rank'[r].id = rank[r].id /\ jobFile.id # 0
               /\ jobFile.id = rank[r].id /\ rank'[r].kind = jobFile.kind
<1>t. rank \in [WorkerRanks -> [pc : RankPcs, id : CallIds \cup {0}, kind : Kinds, base : Nat]]
  BY DEF JobsInv, RankInv
<1>1. CASE WorkerExits \/ LoopBarrier
  BY <1>1 DEF WorkerExits, LoopBarrier, AllRanksAt, RankAt
<1>2. ASSUME NEW q \in WorkerRanks, RankStep(q)
      PROVE  /\ UNCHANGED tensors
             /\ \/ rank[r].pc = "run" /\ rank'[r] = rank[r]
                \/ /\ rank[r].pc = "load" /\ rank'[r].id = rank[r].id /\ jobFile.id # 0
                   /\ jobFile.id = rank[r].id /\ rank'[r].kind = jobFile.kind
  <2>1. /\ rank' = [rank EXCEPT ![q] = rank'[q]]
        /\ <<rank[q].pc, rank'[q].pc>> \in RankSteps
        /\ rank[q].pc = "load" =>
             /\ jobFile.id = rank[q].id
             /\ rank'[q].kind = jobFile.kind /\ rank'[q].id = rank[q].id
        /\ UNCHANGED tensors
    BY <1>2, RankMoves DEF AllRanksAt, RankAt
  <2>2. CASE q = r
    <3>1. rank[r].pc = "load"
      BY <2>1, <2>2 DEF RankSteps
    <3>2. rank[r].id # 0
      BY <3>1 DEF JobsInv, RankInv
    <3> QED BY <2>1, <2>2, <3>1, <3>2
  <2>3. CASE q # r
    BY <1>t, <2>1, <2>3
  <2> QED BY <2>2, <2>3
<1>3. CASE RanksRun \/ RanksPush \/ FinalizeBarrier
  <2>1. rank'[r].pc \in {"save", "push", "offload", "remove", "barrier"}
    BY <1>t, <1>3, ZeroIsRank
       DEF RanksRun, RanksPush, MoveRanks, FinalizeBarrier, RankAt
  <2> QED BY <2>1
<1>4. CASE RemoveJobFile \/ RemoveRows \/ ReportDone
  <2>1. /\ rank'[0].pc \in {"clean", "report", "barrier"}
        /\ \A q \in WorkerRanks \ {0} : rank'[q] = rank[q]
        /\ rank[0].pc \in EndPcs
    BY <1>t, <1>4, ZeroIsRank
       DEF RemoveJobFile, RemoveRows, ReportDone, Rank0At, Rank0Goes, After, RankAt, EndPcs
  <2>2. \A q \in WorkerRanks \ {0} : rank[q].pc = "barrier"
    BY <2>1, ZeroIsRank DEF WorkInv, RanksFollow
  <2> QED BY <2>1, <2>2
<1> QED
  BY <1>1, <1>2, <1>3, <1>4 DEF WorkerAction, WorkerStep, WorkerDies, CollectiveTimesOut

LEMMA WorkerRows ==
  ASSUME JobsInv, WorkInv, WorkerAction
  PROVE  RowsInv'
<1> USE DEF WorkInv
<1>1. TrainsOnOwnRows'
  <2>1. ASSUME NEW r \in WorkerRanks, rank'[r].pc = "run", rank'[r].kind = "rl"
        PROVE  tensors' = rank'[r].id
    <3>1. CASE rank[r].pc = "run" /\ rank'[r] = rank[r]
      BY <2>1, <3>1, WorkerHasRun DEF RowsInv, TrainsOnOwnRows
    <3>2. CASE rank[r].pc = "load"
      <4>1. /\ rank'[r].id = rank[r].id /\ jobFile.id # 0 /\ jobFile.id = rank[r].id
            /\ rank'[r].kind = jobFile.kind /\ UNCHANGED tensors
        BY <2>1, <3>2, WorkerHasRun
      <4> QED
        BY <2>1, <4>1 DEF RowsInv, JobFileInv
    <3> QED BY <2>1, <3>1, <3>2, WorkerHasRun
  <2> QED BY <2>1 DEF TrainsOnOwnRows
<1>2. CASE RemoveRows
  <2>1. rank[0].pc = "clean" /\ ~Resting(rank[0]) /\ jobFile' = jobFile
    BY <1>2 DEF RemoveRows, Rank0At, Resting
  <2>2. jobFile.id = 0 /\ pc \in {"write", "stream", "idle"}
    BY <2>1, FollowFacts, ZeroIsRank DEF RanksFollow
  <2> QED
    BY <1>1, <2>1, <2>2, WorkerClient DEF RowsInv
<1>3. CASE UNCHANGED tensors /\ (jobFile'.id # 0 => jobFile.id # 0)
  BY <1>1, <1>3, WorkerClient DEF RowsInv
<1>4. CASE RemoveJobFile
  BY <1>3, <1>4 DEF RemoveJobFile, NoJob
<1> QED
  BY <1>2, <1>3, <1>4
     DEF WorkerAction, WorkerStep, RankStep, RanksRun, WorkerDies, LoopBarrier,
         RanksPush, FinalizeBarrier, ReportDone, CollectiveTimesOut, RankStarts, RankLooks,
         RankReady, RankLoads, RankSaves, RankOffloads, fileVars

\* Rank 0 begins to end a job when every rank has finished it.
LEMMA WorkerEnding ==
  ASSUME JobsInv, WorkInv, WorkerAction, pc = "stream", JobEnding'
  PROVE  JobEnding \/ (FinalizeBarrier /\ \A r \in WorkerRanks : rank[r].pc = "finalize")
<1>t. rank \in [WorkerRanks -> [pc : RankPcs, id : CallIds \cup {0}, kind : Kinds, base : Nat]]
  BY DEF JobsInv, RankInv
<1>c. UNCHANGED call
  BY WorkerClient
<1>1. CASE FinalizeBarrier
  BY <1>1 DEF FinalizeBarrier, RanksAt
<1>2. CASE RemoveJobFile \/ RemoveRows \/ ReportDone
  BY <1>2 DEF RemoveJobFile, RemoveRows, ReportDone, Rank0At, JobEnding, EndPcs
<1>3. ASSUME NEW q \in WorkerRanks, RankStep(q) PROVE JobEnding
  <2>1. UNCHANGED reported
    BY <1>3, RankMoves
  <2>2. rank'[0].pc \in EndPcs => rank[0].pc \in EndPcs
    <3>1. CASE rank' = AllRanksAt("barrier")
      BY <3>1, ZeroIsRank DEF AllRanksAt, RankAt, EndPcs
    <3>2. CASE rank' # AllRanksAt("barrier")
      <4>1. rank' = [rank EXCEPT ![q] = rank'[q]] /\ rank'[q].pc \notin EndPcs
        BY <1>3, <3>2, RankMoves DEF RankSteps, EndPcs
      <4> QED BY <1>t, <4>1, ZeroIsRank
    <3> QED BY <3>1, <3>2
  <2> QED BY <1>c, <2>1, <2>2 DEF JobEnding
<1>4. CASE LoopBarrier \/ WorkerDies \/ CollectiveTimesOut
  <2>1. rank'[0].pc \notin EndPcs /\ UNCHANGED reported
    BY <1>4, ZeroIsRank
       DEF LoopBarrier, WorkerExits, AllRanksAt, RankAt, EndPcs, fileVars,
           WorkerDies, CollectiveTimesOut
  <2> QED BY <1>c, <2>1 DEF JobEnding
<1>5. CASE RanksRun \/ RanksPush
  <2>1. rank'[0].pc \notin EndPcs /\ UNCHANGED reported
    BY <1>t, <1>5, ZeroIsRank DEF RanksRun, RanksPush, MoveRanks, EndPcs, fileVars
  <2> QED BY <1>c, <2>1 DEF JobEnding
<1> QED
  BY <1>1, <1>2, <1>3, <1>4, <1>5
     DEF WorkerAction, WorkerStep, WorkerDies, CollectiveTimesOut

\* A rank past saving was there before, or is the one that saves, unless the
\* job is a sync, which saves nothing.
LEMMA WorkerPast ==
  ASSUME JobsInv, WorkInv, WorkerAction, NEW r \in WorkerRanks, pc = "stream",
         rank'[r].pc \in {"push", "offload", "finalize"}, call.kind # "sync"
  PROVE  rank[r].pc \in {"push", "offload", "finalize"} \/ RankSaves(r)
<1>t. rank \in [WorkerRanks -> [pc : RankPcs, id : CallIds \cup {0}, kind : Kinds, base : Nat]]
  BY DEF JobsInv, RankInv
<1>1. CASE WorkerExits \/ LoopBarrier
  BY <1>1 DEF WorkerExits, LoopBarrier, AllRanksAt, RankAt
<1>2. ASSUME NEW q \in WorkerRanks, RankStep(q)
      PROVE  rank[r].pc \in {"push", "offload", "finalize"} \/ RankSaves(r)
  <2>1. rank' = [rank EXCEPT ![q] = rank'[q]] /\ <<rank[q].pc, rank'[q].pc>> \in RankSteps
    BY <1>2, RankMoves DEF AllRanksAt, RankAt
  <2>2. CASE q = r
    <3>1. rank[r].pc \in {"save", "offload"}
      BY <2>1, <2>2 DEF RankSteps
    <3> QED
      BY <1>2, <2>2, <3>1 DEF RankStep, RankStarts, RankLooks, RankReady, RankLoads, RankOffloads
  <2>3. CASE q # r
    BY <1>t, <2>1, <2>3
  <2> QED BY <2>2, <2>3
<1>3. CASE RanksRun
  <2>1. rank[0].kind = call.kind
    BY <1>3, FollowFacts, ZeroIsRank DEF RanksRun, RanksAt, WorkInv, Resting, LoadedPcs
  <2>2. rank'[r].pc = "save"
    BY <1>t, <1>3, <2>1 DEF RanksRun, MoveRanks
  <2> QED BY <2>2
<1>4. CASE RanksPush
  BY <1>4 DEF RanksPush, RanksAt
<1>5. CASE FinalizeBarrier
  BY <1>5 DEF FinalizeBarrier, RanksAt
<1>6. CASE RemoveJobFile \/ RemoveRows \/ ReportDone
  <2>1. /\ rank'[0].pc \in {"clean", "report", "barrier"}
        /\ \A q \in WorkerRanks \ {0} : rank'[q] = rank[q]
    BY <1>t, <1>6, ZeroIsRank
       DEF RemoveJobFile, RemoveRows, ReportDone, Rank0At, Rank0Goes, After, RankAt
  <2> QED BY <2>1
<1> QED
  BY <1>1, <1>2, <1>3, <1>4, <1>5, <1>6
     DEF WorkerAction, WorkerStep, WorkerDies, CollectiveTimesOut

LEMMA WorkerSaved ==
  ASSUME JobsInv, WorkInv, WorkerAction
  PROVE  SavedInv'
<1> USE DEF WorkInv
<1>c. UNCHANGED <<pc, call, mode>> /\ Trained' = Trained
  BY WorkerClient
<1>1. CASE pc = "stream" /\ call.kind # "sync"
  <2>1. ASSUME NEW r \in WorkerRanks,
               rank'[r].pc \in {"push", "offload", "finalize"} \/ JobEnding'
        PROVE  r \in DOMAIN shards' /\ shards'[r] = Trained
    <3>1. (r \in DOMAIN shards /\ shards[r] = Trained) \/ RankSaves(r)
      BY <1>1, <2>1, WorkerPast, WorkerEnding DEF SavedInv
    <3>2. ASSUME NEW q \in WorkerRanks, RankSaves(q)
          PROVE  shards' = Put(shards, q, Trained)
      <4>1. rank[q].id = call.id /\ rank[q].base = call.base
        BY <1>1, <3>2, FollowFacts DEF RankSaves, Resting, LoadedPcs
      <4> QED
        BY <3>2, <4>1 DEF RankSaves, Trained
    <3>3. (\E q \in WorkerRanks : RankSaves(q)) \/ UNCHANGED shards
      BY DEF WorkerAction, WorkerStep, RankStep, RanksRun, WorkerDies, LoopBarrier,
             RanksPush, FinalizeBarrier, RemoveJobFile, RemoveRows, ReportDone,
             CollectiveTimesOut, RankStarts, RankLooks, RankReady, RankLoads, RankOffloads,
             checkpointVars
    <3>4. CASE \E q \in WorkerRanks : RankSaves(q)
      <4>1. PICK q \in WorkerRanks : RankSaves(q)
        BY <3>4
      <4>2. shards' = Put(shards, q, Trained)
        BY <3>2, <4>1
      <4>3. CASE RankSaves(r)
        BY <3>2, <4>3 DEF Put
      <4>4. CASE ~RankSaves(r)
        BY <3>1, <4>2, <4>4 DEF Put
      <4> QED BY <4>3, <4>4
    <3>5. CASE ~\E q \in WorkerRanks : RankSaves(q)
      BY <3>1, <3>3, <3>5
    <3> QED BY <3>4, <3>5
  <2> QED
    BY <1>1, <1>c, <2>1 DEF SavedInv, MergesOwnShards
<1>2. CASE pc # "stream"
  <2>1. CASE pc = "merge" \/ (pc \in {"mkdir", "fill"} /\ MergesIntoTarget)
    <3>1. \A q \in WorkerRanks : Resting(rank[q])
      BY <2>1, FollowFacts
    <3>2. UNCHANGED shards
      BY <3>1 DEF Resting, WorkerAction, WorkerStep, RankStep, RanksRun, WorkerDies,
             LoopBarrier, RanksPush, FinalizeBarrier, RemoveJobFile, RemoveRows, ReportDone,
             CollectiveTimesOut, RankStarts, RankLooks, RankReady, RankLoads, RankSaves, RankOffloads,
             checkpointVars
    <3> QED
      BY <1>2, <1>c, <3>2 DEF SavedInv, MergesOwnShards, ShardsThere, MergesIntoTarget, Shared
  <2>2. CASE ~(pc = "merge" \/ (pc \in {"mkdir", "fill"} /\ MergesIntoTarget))
    BY <1>2, <1>c, <2>2 DEF SavedInv, MergesOwnShards, MergesIntoTarget, Shared
  <2> QED BY <2>1, <2>2
<1>3. CASE pc = "stream" /\ call.kind = "sync"
  BY <1>3, <1>c DEF SavedInv, MergesOwnShards
<1> QED
  BY <1>1, <1>2, <1>3

\* A rank past a push, or past saving where nothing is pushed, was there before,
\* or all of them push.
LEMMA WorkerSent ==
  ASSUME JobsInv, WorkInv, WorkerAction, NEW r \in WorkerRanks, mode = "merged",
         rank'[r].pc \in {"offload", "finalize"}
  PROVE  rank[r].pc \in {"offload", "finalize"} \/ RanksPush
<1>t. rank \in [WorkerRanks -> [pc : RankPcs, id : CallIds \cup {0}, kind : Kinds, base : Nat]]
  BY DEF JobsInv, RankInv
<1>1. CASE WorkerExits \/ LoopBarrier
  BY <1>1 DEF WorkerExits, LoopBarrier, AllRanksAt, RankAt
<1>2. ASSUME NEW q \in WorkerRanks, RankStep(q)
      PROVE  rank[r].pc \in {"offload", "finalize"}
  <2>1. rank' = [rank EXCEPT ![q] = rank'[q]] /\ <<rank[q].pc, rank'[q].pc>> \in RankSteps
    BY <1>2, RankMoves DEF AllRanksAt, RankAt
  <2>2. CASE q = r
    <3>1. rank[r].pc \in {"save", "offload"}
      BY <2>1, <2>2 DEF RankSteps
    <3>2. rank[r].pc = "save" => rank'[r].pc = "push"
      BY <1>t, <1>2, <2>2
         DEF RankStep, RankStarts, RankLooks, RankReady, RankLoads, RankOffloads, RankSaves, MoveRank
    <3> QED BY <3>1, <3>2
  <2>3. CASE q # r
    BY <1>t, <2>1, <2>3
  <2> QED BY <2>2, <2>3
<1>3. CASE RanksRun
  BY <1>t, <1>3 DEF RanksRun, MoveRanks
<1>5. CASE FinalizeBarrier
  BY <1>5 DEF FinalizeBarrier, RanksAt
<1>6. CASE RemoveJobFile \/ RemoveRows \/ ReportDone
  <2>1. /\ rank'[0].pc \in {"clean", "report", "barrier"}
        /\ \A q \in WorkerRanks \ {0} : rank'[q] = rank[q]
    BY <1>t, <1>6, ZeroIsRank
       DEF RemoveJobFile, RemoveRows, ReportDone, Rank0At, Rank0Goes, After, RankAt
  <2> QED BY <2>1
<1> QED
  BY <1>1, <1>2, <1>3, <1>5, <1>6
     DEF WorkerAction, WorkerStep, WorkerDies, CollectiveTimesOut

LEMMA WorkerServes ==
  ASSUME WorkerAction
  PROVE  RanksPush \/ UNCHANGED served
  BY DEF WorkerAction, WorkerStep, RankStep, RanksRun, WorkerDies, LoopBarrier,
         FinalizeBarrier, RemoveJobFile, RemoveRows, ReportDone,
         CollectiveTimesOut, RankStarts, RankLooks, RankReady, RankLoads, RankSaves,
         RankOffloads, servingVars

\* Only the worker of an open service has an awake vLLM to push to.
LEMMA PushFacts ==
  ASSUME JobsInv, WorkInv, RanksPush
  PROVE  /\ pc = "stream"
         /\ served' = IF call.kind = "sync" THEN ckpt[call.base] ELSE Trained
<1>1. /\ rank[0].pc = "push" /\ vllm = "awake" /\ served' = Pushed
  BY ZeroIsRank DEF RanksPush, RanksAt
<1>2. pc # "idle"
  BY <1>1, FollowFacts, ZeroIsRank DEF WorkInv, CallInv, Resting
<1>3. /\ pc = "stream" /\ rank[0].kind = call.kind /\ rank[0].base = call.base
      /\ rank[0].id = call.id
  BY <1>1, <1>2, FollowFacts, ZeroIsRank DEF WorkInv, Resting, LoadedPcs
<1> QED
  BY <1>1, <1>3 DEF Pushed, Trained

LEMMA WorkerPushed ==
  ASSUME JobsInv, WorkInv, WorkerAction
  PROVE  PushedInv'
<1> USE DEF WorkInv
<1>c. UNCHANGED <<pc, call, mode, ckpt>> /\ Trained' = Trained
  BY WorkerClient
<1>1. CASE RanksPush
  BY <1>1, <1>c, PushFacts DEF PushedInv
<1>2. CASE ~RanksPush /\ mode = "merged"
  <2>1. UNCHANGED served
    BY <1>2, WorkerServes
  <2>2. ASSUME NEW r \in WorkerRanks, pc = "stream",
               rank'[r].pc \in {"offload", "finalize"} \/ JobEnding'
        PROVE  served = IF call.kind = "sync" THEN ckpt[call.base] ELSE Trained
    BY <1>2, <2>2, WorkerSent, WorkerEnding DEF PushedInv
  <2> QED
    BY <1>c, <2>1, <2>2 DEF PushedInv
<1>3. CASE mode # "merged"
  BY <1>3, <1>c DEF PushedInv
<1> QED
  BY <1>1, <1>2, <1>3

LEMMA WorkerServed ==
  ASSUME JobsInv, WorkInv, WorkerAction
  PROVE  ServedInv'
<1>1. UNCHANGED served \/ pc = "stream"
  BY WorkerServes, PushFacts
<1> QED
  BY <1>1, WorkerClient DEF WorkInv, ServedInv, Open

LEMMA WorkerWork ==
  ASSUME JobsInv, WorkInv, WorkerAction
  PROVE  WorkInv'
  BY WorkerCall, WorkerStored, WorkerJobFile, WorkerFollow, WorkerRows, WorkerSaved,
     WorkerPushed, WorkerServed DEF WorkInv

-----------------------------------------------------------------------------
(* What goes wrong. *)

LEMMA RaisesFacts ==
  ASSUME JobsInv, WorkInv, Raises
  PROVE  /\ Raise /\ pc \notin {"new", "idle", "write"}
         /\ pc = "fill" => Target = call.base
         /\ call.kind = "skip" => pc = "load"
<1>1. Raise /\ pc \notin {"new", "idle", "write"} /\ (pc = "fill" => Target = call.base)
  BY DEF Raises, CallRaises, Awaits, CallFails, ChecksChildren, StreamRaises,
         PublishRaises, SftRefused
<1>2. ASSUME call.kind = "skip" PROVE pc = "load"
  <2>1. pc \in {"mkdir", "fill", "load"} /\ call.base \in Nat
    BY <1>2 DEF WorkInv, CallInv, JobsInv, ClientInv
  <2>2. Target # call.base /\ ~MergesIntoTarget
    BY <1>2, <2>1 DEF Target, MergesIntoTarget
  <2> QED
    BY <2>1, <2>2 DEF Raises, CallRaises, Awaits, CallFails, ChecksChildren,
       StreamRaises, PublishRaises, SftRefused
<1> QED
  BY <1>1, <1>2

LEMMA RaiseWork ==
  ASSUME JobsInv, WorkInv, Raises
  PROVE  WorkInv'
<1> USE DEF WorkInv
<1>0. /\ pc' = "idle" /\ call' = NoCall /\ pc \notin {"new", "idle", "write"}
      /\ pc = "fill" => Target = call.base
      /\ call.kind = "skip" => pc = "load"
      /\ UNCHANGED <<mode, calls, latest, dirs, ckpt, shards, tensors, served,
                     returned, restarts, kills>>
      /\ jobFile' = (IF pc = "stream" THEN NoJob ELSE jobFile)
      /\ reported' = (IF pc = "stream" THEN reported \ {call.id} ELSE reported)
      /\ IF call.kind = "skip" \/ closing THEN UNCHANGED <<closing, vllm, worker, rank>>
         ELSE CloseEffects
  BY RaisesFacts DEF Raise, checkpointVars, historyVars
<1>s. SyncId' = SyncId /\ LastStep' = LastStep /\ \A i : OverId(i)' = OverId(i)
  BY <1>0 DEF SyncId, LastStep, OverId
<1>1. JobFileInv'
  BY <1>0, <1>s, IdsAreNat DEF JobFileInv, NoJob, NoCall, JobsInv, FileInv
<1>2. CallInv'
  BY <1>0 DEF CallInv, NoCall, CloseEffects
<1>3. RanksFollow'
  <2>1. CASE CloseEffects
    BY <2>1, RestFollow DEF CloseEffects
  <2>2. CASE ~CloseEffects /\ call.kind = "skip"
    <3>1. Quiescent
      BY <1>0, <2>2, FollowFacts DEF Quiescent
    <3> QED BY <1>0, <2>2, <3>1, SameFollow
  <2>3. CASE ~CloseEffects /\ closing
    <3>1. closing' /\ UNCHANGED rank /\ (jobFile.id = 0 => jobFile'.id = 0)
      BY <1>0, <2>3 DEF NoJob
    <3>2. \A r \in WorkerRanks : Follows(r)
      BY AllFollow
    <3>3. \A r \in WorkerRanks : Follows(r)'
      BY <1>0, <1>s, <3>1, <3>2 DEF Follows
    <3> QED BY <3>3, AllFollowNext
  <2> QED BY <1>0, <2>1, <2>2, <2>3
<1>4. RowsInv'
  <2>1. jobFile'.id # 0 => jobFile.id # 0
    BY <1>0 DEF NoJob
  <2>2. call'.kind # "rl"
    BY <1>0 DEF NoCall
  <2>3. TrainsOnOwnRows'
    BY <1>0 DEF RowsInv, TrainsOnOwnRows, CloseEffects, AllRanksAt, RankAt
  <2> QED BY <2>2, <2>3 DEF RowsInv
<1>5. SavedInv' /\ PushedInv'
  BY <1>0 DEF SavedInv, PushedInv, MergesOwnShards
<1>6. StoredInv'
  <2>1. pc = "fill" => LastStep = call.base /\ call.base \in DOMAIN ckpt
    BY <1>0 DEF StoredInv, JobsInv, StepsInv, BasedPcs
  <2> QED
    BY <1>0, <1>s, <2>1 DEF StoredInv
<1>7. ServedInv'
  <2>1. CASE call.kind = "skip"
    <3>1. pc = "load"
      BY <1>0, <2>1
    <3>2. ckpt[LastStep] = ckpt[Target] /\ ckpt[Target] = ckpt[call.base]
          /\ served = ckpt[latest] /\ ckpt[latest] = ckpt[call.base]
      BY <2>1, <3>1 DEF StoredInv, ServedInv
    <3> QED
      BY <1>0, <1>s, <3>2 DEF ServedInv
  <2>2. CASE call.kind # "skip"
    <3>1. closing'
      BY <1>0, <2>2 DEF CloseEffects
    <3> QED BY <1>0, <3>1 DEF ServedInv, Open
  <2> QED BY <2>1, <2>2
<1> QED
  BY <1>1, <1>2, <1>3, <1>4, <1>5, <1>6, <1>7

LEMMA ClosesWork ==
  ASSUME JobsInv, WorkInv, ServiceCloses
  PROVE  WorkInv'
<1> USE DEF WorkInv
<1>0. /\ CloseEffects /\ pc \in Awaits \cup {"idle"}
      /\ UNCHANGED <<mode, pc, call, calls, latest, dirs, ckpt, shards, jobFile,
                     reported, tensors, served, returned, restarts, kills>>
  BY DEF ServiceCloses, SupervisorCloses, VllmExits, checkpointVars, historyVars
<1>s. /\ SyncId' = SyncId /\ LastStep' = LastStep /\ Trained' = Trained
      /\ Target' = Target /\ \A i : OverId(i)' = OverId(i)
  BY <1>0 DEF SyncId, LastStep, OverId, Trained, Target
<1>r. \A r \in WorkerRanks : rank'[r].pc = "barrier"
  BY <1>0 DEF CloseEffects, AllRanksAt, RankAt
<1>e. JobEnding' => JobEnding
  BY <1>0, <1>r, ZeroIsRank DEF JobEnding, EndPcs
<1>1. JobFileInv'
  BY <1>0, <1>s DEF JobFileInv
<1>2. CallInv'
  BY <1>0, <1>s DEF CallInv, CloseEffects, Awaits, Shared
<1>3. RanksFollow'
  BY <1>0, RestFollow DEF CloseEffects
<1>4. RowsInv'
  BY <1>0, <1>r DEF RowsInv, TrainsOnOwnRows
<1>5. SavedInv'
  BY <1>0, <1>s, <1>r, <1>e DEF SavedInv, MergesOwnShards, MergesIntoTarget, Shared, ShardsThere
<1>6. PushedInv'
  BY <1>0, <1>s, <1>r, <1>e DEF PushedInv
<1>7. StoredInv'
  BY <1>0, <1>s DEF StoredInv, Shared
<1>8. ServedInv'
  BY <1>0, <1>s DEF ServedInv, Open, CloseEffects
<1> QED
  BY <1>1, <1>2, <1>3, <1>4, <1>5, <1>6, <1>7, <1>8

LEMMA RestartWork ==
  ASSUME JobsInv, WorkInv, Restart
  PROVE  WorkInv'
<1> USE DEF WorkInv
<1>0. /\ pc = "idle" /\ pc' = "new" /\ call' = NoCall /\ closing' = FALSE
      /\ vllm' = "down" /\ rank' = AllRanksAt("barrier") /\ restarts' = restarts + 1
      /\ UNCHANGED <<mode, calls, dirs, ckpt, shards, jobFile, reported, tensors,
                     served, returned, kills>>
  BY DEF Restart, FreshService, checkpointVars, fileVars
<1>s. SyncId \in Nat /\ SyncId' = SyncId + 1 /\ SyncId > MaxCalls /\ LastStep' = LastStep
  BY <1>0, JobsAssumption DEF SyncId, LastStep, JobsInv, ClientInv
<1>1. JobFileInv'
  <2>1. \A i \in reported : OverId(i)' /\ i # SyncId'
    <3>1. ASSUME NEW i \in reported PROVE OverId(i)' /\ i # SyncId'
      <4>1. OverId(i) /\ calls \in 0..MaxCalls /\ i \in Nat
        BY IdsAreNat DEF JobFileInv, JobsInv, ClientInv, FileInv
      <4> QED
        BY <1>0, <1>s, <4>1, JobsAssumption DEF OverId
    <3> QED BY <3>1
  <2>2. jobFile.id = 0 /\ ~jobFile.whole
    BY <1>0 DEF JobFileInv, JobsInv, FileInv
  <2> QED
    BY <1>0, <2>1, <2>2, IdsAreNat DEF JobFileInv, NoCall, JobsInv, FileInv
<1>2. CallInv'
  BY <1>0 DEF CallInv, NoCall, Open
<1>3. RanksFollow'
  BY <1>0, RestFollow
<1>4. RowsInv'
  BY <1>0 DEF RowsInv, TrainsOnOwnRows, AllRanksAt, RankAt, NoCall
<1>5. SavedInv' /\ PushedInv'
  BY <1>0 DEF SavedInv, PushedInv, MergesOwnShards
<1>6. StoredInv'
  BY <1>0, <1>s DEF StoredInv
<1>7. ServedInv'
  BY <1>0 DEF ServedInv
<1> QED
  BY <1>1, <1>2, <1>3, <1>4, <1>5, <1>6, <1>7

-----------------------------------------------------------------------------
(* The client, step by step. *)

\* Steps that leave the ranks, which have no job, and the job's files alone.
LEMMA AsideRanks ==
  ASSUME JobsInv, WorkInv, UNCHANGED rank, pc # "idle" \/ Open,
         pc \notin {"write", "stream"} \/ call.id \in reported
  PROVE  /\ Quiescent /\ RanksFollow' /\ TrainsOnOwnRows'
         /\ \A r \in WorkerRanks : rank[r].pc \notin LoadedPcs
<1>1. Quiescent
  BY FollowFacts DEF WorkInv, Quiescent, Open
<1> QED
  BY <1>1, SameFollow DEF Quiescent, Resting, TrainsOnOwnRows, LoadedPcs

LEMMA StartWork ==
  ASSUME JobsInv, WorkInv, StartServer
  PROVE  WorkInv'
<1> USE DEF WorkInv
<1>0. /\ pc = "new" /\ latest' = LastStep
      /\ dirs' = dirs \cup {LastStep} /\ ckpt' = WithIdentity(LastStep)
      /\ UNCHANGED <<mode, calls, closing, shards, jobFile, reported, tensors, rank,
                     returned, restarts, kills>>
  BY DEF StartServer, fileVars, workerVars, historyVars
<1>m. IF mode = "merged"
      THEN /\ pc' = "ensure" /\ served' = {}
           /\ call' = [id |-> SyncId, kind |-> "sync", base |-> LastStep]
      ELSE pc' = "idle" /\ served' = ckpt'[LastStep] /\ UNCHANGED call
  BY DEF StartServer
<1>c. call = NoCall /\ Open
  BY <1>0 DEF CallInv
<1>s. /\ SyncId' = SyncId /\ LastStep' = LastStep /\ \A i : OverId(i)' = OverId(i)
      /\ LastStep \in DOMAIN ckpt' /\ dirs' # {}
  BY <1>0, IdentityFacts DEF SyncId, OverId
<1>1. JobFileInv'
  <2>1. jobFile.id = 0 /\ ~jobFile.whole
    BY <1>0 DEF JobFileInv, JobsInv, FileInv
  <2>2. call'.id \notin reported
    BY <1>0, <1>m, <1>c, IdsAreNat DEF JobFileInv, NoCall, JobsInv, FileInv
  <2> QED
    BY <1>0, <1>m, <1>s, <2>1, <2>2 DEF JobFileInv
<1>2. CallInv'
  BY <1>0, <1>m, <1>c, <1>s DEF CallInv, NoCall, Open, Shared
<1>3. RanksFollow' /\ TrainsOnOwnRows'
  BY <1>0, AsideRanks
<1>4. RowsInv'
  BY <1>3, <1>m, <1>c DEF RowsInv, NoCall
<1>5. SavedInv' /\ PushedInv'
  BY <1>m DEF SavedInv, PushedInv, MergesOwnShards
<1>6. StoredInv'
  <2>1. returned \subseteq ckpt'[LastStep]
    <3>1. CASE dirs = {}
      BY <3>1 DEF StoredInv
    <3>2. CASE dirs # {}
      BY <1>0, <3>2 DEF StoredInv, WithIdentity
    <3> QED BY <3>1, <3>2
  <2> QED
    BY <1>0, <1>m, <1>s, <2>1 DEF StoredInv
<1>7. ServedInv'
  BY <1>0, <1>m, <1>s DEF ServedInv
<1> QED
  BY <1>1, <1>2, <1>3, <1>4, <1>5, <1>6, <1>7

LEMMA BeginWork ==
  ASSUME JobsInv, WorkInv, NEW k \in {"rl", "sft"}, BeginCall(k)
  PROVE  WorkInv'
<1> USE DEF WorkInv
<1>0. /\ pc = "idle" /\ Open /\ calls < MaxCalls
      /\ pc' = IF k = "rl" THEN "pack" ELSE IF Shared THEN "ensure" ELSE "refuse"
      /\ call' = [id |-> calls + 1, kind |-> k, base |-> 0] /\ calls' = calls + 1
      /\ UNCHANGED <<mode, latest, closing, dirs, ckpt, shards, jobFile, reported,
                     tensors, rank, vllm, served, returned, restarts, kills>>
  BY DEF BeginCall, checkpointVars, fileVars, workerVars, servingVars, historyVars
<1>s. SyncId' = SyncId /\ LastStep' = LastStep /\ calls \in Nat
  BY <1>0, JobsAssumption DEF SyncId, LastStep, JobsInv, ClientInv
<1>1. JobFileInv'
  <2>1. jobFile.id = 0 /\ ~jobFile.whole
    BY <1>0 DEF JobFileInv, JobsInv, FileInv
  <2>2. \A i \in reported : OverId(i)' /\ i # calls + 1
    <3>1. ASSUME NEW i \in reported PROVE OverId(i)' /\ i # calls + 1
      <4>1. OverId(i) /\ i \in Nat
        BY IdsAreNat DEF JobFileInv, JobsInv, FileInv
      <4> QED
        BY <1>0, <1>s, <4>1, JobsAssumption DEF OverId
    <3> QED BY <3>1
  <2> QED
    BY <1>0, <2>1, <2>2 DEF JobFileInv
<1>2. CallInv'
  BY <1>0, <1>s DEF CallInv, Open, Shared
<1>3. RanksFollow' /\ TrainsOnOwnRows'
  BY <1>0, AsideRanks
<1>4. RowsInv'
  <2>1. jobFile.id = 0
    BY <1>0 DEF JobFileInv
  <2> QED
    BY <1>0, <1>3, <2>1 DEF RowsInv
<1>5. SavedInv' /\ PushedInv'
  BY <1>0 DEF SavedInv, PushedInv, MergesOwnShards
<1>6. StoredInv'
  BY <1>0, <1>s DEF StoredInv
<1>7. ServedInv'
  BY <1>0, <1>s DEF ServedInv, Open
<1> QED
  BY <1>1, <1>2, <1>3, <1>4, <1>5, <1>6, <1>7

\* A call up to its job, and vLLM's waking, change neither what is stored nor
\* what is served.
Early == RowsPacked \/ WorkerRuns \/ WorkerSpawned \/ Slept \/ TakeWakeLock \/ Awoken

LEMMA EarlyWork ==
  ASSUME JobsInv, WorkInv, Early
  PROVE  WorkInv'
<1> USE DEF WorkInv
<1>0. /\ UNCHANGED <<mode, call, calls, latest, closing, dirs, ckpt, shards, jobFile,
                     reported, served, returned, restarts, kills>>
      /\ <<pc, pc'>> \in {<<"pack", "ensure">>, <<"ensure", "spawn">>,
                          <<"ensure", AfterEnsure>>, <<"spawn", AfterEnsure>>,
                          <<"sleep", "prepare">>, <<"lock", "wake">>, <<"wake", "load">>}
      /\ pc = "sleep" => vllm' = "asleep"
      /\ pc # "pack" => UNCHANGED tensors
      /\ pc = "pack" => tensors' = call.id
      /\ pc \notin {"sleep", "wake"} => UNCHANGED vllm
      /\ pc \in {"sleep", "wake"} => Open
      /\ UNCHANGED rank \/ rank' = AllRanksAt("start")
  BY DEF Early, RowsPacked, WorkerRuns, WorkerSpawned, Slept, TakeWakeLock, Awoken,
         checkpointVars, fileVars, workerVars, servingVars, historyVars
<1>a. /\ \/ AfterEnsure = "transfer" /\ call.kind = "sync"
         \/ AfterEnsure = "sleep" /\ Shared
         \/ AfterEnsure = "prepare" /\ ~Shared
      /\ AfterEnsure # "transfer" => call.kind # "sync"
  BY DEF AfterEnsure
<1>s. /\ SyncId' = SyncId /\ LastStep' = LastStep /\ Target' = Target
      /\ \A i : OverId(i)' = OverId(i)
  BY <1>0 DEF SyncId, LastStep, OverId, Target
<1>1. JobFileInv'
  BY <1>0, <1>a, <1>s DEF JobFileInv
<1>2. CallInv'
  <2>1. CASE pc = "pack"
    BY <1>0, <1>a, <1>s, <2>1 DEF CallInv, Open, Shared
  <2>2. CASE pc \in {"ensure", "spawn"}
    <3>1. CASE pc' = "spawn"
      BY <1>0, <1>s, <2>2, <3>1 DEF CallInv, Open, Shared
    <3>2. CASE pc' = "transfer"
      BY <1>0, <1>a, <1>s, <2>2, <3>2 DEF CallInv, Open, Shared
    <3>3. CASE pc' = "sleep"
      BY <1>0, <1>a, <1>s, <2>2, <3>3 DEF CallInv, Open, Shared
    <3>4. CASE pc' = "prepare"
      BY <1>0, <1>a, <1>s, <2>2, <3>4 DEF CallInv, Open, Shared
    <3> QED BY <1>0, <1>a, <2>2, <3>1, <3>2, <3>3, <3>4
  <2>3. CASE pc \in {"sleep", "lock", "wake"}
    BY <1>0, <1>a, <1>s, <2>3 DEF CallInv, Open, Shared
  <2> QED BY <1>0, <2>1, <2>2, <2>3
<1>3. RanksFollow' /\ TrainsOnOwnRows'
  <2>1. CASE UNCHANGED rank
    BY <1>0, <1>a, <2>1, AsideRanks
  <2>2. CASE rank' = AllRanksAt("start")
    BY <2>2, RestFollow DEF TrainsOnOwnRows, AllRanksAt, RankAt
  <2> QED BY <1>0, <2>1, <2>2
<1>4. RowsInv'
  <2>1. jobFile.id = 0
    BY <1>0, <1>a DEF JobFileInv
  <2> QED
    BY <1>0, <1>a, <1>3, <2>1 DEF RowsInv
<1>5. SavedInv' /\ PushedInv'
  BY <1>0, <1>a DEF SavedInv, PushedInv, MergesOwnShards
<1>6. StoredInv'
  <2>1. pc \in {"lock", "wake"} => Shared
    BY DEF CallInv
  <2> QED
    BY <1>0, <1>a, <1>s, <2>1 DEF StoredInv, Shared
<1>7. ServedInv'
  <2>1. pc' = "load" => call.kind # "skip"
    BY <1>0, <1>a DEF CallInv
  <2> QED
    BY <1>0, <1>a, <1>s, <2>1 DEF ServedInv, Open
<1> QED
  BY <1>1, <1>2, <1>3, <1>4, <1>5, <1>6, <1>7

LEMMA NothingWork ==
  ASSUME JobsInv, WorkInv, NothingToTrain
  PROVE  WorkInv'
<1> USE DEF WorkInv
<1>0. /\ pc = "pack" /\ pc' = "mkdir" /\ Open
      /\ call' = [call EXCEPT !.kind = "skip", !.base = LastStep]
      /\ UNCHANGED <<mode, calls, latest, closing, dirs, ckpt, shards, jobFile, reported,
                     tensors, rank, vllm, served, returned, restarts, kills>>
  BY DEF NothingToTrain, CallInv, checkpointVars, fileVars, workerVars, servingVars,
         historyVars
<1>c. call'.kind = "skip" /\ call'.base = LastStep /\ call'.id = call.id
  BY <1>0 DEF JobsInv, ClientInv
<1>s. /\ SyncId' = SyncId /\ LastStep' = LastStep /\ \A i : OverId(i)' = OverId(i)
  BY <1>0 DEF SyncId, LastStep, OverId
<1>1. JobFileInv'
  BY <1>0, <1>c, <1>s DEF JobFileInv
<1>2. CallInv'
  BY <1>0, <1>c, <1>s DEF CallInv, Open, Shared
<1>3. RanksFollow' /\ TrainsOnOwnRows'
  BY <1>0, AsideRanks
<1>4. RowsInv'
  BY <1>3, <1>c DEF RowsInv
<1>5. SavedInv' /\ PushedInv'
  BY <1>0, <1>c DEF SavedInv, PushedInv, MergesOwnShards, MergesIntoTarget
<1>6. StoredInv'
  BY <1>0, <1>c, <1>s DEF StoredInv, Shared
<1>7. ServedInv'
  <2>1. latest <= LastStep
    BY <1>0 DEF JobsInv, StepsInv
  <2> QED
    BY <1>0, <1>c, <1>s, <2>1 DEF ServedInv
<1> QED
  BY <1>1, <1>2, <1>3, <1>4, <1>5, <1>6, <1>7

LEMMA PrepareWork ==
  ASSUME JobsInv, WorkInv, Prepare
  PROVE  WorkInv'
<1> USE DEF WorkInv
<1>0. /\ pc \in {"prepare", "transfer"} /\ pc' = "open"
      /\ call' = [call EXCEPT !.base = LastStep]
      /\ dirs' = dirs \cup {LastStep} /\ ckpt' = WithIdentity(LastStep)
      /\ latest' = (IF Shared THEN latest ELSE LastStep) /\ jobFile' = NoJob
      /\ UNCHANGED <<mode, calls, closing, reported, tensors, rank, vllm, served,
                     returned, restarts, kills>>
  BY DEF Prepare, workerVars, servingVars, historyVars
<1>c. call'.kind = call.kind /\ call'.base = LastStep /\ call'.id = call.id
  BY <1>0 DEF JobsInv, ClientInv
<1>s. /\ SyncId' = SyncId /\ LastStep' = LastStep /\ \A i : OverId(i)' = OverId(i)
  BY <1>0, IdentityFacts DEF SyncId, OverId
<1>k. ckpt' = ckpt /\ dirs # {} /\ dirs' # {} /\ LastStep \in DOMAIN ckpt
  BY <1>0 DEF StoredInv, WithIdentity
<1>1. JobFileInv'
  BY <1>0, <1>c, <1>s DEF JobFileInv, NoJob
<1>2. CallInv'
  BY <1>0, <1>c, <1>s DEF CallInv, Open, Shared
<1>3. RanksFollow' /\ TrainsOnOwnRows'
  BY <1>0, AsideRanks
<1>4. RowsInv'
  <2>1. pc = "transfer" => call.kind # "rl"
    BY DEF CallInv
  <2> QED
    BY <1>0, <1>c, <1>3, <2>1 DEF RowsInv
<1>5. SavedInv' /\ PushedInv'
  BY <1>0 DEF SavedInv, PushedInv, MergesOwnShards
<1>6. StoredInv'
  BY <1>0, <1>c, <1>s, <1>k DEF StoredInv, Shared
<1>7. ServedInv'
  BY <1>0 DEF ServedInv
<1> QED
  BY <1>1, <1>2, <1>3, <1>4, <1>5, <1>6, <1>7

\* Writing the job, which the ranks may see half written.
LEMMA WriteWork ==
  ASSUME JobsInv, WorkInv, OpenJobFile \/ WriteJobFile
  PROVE  WorkInv'
<1> USE DEF WorkInv
<1>0. /\ UNCHANGED <<mode, call, calls, latest, closing, dirs, ckpt, shards, reported,
                     tensors, rank, vllm, served, returned, restarts, kills>>
      /\ <<pc, pc'>> \in {<<"open", "write">>, <<"write", "stream">>}
  BY DEF OpenJobFile, WriteJobFile, checkpointVars, workerVars, servingVars, historyVars
<1>j. /\ pc = "open" => jobFile' = [id |-> call.id, kind |-> call.kind,
                                    base |-> call.base, whole |-> FALSE]
      /\ pc = "write" => /\ jobFile'.id = jobFile.id /\ jobFile'.kind = jobFile.kind
                         /\ jobFile'.base = jobFile.base
  BY DEF OpenJobFile, WriteJobFile, JobsInv, FileInv
<1>s. /\ SyncId' = SyncId /\ LastStep' = LastStep /\ \A i : OverId(i)' = OverId(i)
      /\ Trained' = Trained
  BY <1>0 DEF SyncId, LastStep, OverId, Trained
<1>1. JobFileInv'
  BY <1>0, <1>j, <1>s DEF JobFileInv
<1>2. CallInv'
  BY <1>0, <1>s DEF CallInv, Open, Shared
<1>l. \A r \in WorkerRanks : rank[r].pc \notin LoadedPcs
  <2>1. ASSUME NEW r \in WorkerRanks PROVE rank[r].pc \notin LoadedPcs
    BY <1>0, FollowFacts DEF Resting, LoadedPcs
  <2> QED BY <2>1
<1>3. RanksFollow'
  <2>1. ASSUME NEW r \in WorkerRanks PROVE Follows(r)'
    <3>1. Follows(r) /\ rank[r].pc \notin LoadedPcs
      BY <1>l, AllFollow
    <3> QED
      BY <1>0, <1>s, <3>1 DEF Follows, EndPcs, LoadedPcs
  <2> QED BY <2>1, AllFollowNext
<1>4. RowsInv'
  <2>1. TrainsOnOwnRows'
    BY <1>0, <1>l DEF TrainsOnOwnRows, LoadedPcs
  <2> QED
    BY <1>0, <1>j, <2>1 DEF RowsInv
<1>e. pc' = "stream" => ~JobEnding'
  BY <1>0, <1>l, ZeroIsRank DEF JobEnding, JobFileInv, EndPcs, LoadedPcs
<1>5. SavedInv'
  BY <1>0, <1>l, <1>e DEF SavedInv, MergesOwnShards, LoadedPcs
<1>6. PushedInv'
  BY <1>0, <1>l, <1>e DEF PushedInv, LoadedPcs
<1>7. StoredInv'
  BY <1>0, <1>s DEF StoredInv, Shared
<1>8. ServedInv'
  BY <1>0 DEF ServedInv
<1> QED
  BY <1>1, <1>2, <1>3, <1>4, <1>5, <1>6, <1>7, <1>8

LEMMA DoneWork ==
  ASSUME JobsInv, WorkInv, StreamSeesDone
  PROVE  WorkInv'
<1> USE DEF WorkInv
<1>0. /\ pc = "stream" /\ call.id \in reported /\ reported' = reported \ {call.id}
      /\ jobFile' = NoJob
      /\ pc' = (IF call.kind = "sync" THEN "idle" ELSE IF Shared THEN "merge" ELSE "mkdir")
      /\ call' = (IF call.kind = "sync" THEN NoCall ELSE call)
      /\ UNCHANGED <<mode, calls, latest, closing, dirs, ckpt, shards, tensors, rank, vllm,
                     served, returned, restarts, kills>>
  BY DEF StreamSeesDone, checkpointVars, workerVars, servingVars, historyVars
<1>s. /\ SyncId' = SyncId /\ LastStep' = LastStep /\ \A i : OverId(i)' = OverId(i)
      /\ call.kind # "sync" => Trained' = Trained
  BY <1>0 DEF SyncId, LastStep, OverId, Trained
<1>1. JobFileInv'
  BY <1>0, <1>s, IdsAreNat DEF JobFileInv, NoJob, NoCall, JobsInv, FileInv
<1>2. CallInv'
  BY <1>0, <1>s DEF CallInv, NoCall, Open, Shared
<1>3. RanksFollow' /\ TrainsOnOwnRows'
  BY <1>0, AsideRanks
<1>4. RowsInv'
  BY <1>0, <1>3 DEF RowsInv, NoJob
<1>e. JobEnding
  BY <1>0 DEF JobEnding
<1>5. SavedInv'
  <2>1. CASE call.kind = "sync"
    BY <1>0, <2>1 DEF SavedInv, MergesOwnShards
  <2>2. CASE call.kind # "sync"
    <3>1. \A r \in WorkerRanks : r \in DOMAIN shards /\ shards[r] = Trained
      BY <1>0, <1>e, <2>2 DEF SavedInv
    <3>2. DOMAIN shards = WorkerRanks
      BY <3>1 DEF JobsInv, ShardsInv
    <3> QED
      BY <1>0, <1>s, <2>2, <3>1, <3>2 DEF SavedInv, MergesOwnShards, ShardsThere
  <2> QED BY <2>1, <2>2
<1>6. PushedInv'
  BY <1>0, <1>s, <1>e, ZeroIsRank DEF PushedInv
<1>7. StoredInv'
  BY <1>0, <1>s DEF StoredInv, Shared
<1>8. ServedInv'
  <2>1. CASE call.kind = "sync"
    <3>1. mode = "merged" /\ served = ckpt[call.base]
      BY <1>0, <1>e, <2>1, ZeroIsRank DEF CallInv, PushedInv
    <3>2. latest = call.base /\ call.base = LastStep
      BY <1>0, <2>1, <3>1 DEF StoredInv, Shared
    <3> QED
      BY <1>0, <1>s, <2>1, <3>1, <3>2 DEF ServedInv
  <2>2. CASE call.kind # "sync"
    <3>1. call.kind # "skip"
      BY <1>0 DEF CallInv
    <3> QED
      BY <1>0, <2>2, <3>1 DEF ServedInv
  <2> QED BY <2>1, <2>2
<1> QED
  BY <1>1, <1>2, <1>3, <1>4, <1>5, <1>6, <1>7, <1>8

LEMMA MergeWork ==
  ASSUME JobsInv, WorkInv, MergeInPlace
  PROVE  WorkInv'
<1> USE DEF WorkInv
<1>0. /\ pc = "merge" /\ pc' = "mkdir" /\ ckpt' = Put(ckpt, call.base, shards[0])
      /\ UNCHANGED <<mode, call, calls, latest, closing, dirs, jobFile, reported, tensors,
                     rank, vllm, served, returned, restarts, kills>>
  BY DEF MergeInPlace, fileVars, workerVars, servingVars, historyVars
<1>c. Shared /\ call.kind \notin {"sync", "skip"} /\ mode # "merged"
  BY <1>0 DEF CallInv, Shared
<1>s. /\ SyncId' = SyncId /\ LastStep' = LastStep /\ \A i : OverId(i)' = OverId(i)
  BY <1>0 DEF SyncId, LastStep, OverId
<1>k. /\ call.base = LastStep /\ LastStep \in DOMAIN ckpt /\ shards[0] = Trained
      /\ DOMAIN ckpt' = DOMAIN ckpt /\ ckpt'[LastStep] = Trained
  BY <1>0, ZeroIsRank DEF StoredInv, SavedInv, MergesOwnShards, Put
<1>1. JobFileInv'
  BY <1>0, <1>s DEF JobFileInv
<1>2. CallInv'
  BY <1>0, <1>s, <1>c DEF CallInv, Open, Shared
<1>3. RanksFollow' /\ TrainsOnOwnRows'
  BY <1>0, AsideRanks
<1>4. RowsInv'
  BY <1>0, <1>3 DEF RowsInv
<1>5. SavedInv' /\ PushedInv'
  BY <1>0, <1>c DEF SavedInv, PushedInv, MergesOwnShards, MergesIntoTarget, Shared
<1>6. StoredInv'
  BY <1>0, <1>s, <1>c, <1>k DEF StoredInv, Shared, Trained
<1>7. ServedInv'
  BY <1>0, <1>c DEF ServedInv
<1> QED
  BY <1>1, <1>2, <1>3, <1>4, <1>5, <1>6, <1>7

LEMMA MakeDirWork ==
  ASSUME JobsInv, WorkInv, MakeTargetDir
  PROVE  WorkInv'
<1> USE DEF WorkInv
<1>0. /\ pc = "mkdir" /\ pc' = "fill" /\ dirs' = dirs \cup {Target}
      /\ UNCHANGED <<mode, call, calls, latest, closing, ckpt, shards, jobFile, reported,
                     tensors, rank, vllm, served, returned, restarts, kills>>
  BY DEF MakeTargetDir, fileVars, workerVars, servingVars, historyVars
<1>s. /\ SyncId' = SyncId /\ Target' = Target /\ Trained' = Trained
      /\ \A i : OverId(i)' = OverId(i)
  BY <1>0 DEF SyncId, Target, Trained, OverId
<1>k. /\ call.base = LastStep /\ dirs = 0..LastStep /\ LastStep \in Nat /\ dirs # {}
      /\ Target \in 0..(LastStep + 1)
  BY <1>0 DEF StoredInv, JobsInv, StepsInv, ClientInv, Target
<1>l. LastStep' \in {call.base, Target} /\ dirs' # {}
  <2>1. CASE Target \in dirs
    <3>1. dirs' = 0..LastStep
      BY <1>0, <1>k, <2>1
    <3> QED BY <1>k, <3>1, LastOfNext
  <2>2. CASE Target \notin dirs
    <3>1. Target = LastStep + 1 /\ dirs' = 0..Target /\ Target \in Nat
      BY <1>0, <1>k, <2>2
    <3> QED BY <3>1, LastOfNext
  <2> QED BY <2>1, <2>2
<1>1. JobFileInv'
  BY <1>0, <1>s DEF JobFileInv
<1>2. CallInv'
  BY <1>0, <1>s DEF CallInv, Open, Shared
<1>3. RanksFollow' /\ TrainsOnOwnRows'
  BY <1>0, AsideRanks
<1>4. RowsInv'
  BY <1>0, <1>3 DEF RowsInv
<1>5. SavedInv' /\ PushedInv'
  BY <1>0, <1>s DEF SavedInv, PushedInv, MergesOwnShards, MergesIntoTarget, Shared,
     ShardsThere
<1>6. StoredInv'
  BY <1>0, <1>s, <1>k, <1>l DEF StoredInv, Shared
<1>7. ServedInv'
  BY <1>0, <1>s DEF ServedInv
<1> QED
  BY <1>1, <1>2, <1>3, <1>4, <1>5, <1>6, <1>7

LEMMA FillWork ==
  ASSUME JobsInv, WorkInv, FillTargetDir
  PROVE  WorkInv'
<1> USE DEF WorkInv
<1>0. /\ pc = "fill" /\ Target # call.base
      /\ ckpt' = Put(ckpt, Target, IF MergesIntoTarget THEN shards[0] ELSE ckpt[call.base])
      /\ IF mode = "merged" /\ call.kind # "skip" THEN Publish
         ELSE /\ pc' = IF Shared /\ call.kind # "skip" THEN "lock" ELSE "load"
              /\ UNCHANGED <<call, latest, returned>>
      /\ UNCHANGED <<mode, calls, closing, dirs, jobFile, reported, tensors, rank, vllm,
                     served, restarts, kills>>
  BY DEF FillTargetDir, fileVars, workerVars, servingVars
<1>s. SyncId' = SyncId /\ LastStep' = LastStep /\ \A i : OverId(i)' = OverId(i)
  BY <1>0 DEF SyncId, LastStep, OverId
<1>p. /\ pc' \in {"idle", "lock", "load"}
      /\ pc' = "idle" => call' = NoCall /\ mode = "merged" /\ call.kind # "skip"
      /\ pc' # "idle" => UNCHANGED <<call, latest, returned>>
      /\ pc' = "lock" => Shared /\ call.kind # "skip"
      /\ pc' = "load" => ~Shared \/ call.kind = "skip"
      /\ pc' = "load" /\ mode = "merged" => call.kind = "skip"
  BY <1>0 DEF Publish
<1>c. call.kind # "sync"
  BY <1>0 DEF CallInv
<1>k. /\ DOMAIN ckpt' = DOMAIN ckpt \cup {Target}
      /\ ckpt'[Target] = IF MergesIntoTarget THEN Trained ELSE ckpt[call.base]
      /\ \A s \in DOMAIN ckpt \ {Target} : ckpt'[s] = ckpt[s]
      /\ call.base \in DOMAIN ckpt
  <2>1. MergesIntoTarget => shards[0] = Trained
    BY <1>0, ZeroIsRank DEF SavedInv, MergesOwnShards
  <2>2. call.base \in DOMAIN ckpt
    BY <1>0 DEF JobsInv, StepsInv, BasedPcs
  <2> QED
    BY <1>0, <2>1, <2>2 DEF Put
<1>b. /\ ckpt'[call.base] = ckpt[call.base] /\ call.base \in DOMAIN ckpt'
      /\ returned \subseteq ckpt[call.base]
  BY <1>0, <1>k DEF StoredInv
\* A copy is of the last step or becomes it; what is merged becomes it.
<1>l. ckpt'[LastStep] = ckpt'[Target] /\ LastStep \in DOMAIN ckpt'
  <2>1. CASE MergesIntoTarget \/ call.kind = "skip"
    <3>1. Target = call.base + 1 /\ Target \in dirs /\ call.base \in Nat
      BY <1>0, <2>1 DEF Target, MergesIntoTarget, StoredInv, JobsInv, StepsInv, ClientInv
    <3>2. LastStep = Target
      BY <1>0, <3>1 DEF StoredInv, JobsInv, StepsInv
    <3> QED BY <1>k, <3>2
  <2>2. CASE ~MergesIntoTarget
    BY <1>0, <1>k, <1>b, <2>2 DEF StoredInv
  <2> QED BY <2>1, <2>2
<1>i. call.kind # "skip" => call.id \in ckpt'[Target]
  BY <1>0, <1>k DEF MergesIntoTarget, Trained, StoredInv
<1>r. returned \subseteq ckpt'[LastStep]
  BY <1>k, <1>b, <1>l DEF Trained
<1>1. JobFileInv'
  BY <1>0, <1>s, <1>p, IdsAreNat DEF JobFileInv, NoCall, JobsInv, FileInv
<1>2. CallInv'
  BY <1>0, <1>s, <1>p, <1>c DEF CallInv, NoCall, Open, Shared
<1>3. RanksFollow' /\ TrainsOnOwnRows'
  BY <1>0, AsideRanks
<1>4. RowsInv'
  BY <1>0, <1>3, <1>p DEF RowsInv, NoCall
<1>5. SavedInv' /\ PushedInv'
  BY <1>p DEF SavedInv, PushedInv, MergesOwnShards
<1>t. pc' # "idle" => Target' = Target
  BY <1>0, <1>p DEF Target
<1>6. StoredInv'
  <2>1. CASE pc' = "idle"
    <3>1. returned' = returned \cup {call.id}
      BY <1>0, <1>p, <2>1 DEF Publish
    <3> QED
      BY <1>0, <1>s, <1>l, <1>i, <1>r, <1>p, <2>1, <3>1 DEF StoredInv
  <2>2. CASE pc' # "idle"
    <3>1. UNCHANGED <<call, latest, returned>> /\ pc' \in {"lock", "load"}
      BY <1>0, <1>p, <2>2 DEF Publish
    <3> QED
      BY <1>0, <1>s, <1>l, <1>i, <1>r, <1>t, <2>2, <3>1 DEF StoredInv, Shared
  <2> QED BY <2>1, <2>2
<1>7. ServedInv'
  <2>1. CASE pc' = "idle"
    <3>1. /\ latest' = Target /\ call.kind # "skip" /\ mode = "merged" /\ MergesIntoTarget
      BY <1>0, <1>p, <2>1 DEF Publish, MergesIntoTarget, Shared
    <3>2. served = Trained
      BY <1>0, <3>1 DEF PushedInv
    <3> QED
      BY <1>0, <1>s, <1>k, <1>l, <2>1, <3>1, <3>2 DEF ServedInv
  <2>2. CASE pc' # "idle" /\ call.kind = "skip"
    <3>1. UNCHANGED <<call, latest>> /\ ~MergesIntoTarget
      BY <1>0, <1>p, <2>2 DEF Publish, MergesIntoTarget
    <3>2. /\ latest \in DOMAIN ckpt /\ latest # Target /\ latest <= call.base
          /\ served = ckpt[latest] /\ ckpt[latest] = ckpt[call.base]
      BY <1>0, <2>2 DEF ServedInv, JobsInv, StepsInv, ClientInv, Target
    <3>3. ckpt'[latest] = ckpt[latest]
      BY <1>k, <3>2
    <3> QED
      BY <1>0, <1>k, <1>b, <1>p, <1>t, <2>2, <3>1, <3>2, <3>3 DEF ServedInv
  <2>3. CASE pc' # "idle" /\ call.kind # "skip"
    BY <1>p, <2>3 DEF ServedInv
  <2> QED BY <2>1, <2>2, <2>3
<1> QED
  BY <1>1, <1>2, <1>3, <1>4, <1>5, <1>6, <1>7

LEMMA LoadedWork ==
  ASSUME JobsInv, WorkInv, AdapterLoaded
  PROVE  WorkInv'
<1> USE DEF WorkInv
<1>0. /\ pc = "load" /\ pc' = "idle" /\ call' = NoCall /\ latest' = Target
      /\ returned' = (IF call.kind = "skip" THEN returned ELSE returned \cup {call.id})
      /\ served' = (IF mode = "merged" THEN served ELSE ckpt[Target])
      /\ UNCHANGED <<mode, calls, closing, dirs, ckpt, jobFile, reported, tensors, rank,
                     vllm, restarts, kills>>
  BY DEF AdapterLoaded, Publish, checkpointVars, fileVars, workerVars
<1>s. SyncId' = SyncId /\ LastStep' = LastStep /\ \A i : OverId(i)' = OverId(i)
  BY <1>0 DEF SyncId, LastStep, OverId
<1>1. JobFileInv'
  BY <1>0, <1>s, IdsAreNat DEF JobFileInv, NoCall, JobsInv, FileInv
<1>2. CallInv'
  BY <1>0 DEF CallInv, NoCall
<1>3. RanksFollow' /\ TrainsOnOwnRows'
  BY <1>0, AsideRanks
<1>4. RowsInv'
  BY <1>0, <1>3 DEF RowsInv, NoCall
<1>5. SavedInv' /\ PushedInv'
  BY <1>0 DEF SavedInv, PushedInv, MergesOwnShards
<1>6. StoredInv'
  BY <1>0, <1>s DEF StoredInv
<1>7. ServedInv'
  <2>1. ckpt[LastStep] = ckpt[Target]
    BY <1>0 DEF StoredInv
  <2>2. mode = "merged" => served = ckpt[Target]
    BY <1>0 DEF CallInv, ServedInv
  <2> QED
    BY <1>0, <1>s, <2>1, <2>2 DEF ServedInv
<1> QED
  BY <1>1, <1>2, <1>3, <1>4, <1>5, <1>6, <1>7

-----------------------------------------------------------------------------
(* Without kills, the invariant holds. *)

LEMMA InitWork == JobsInit => WorkInv
<1> SUFFICES ASSUME JobsInit PROVE WorkInv
  OBVIOUS
<1> USE DEF JobsInit
<1>1. \A r \in WorkerRanks : rank[r].pc = "barrier"
  BY DEF AllRanksAt, RankAt
<1>2. JobFileInv /\ CallInv
  BY DEF JobFileInv, CallInv, NoJob, NoCall, Open
<1>3. RanksFollow /\ RowsInv
  BY <1>1 DEF RanksFollow, Quiescent, Resting, LoadedPcs, EndPcs, RowsInv,
     TrainsOnOwnRows, NoJob
<1>4. SavedInv /\ PushedInv /\ StoredInv /\ ServedInv
  BY DEF SavedInv, PushedInv, StoredInv, ServedInv, MergesOwnShards
<1> QED
  BY <1>2, <1>3, <1>4 DEF WorkInv

LEMMA StepWork ==
  ASSUME JobsInv, WorkInv, JobsNext, ~Kill
  PROVE  WorkInv'
<1>1. CASE WorkerStep \/ RanksRun \/ WorkerDies
  BY <1>1, WorkerWork DEF WorkerAction
<1>2. CASE Raises
  BY <1>2, RaiseWork
<1>3. CASE ServiceCloses \/ Restart
  BY <1>3, ClosesWork, RestartWork
<1>4. CASE StartServer \/ BeginCall("rl") \/ BeginCall("sft")
  BY <1>4, StartWork, BeginWork
<1>5. CASE Packs \/ (CallStep /\ ~Raises)
  BY <1>5, EarlyWork, NothingWork, PrepareWork, WriteWork, DoneWork, MergeWork,
     MakeDirWork, FillWork, LoadedWork DEF Packs, CallStep, Raises, Early
<1> QED
  BY <1>1, <1>2, <1>3, <1>4, <1>5 DEF JobsNext, Fault, Raises, ServiceCloses

\* In shared mode ranks build the model only between the spawn of their worker
\* and the end of the job it was spawned for, unless the service is closed
\* meanwhile; ranks that have built it wait for the others.
BuildingInv ==
  \A r \in WorkerRanks : rank[r].pc = "start" =>
    /\ Shared => \/ closing \/ pc \in {"sleep", "prepare", "open", "write"}
                 \/ pc = "stream" /\ call.id \notin reported
    /\ \A q \in WorkerRanks : rank[q].pc \in {"start", "barrier"}

LEMMA NoStart ==
  ASSUME \A r \in WorkerRanks : rank'[r].pc # "start"
  PROVE  BuildingInv'
  BY DEF BuildingInv

\* Ranks that start are only joined, by ranks that have started.
LEMMA WorkerStart ==
  ASSUME JobsInv, WorkInv, BuildingInv, WorkerAction
  PROVE  BuildingInv'
<1>0. UNCHANGED <<mode, pc, call, closing>>
  BY WorkerClient
<1>t. rank \in [WorkerRanks -> [pc : RankPcs, id : CallIds \cup {0}, kind : Kinds, base : Nat]]
  BY DEF JobsInv, RankInv
<1>1. CASE \E r \in WorkerRanks : rank[r].pc = "start"
  <2>1. PICK s \in WorkerRanks : rank[s].pc = "start"
    BY <1>1
  <2>2. \A q \in WorkerRanks : rank[q].pc \in {"start", "barrier"}
    BY <2>1 DEF BuildingInv
  <2>3. CASE WorkerExits
    BY <2>3, NoStart DEF WorkerExits, AllRanksAt, RankAt
  <2>4. ASSUME NEW q \in WorkerRanks, RankStarts(q) PROVE BuildingInv'
    <3>1. /\ \A r \in WorkerRanks : rank'[r].pc = IF r = q THEN "barrier" ELSE rank[r].pc
          /\ UNCHANGED reported
      BY <1>t, <2>4 DEF RankStarts, MoveRank, fileVars
    <3> QED
      BY <1>0, <2>2, <3>1 DEF BuildingInv, Shared
  <2>5. WorkerExits \/ \E q \in WorkerRanks : RankStarts(q)
    BY <2>1, <2>2, ZeroIsRank
       DEF WorkerAction, WorkerStep, RankStep, RanksRun, WorkerDies, LoopBarrier,
           RanksPush, FinalizeBarrier, RemoveJobFile, RemoveRows, ReportDone,
           CollectiveTimesOut, RankLooks, RankReady, RankLoads, RankSaves,
           RankOffloads, RanksAt, Rank0At
  <2> QED BY <2>3, <2>4, <2>5
<1>2. CASE \A r \in WorkerRanks : rank[r].pc # "start"
  <2>1. CASE WorkerExits \/ LoopBarrier
    BY <2>1, NoStart DEF WorkerExits, LoopBarrier, AllRanksAt, RankAt
  <2>2. ASSUME NEW q \in WorkerRanks, RankStep(q) PROVE BuildingInv'
    <3>1. CASE rank' = AllRanksAt("barrier")
      BY <3>1, NoStart DEF AllRanksAt, RankAt
    <3>2. CASE rank' # AllRanksAt("barrier")
      <4>1. rank' = [rank EXCEPT ![q] = rank'[q]] /\ rank'[q].pc # "start"
        BY <2>2, <3>2, RankMoves DEF RankSteps
      <4>2. \A r \in WorkerRanks : rank'[r].pc # "start"
        BY <1>t, <1>2, <4>1
      <4> QED BY <4>2, NoStart
    <3> QED BY <3>1, <3>2
  <2>3. CASE RanksRun \/ RanksPush \/ FinalizeBarrier
    <3>1. \A r \in WorkerRanks : rank'[r].pc # "start"
      BY <1>t, <2>3, ZeroIsRank
         DEF RanksRun, RanksPush, MoveRanks, FinalizeBarrier, RankAt
    <3> QED BY <3>1, NoStart
  <2>4. CASE RemoveJobFile \/ RemoveRows \/ ReportDone
    <3>1. \A r \in WorkerRanks : rank'[r].pc # "start"
      BY <1>t, <1>2, <2>4, ZeroIsRank
         DEF RemoveJobFile, RemoveRows, ReportDone, Rank0At, Rank0Goes, After, RankAt
    <3> QED BY <3>1, NoStart
  <2> QED
    BY <2>1, <2>2, <2>3, <2>4
       DEF WorkerAction, WorkerStep, WorkerDies, CollectiveTimesOut
<1> QED BY <1>1, <1>2

\* The client spawns a worker before a job, and goes on after it only with
\* ranks that have done the job.
LEMMA ClientStart ==
  ASSUME JobsInv, WorkInv, BuildingInv, Packs \/ (CallStep /\ ~Raises)
  PROVE  BuildingInv'
<1> USE DEF WorkInv
<1>1. CASE WorkerSpawned
  <2>1. rank' = AllRanksAt("start") /\ pc' = AfterEnsure /\ UNCHANGED <<mode, call>>
    BY <1>1 DEF WorkerSpawned
  <2>2. Shared => pc' = "sleep"
    BY <1>1, <2>1 DEF WorkerSpawned, AfterEnsure, CallInv, Shared
  <2> QED
    BY <2>1, <2>2 DEF BuildingInv, AllRanksAt, RankAt, Shared
<1>2. CASE ~WorkerSpawned
  <2>1. UNCHANGED <<mode, closing, rank>>
    BY <1>2 DEF Packs, CallStep, Raises, RowsPacked, NothingToTrain, WorkerRuns, Slept,
       Prepare, OpenJobFile, WriteJobFile, StreamSeesDone, MergeInPlace, MakeTargetDir,
       FillTargetDir, TakeWakeLock, Awoken, AdapterLoaded, workerVars
  <2>2. \/ <<pc, pc'>> \in {<<"sleep", "prepare">>, <<"prepare", "open">>,
                            <<"transfer", "open">>, <<"open", "write">>,
                            <<"write", "stream">>} /\ UNCHANGED reported /\ call'.id = call.id
        \/ pc \notin {"sleep", "prepare", "open", "write", "stream", "transfer"}
        \/ pc = "stream" /\ call.id \in reported
    BY <1>2 DEF Packs, CallStep, Raises, RowsPacked, NothingToTrain, WorkerRuns, Slept,
       Prepare, OpenJobFile, WriteJobFile, StreamSeesDone, MergeInPlace, MakeTargetDir,
       FillTargetDir, TakeWakeLock, Awoken, AdapterLoaded, fileVars, JobsInv, ClientInv
  <2>3. pc = "write" => call.id \notin reported
    BY DEF JobFileInv
  <2> QED
    BY <2>1, <2>2, <2>3 DEF BuildingInv, Shared
<1> QED BY <1>1, <1>2

LEMMA StepStart ==
  ASSUME JobsInv, WorkInv, BuildingInv, JobsNext, ~Kill
  PROVE  BuildingInv'
<1>1. CASE WorkerStep \/ RanksRun \/ WorkerDies
  BY <1>1, WorkerStart DEF WorkerAction
<1>2. CASE Raises
  <2>1. CASE rank' = AllRanksAt("barrier")
    BY <2>1, NoStart DEF AllRanksAt, RankAt
  <2>2. CASE closing /\ UNCHANGED <<mode, closing, rank>>
    BY <2>2 DEF BuildingInv, Shared
  <2>3. CASE call.kind = "skip" /\ ~closing /\ UNCHANGED <<mode, rank>>
    <3>1. pc \in {"mkdir", "fill", "load"}
      BY <2>3 DEF WorkInv, CallInv
    <3> QED
      BY <2>3, <3>1 DEF BuildingInv, Shared
  <2> QED
    BY <1>2, <2>1, <2>2, <2>3, RaisesFacts DEF Raise, CloseEffects
<1>3. CASE ServiceCloses \/ Restart
  <2>1. rank' = AllRanksAt("barrier")
    BY <1>3 DEF ServiceCloses, SupervisorCloses, VllmExits, CloseEffects, Restart,
       FreshService
  <2> QED BY <2>1, NoStart DEF AllRanksAt, RankAt
<1>4. CASE StartServer \/ BeginCall("rl") \/ BeginCall("sft")
  <2>1. /\ UNCHANGED <<mode, closing, rank>> /\ pc \in {"new", "idle"}
    BY <1>4 DEF StartServer, BeginCall, workerVars
  <2> QED BY <2>1 DEF BuildingInv, Shared
<1>5. CASE Packs \/ (CallStep /\ ~Raises)
  BY <1>5, ClientStart
<1> QED
  BY <1>1, <1>2, <1>3, <1>4, <1>5 DEF JobsNext, Fault, Raises, ServiceCloses

WithoutKills == kills = 0 => WorkInv /\ BuildingInv

LEMMA WithoutKillsKept ==
  ASSUME JobsInv, WithoutKills, [JobsNext]_jobsVars
  PROVE  WithoutKills'
<1>1. CASE Kill
  <2>1. kills' = kills + 1 /\ kills \in Nat
    BY <1>1, JobsAssumption DEF Kill, JobsInv, ClientInv
  <2> QED
    BY <2>1 DEF WithoutKills
<1>2. CASE UNCHANGED jobsVars
  <2>1. UNCHANGED <<mode, pc, call, calls, latest, closing, dirs, ckpt, shards, jobFile,
                    reported, tensors, rank, vllm, served, returned, restarts, kills>>
    BY <1>2 DEF jobsVars, clientVars, checkpointVars, fileVars, workerVars, servingVars,
       historyVars
  <2>s. /\ SyncId' = SyncId /\ LastStep' = LastStep /\ Target' = Target
        /\ Trained' = Trained /\ MergesIntoTarget' = MergesIntoTarget
        /\ JobEnding' = JobEnding
    BY <2>1 DEF SyncId, LastStep, Target, Trained, MergesIntoTarget, Shared, JobEnding
  <2>2. JobFileInv' = JobFileInv /\ CallInv' = CallInv /\ RanksFollow' = RanksFollow
    BY <2>1, <2>s DEF JobFileInv, OverId, CallInv, RanksFollow, Quiescent, Open, Shared
  <2>3. RowsInv' = RowsInv /\ SavedInv' = SavedInv /\ PushedInv' = PushedInv
    BY <2>1, <2>s DEF RowsInv, TrainsOnOwnRows, SavedInv, MergesOwnShards, ShardsThere,
       PushedInv
  <2>4. StoredInv' = StoredInv /\ ServedInv' = ServedInv /\ BuildingInv' = BuildingInv
    BY <2>1, <2>s DEF StoredInv, ServedInv, BuildingInv, Open, Shared
  <2> QED
    BY <2>1, <2>2, <2>3, <2>4 DEF WithoutKills, WorkInv
<1>3. CASE JobsNext /\ ~Kill
  <2>1. UNCHANGED kills
    BY <1>3, WorkerFrame
       DEF JobsNext, Packs, CallStep, Fault, WorkerAction, StartServer, BeginCall,
           RowsPacked, NothingToTrain, WorkerRuns, WorkerSpawned, Slept, Prepare,
           OpenJobFile, WriteJobFile, StreamSeesDone, StreamRaises, MergeInPlace,
           MakeTargetDir, PublishRaises, FillTargetDir, TakeWakeLock, Awoken,
           AdapterLoaded, SftRefused, CallFails, CallRaises, Raise,
           SupervisorCloses, VllmExits, Restart, FreshService, historyVars
  <2> QED
    BY <1>3, <2>1, StepWork, StepStart DEF WithoutKills
<1> QED
  BY <1>1, <1>2, <1>3

LEMMA WithoutKillsAlways == JobsSpec => [](JobsInv /\ WithoutKills)
<1>0. JobsInit => BuildingInv
  BY DEF JobsInit, BuildingInv, AllRanksAt, RankAt
<1>1. JobsInit => JobsInv /\ WithoutKills
  BY <1>0, JobsInitInv, InitWork DEF WithoutKills
<1>2. JobsInv /\ WithoutKills /\ [JobsNext]_jobsVars => (JobsInv /\ WithoutKills)'
  BY JobsNextInv, WithoutKillsKept
<1> QED
  BY <1>1, <1>2, PTL DEF JobsSpec

\* In shared mode no rank has the model on the GPUs vLLM is awake on, but
\* those of a worker that the call has just spawned and that still build it,
\* before the same call puts vLLM to sleep; whatever fails, is closed and is
\* started again, as long as no service's process is killed.
THEOREM GpusAreExclusive == JobsSpec => [](kills = 0 => GpuExclusive)
<1>1. JobsInv /\ WithoutKills => (kills = 0 => GpuExclusive)
  <2>1. ASSUME WorkInv, BuildingInv, Shared, vllm = "awake", NEW r \in WorkerRanks, OnGpu(r)
        PROVE  rank[r].pc = "start" /\ pc = "sleep"
    <3>1. pc \notin {"prepare", "open", "write", "stream"} /\ ~closing
      BY <2>1 DEF WorkInv, CallInv
    <3>2. Resting(rank[r])
      BY <3>1, FollowFacts, <2>1 DEF WorkInv
    <3>3. rank[r].pc = "start"
      BY <2>1, <3>2 DEF OnGpu, Resting
    <3> QED
      BY <2>1, <3>1, <3>3 DEF BuildingInv
  <2> QED
    BY <2>1 DEF WithoutKills, GpuExclusive
<1> QED
  BY <1>1, WithoutKillsAlways, PTL

\* A rank that runs an RL job finds that job's rows in the one directory all
\* jobs use, whatever jobs failed before and left their ranks or rows behind, as
\* long as no service's process is killed.
THEOREM RowsAreOwn == JobsSpec => [](kills = 0 => TrainsOnOwnRows)
<1>1. JobsInv /\ WithoutKills => (kills = 0 => TrainsOnOwnRows)
  BY DEF WithoutKills, WorkInv, RowsInv
<1> QED
  BY <1>1, WithoutKillsAlways, PTL

\* What merge_lora_adapter finds in the job's directory are the shards of every
\* rank, all of this call's job and made of the checkpoint it started from, as
\* long as no service's process is killed.
THEOREM ShardsAreOwn == JobsSpec => [](kills = 0 => MergesOwnShards)
<1>1. JobsInv /\ WithoutKills => (kills = 0 => MergesOwnShards)
  BY DEF WithoutKills, WorkInv, SavedInv
<1> QED
  BY <1>1, WithoutKillsAlways, PTL

\* Between the calls of an open service vLLM serves the adapter of the step the
\* service says is its latest, in all three modes and after any failures and
\* restarts, as long as no service's process is killed.
THEOREM LatestIsServed == JobsSpec => [](kills = 0 => ServedIsLatest)
<1>1. JobsInv /\ WithoutKills => (kills = 0 => ServedIsLatest)
  BY DEF WithoutKills, WorkInv, ServedInv, ServedIsLatest, JobsInv, StepsInv
<1> QED
  BY <1>1, WithoutKillsAlways, PTL

\* The training of every call that returned is in what an open service serves
\* between calls, through failed calls, closed services and new ones, as long as
\* no service's process is killed.
THEOREM TrainingIsKept == JobsSpec => [](kills = 0 => TrainingKept)
<1>1. JobsInv /\ WithoutKills => (kills = 0 => TrainingKept)
  BY DEF WithoutKills, WorkInv, ServedInv, StoredInv, TrainingKept
<1> QED
  BY <1>1, WithoutKillsAlways, PTL

=============================================================================
