--------------------------- MODULE AdapterShards ---------------------------
(* The LoRA adapter on the ranks of a tensor- and expert-parallel worker: it *)
(* is cut to load it, trained and saved in shards, and put together again,   *)
(* maybe by a worker with another topology than the next one's.              *)
(*   src/art/megatron/lora.py                    cutting and exporting       *)
(*   src/art/megatron/training/finalize_grads.py the gradients' reductions   *)
(*   src/art/megatron/train.py                   loading and saving          *)
(*   src/art/megatron/weights/merge.py           merging                     *)
(* Of a parameter only the axis it may be sharded on is followed, and of an  *)
(* entry there the jobs that trained it and the feature of the base model    *)
(* each trained it for: the identity LoRA has been trained for nothing.      *)
EXTENDS Integers, Sequences, FiniteSets, SequencesExt, FiniteSetsExt

CONSTANTS
  Layers,      \* the adapted layers: a subset of LayerKinds
  Topologies,  \* those the worker may be started with: [tp, replicas, etp, ep],
               \* replicas being data- and context-parallel ranks together
  Experts,     \* experts of an MoE layer
  Width,       \* features of a component of a layer
  Modes,       \* a subset of {"shared", "dedicated"}: shards are saved in the
               \* checkpoint itself or in a staging directory
  MaxJobs,     \* bound: training jobs
  MaxStarts    \* bound: starts of the worker

\* One of each kind: attention's and GDN's output, q, k or v, GDN's input,
\* experts' gate or up, the two fused, and their output.
LayerKinds == {"o_proj", "q_proj", "in_proj_qkv", "gate_proj", "gate_up_proj",
               "down_proj"}
ExpertLayers == {"gate_proj", "gate_up_proj", "down_proj"}

\* What finalize_model_provider and Megatron demand of a topology; a rank has
\* several experts (LoRA.forward).
Fits(t) ==
  /\ t.tp >= 1 /\ t.replicas >= 1 /\ t.etp >= 1 /\ t.ep >= 1
  /\ (t.tp * t.replicas) % (t.etp * t.ep) = 0
  /\ Width % t.tp = 0 /\ Width % t.etp = 0
  /\ Experts % t.ep = 0 /\ Experts \div t.ep > 1

ASSUME ShardsAssumption ==
  /\ Layers \subseteq LayerKinds /\ Modes \subseteq {"shared", "dedicated"}
  /\ Experts \in Nat /\ Width \in Nat \ {0}
  /\ Topologies \subseteq [tp : Nat, replicas : Nat, etp : Nat, ep : Nat]
  /\ \A t \in Topologies : Fits(t)
  /\ MaxJobs \in Nat /\ MaxStarts \in Nat

VARIABLES
  mode,
  topology,    \* of the worker
  phase,       \* where the worker and, after it, the client's merge are
  job, starts, \* how many jobs and starts there were
  adapter,     \* the adapter of the checkpoint: the entries of each parameter
  weights,     \* A_T and B_T of each rank
  grads,       \* main_grad of each rank: how often each part of the batch's
               \* gradient is in it
  saving,      \* how far each rank is in _save_lora_and_optimizer
  shards,      \* adapter_model-*-of-*.safetensors
  manifests,   \* adapter_manifest-*-of-*.json
  learned      \* history: the jobs that were merged

fileVars == <<adapter, shards, manifests>>
shardsVars == <<mode, topology, phase, job, starts, weights, grads, saving,
                fileVars, learned>>

-----------------------------------------------------------------------------
(* The topology: Megatron's parallel_state.                                  *)

WorldSize == topology.tp * topology.replicas
Ranks == 0..(WorldSize - 1)

\* The rank in its tensor-parallel group, and in the data- and context-parallel
\* one.
TpRank(r) == r % topology.tp
Replica(r) == r \div topology.tp

\* For the experts the same ranks are arranged anew.
EtpRank(r) == r % topology.etp
EpRank(r) == (r \div topology.etp) % topology.ep
ExpertReplica(r) == r \div (topology.etp * topology.ep)

\* num_local_experts from _expert_offset on.
LocalExperts(r) ==
  LET n == Experts \div topology.ep IN (EpRank(r) * n)..(EpRank(r) * n + n - 1)

-----------------------------------------------------------------------------
(* The parameters.                                                           *)

Dense == -1

Params ==
  UNION {[layer : {l}, side : {"A", "B"},
          expert : IF l \in ExpertLayers THEN 0..(Experts - 1) ELSE {Dense}] :
           l \in Layers}

\* The parameters a rank has, of its own experts only.
Held(r) == {p \in Params : p.expert \in LocalExperts(r) \cup {Dense}}

\* The features of the base layer along the sharded axis, in their components:
\* q, k and v of a GDN, gate and up.
Components(layer) ==
  CASE layer = "in_proj_qkv"  -> <<Width, Width, Width>>
    [] layer = "gate_up_proj" -> <<Width, Width>>
    [] OTHER                  -> <<Width>>

Features(layer) == [f \in 1..(Width * Len(Components(layer))) |-> f]

\* a_parallel_spec and b_parallel_spec: A of a row-parallel layer is sharded,
\* B of a column-parallel one.
Sharded(p) == p.side = IF p.layer \in {"o_proj", "down_proj"} THEN "A" ELSE "B"

\* Mutant: B of a row-parallel layer is not reduced.
MutGradSyncOp(p) == IF Sharded(p) \/ p.side = "B" THEN "none" ELSE "sum"

GradSyncOp(p) == IF Sharded(p) THEN "none" ELSE "sum"

\* _get_shard_world_size and _get_shard_rank of the parameter's domain.
DomainSize(p) == IF p.expert = Dense THEN topology.tp ELSE topology.etp
DomainRank(p, r) == IF p.expert = Dense THEN TpRank(r) ELSE EtpRank(r)

\* Mutant: the components of GDN's input are not told apart.
MutStrategy(layer) == "uniform"

\* lora_tp_shard_strategy
Strategy(layer) == IF layer = "in_proj_qkv" THEN "componentwise" ELSE "uniform"

-----------------------------------------------------------------------------
(* Cutting and merging.                                                      *)

\* Tensor.narrow: part r of n.
Narrow(s, n, r) ==
  SubSeq(s, r * (Len(s) \div n) + 1, (r + 1) * (Len(s) \div n))

\* torch.split
Split(s, sizes) ==
  LET Before(c) == MapThenSumSet(LAMBDA d : sizes[d], 1..(c - 1))
  IN  [c \in DOMAIN sizes |-> SubSeq(s, Before(c) + 1, Before(c) + sizes[c])]

\* _shard_weight_by_components
ShardByComponents(s, sizes, n, r) ==
  FlattenSeq([c \in DOMAIN sizes |-> Narrow(Split(s, sizes)[c], n, r)])

\* load_weight
Loaded(p, r) ==
  IF ~Sharded(p) THEN adapter[p]
  ELSE IF Strategy(p.layer) = "componentwise"
  THEN ShardByComponents(adapter[p], Components(p.layer), DomainSize(p), DomainRank(p, r))
  ELSE Narrow(adapter[p], DomainSize(p), DomainRank(p, r))

\* _merge_sharded_tensor, of the n shards in the order of their ranks.
MergeTensor(layer, parts, n) ==
  IF Strategy(layer) = "componentwise"
  THEN LET local == [c \in DOMAIN Components(layer) |-> Components(layer)[c] \div n]
       IN  FlattenSeq([c \in DOMAIN local |->
             FlattenSeq([i \in DOMAIN parts |-> Split(parts[i], local)[c]])])
  ELSE FlattenSeq(parts)

\* What the entries of a rank's parameter are for: its share of every component
\* of the base layer, whose output they are added to.
FeaturesOf(p, r) ==
  IF Sharded(p)
  THEN ShardByComponents(Features(p.layer), Components(p.layer), DomainSize(p), DomainRank(p, r))
  ELSE <<1>>

-----------------------------------------------------------------------------
(* The gradients.                                                            *)

\* A part of the gradient: what comes of the tokens of a replica and, as a
\* replicated parameter works on one shard of the other side, of that shard.
\* An expert is sent the tokens of all ranks its replica consists of.
Part(p, r) ==
  [tokens |-> IF p.expert = Dense THEN Replica(r) ELSE ExpertReplica(r),
   shard |-> IF Sharded(p) THEN 0 ELSE DomainRank(p, r)]

Parts(p) ==
  [tokens : IF p.expert = Dense THEN 0..(topology.replicas - 1)
            ELSE 0..(WorldSize \div (topology.etp * topology.ep) - 1),
   shard : IF Sharded(p) THEN {0} ELSE 0..(DomainSize(p) - 1)]

\* The ranks that have the same shard of the parameter (allreduce), and those
\* that share its tokens (_resolve_domain_group).
SameShard(p, r) ==
  {q \in Ranks : p \in Held(q) /\ DomainRank(p, q) = DomainRank(p, r)}
SameTokens(p, r) ==
  {q \in Ranks : p \in Held(q) /\ Part(p, q).tokens = Part(p, r).tokens}

Summed(p, group) ==
  [c \in Parts(p) |-> MapThenSumSet(LAMBDA q : grads[q][p][c], group)]

-----------------------------------------------------------------------------
(* Exporting and merging files.                                              *)

\* Mutant: the ranks that have the same experts all export them.
MutExports(p, r) ==
  /\ p.expert = Dense => Replica(r) = 0
  /\ Sharded(p) \/ DomainRank(p, r) = 0

\* _should_export_parameter
Exports(p, r) ==
  /\ IF p.expert = Dense THEN Replica(r) = 0 ELSE ExpertReplica(r) = 0
  /\ Sharded(p) \/ DomainRank(p, r) = 0

\* _export_items
Exported(r) == {p \in Held(r) : Exports(p, r)}

\* _manifest_for_param
ManifestOf(p, r) ==
  [sharded |-> Sharded(p),
   world |-> IF Sharded(p) THEN DomainSize(p) ELSE 1,
   rank |-> IF Sharded(p) THEN DomainRank(p, r) ELSE 0]

\* A rank's files are named for it and the world size.
FileOf(r) == <<r + 1, WorldSize>>

\* The files with an entry for the parameter.
EntriesOf(p) == {f \in DOMAIN shards : p \in DOMAIN shards[f]}
RanksOf(p) == {manifests[f][p].rank : f \in EntriesOf(p)}

\* _load_adapter_shards and merge_sharded_adapter_entries raise unless there
\* are shards, every shard has its manifest, and for each parameter either one
\* replica or every shard of one world size is there once.
Mergeable ==
  /\ shards # <<>>
  /\ DOMAIN shards = DOMAIN manifests
  /\ \A f \in DOMAIN shards : DOMAIN shards[f] = DOMAIN manifests[f]
  /\ \A p \in UNION {DOMAIN shards[f] : f \in DOMAIN shards} :
       /\ \A f, g \in EntriesOf(p) :
            /\ manifests[f][p].sharded = manifests[g][p].sharded
            /\ manifests[f][p].world = manifests[g][p].world
            /\ f # g => manifests[f][p].rank # manifests[g][p].rank
       /\ \A f \in EntriesOf(p) : RanksOf(p) = 0..(manifests[f][p].world - 1)

ShardAt(p, rank) ==
  LET f == CHOOSE g \in EntriesOf(p) : manifests[g][p].rank = rank IN shards[f][p]

\* merge_lora_adapter's adapter_model.
MergedAdapter ==
  [p \in UNION {DOMAIN shards[f] : f \in DOMAIN shards} |->
     LET n == Cardinality(EntriesOf(p))
         parts == [i \in 1..n |-> ShardAt(p, i - 1)]
     IN  IF Sharded(p) THEN MergeTensor(p.layer, parts, n) ELSE parts[1]]

-----------------------------------------------------------------------------

NoWorker == [tp |-> 1, replicas |-> 1, etp |-> 1, ep |-> 1]
Forget == weights' = <<>> /\ grads' = <<>> /\ saving' = <<>>

\* A new model has the identity LoRA.
ShardsInit ==
  /\ mode \in Modes
  /\ topology = NoWorker /\ phase = "down" /\ job = 0 /\ starts = 0
  /\ adapter = [p \in Params |-> [i \in 1..(IF Sharded(p) THEN Len(Features(p.layer)) ELSE 1) |-> {}]]
  /\ weights = <<>> /\ grads = <<>> /\ saving = <<>>
  /\ shards = <<>> /\ manifests = <<>> /\ learned = {}

\* The topology follows from the GPUs there are and the environment.
StartWorker ==
  /\ phase = "down" /\ starts < MaxStarts
  /\ topology' \in Topologies
  /\ phase' = "ready" /\ starts' = starts + 1
  /\ UNCHANGED <<mode, job, weights, grads, saving, fileVars, learned>>

\* A job begins; a staging directory is made anew for it.  Every rank loads its
\* part of the whole adapter, which must have every key it needs.
LoadAdapter ==
  /\ phase = "ready" /\ job < MaxJobs
  /\ \A r \in Ranks : Held(r) \subseteq DOMAIN adapter
  /\ phase' = "loaded" /\ job' = job + 1
  /\ weights' = [r \in Ranks |-> [p \in Held(r) |-> Loaded(p, r)]]
  /\ IF mode = "shared" THEN UNCHANGED <<shards, manifests>>
     ELSE shards' = <<>> /\ manifests' = <<>>
  /\ UNCHANGED <<mode, topology, starts, grads, saving, adapter, learned>>

\* Each rank's backward pass.
Backward ==
  /\ phase = "loaded"
  /\ phase' = "backward"
  /\ grads' = [r \in Ranks |-> [p \in Held(r) |->
                 [c \in Parts(p) |-> IF c = Part(p, r) THEN 1 ELSE 0]]]
  /\ UNCHANGED <<mode, topology, job, starts, weights, saving, fileVars, learned>>

\* finalize_model_grads
ReduceReplicas ==
  /\ phase = "backward"
  /\ phase' = "reduced"
  /\ grads' = [r \in Ranks |-> [p \in Held(r) |-> Summed(p, SameShard(p, r))]]
  /\ UNCHANGED <<mode, topology, job, starts, weights, saving, fileVars, learned>>

\* The rest of finalize_model_grads_extended.
ReduceDomains ==
  /\ phase = "reduced"
  /\ phase' = "finalized"
  /\ grads' = [r \in Ranks |-> [p \in Held(r) |->
                 IF DomainSize(p) > 1 /\ GradSyncOp(p) = "sum"
                 THEN Summed(p, SameTokens(p, r)) ELSE grads[r][p]]]
  /\ UNCHANGED <<mode, topology, job, starts, weights, saving, fileVars, learned>>

\* Each entry has been trained for the feature it was used for.
OptimizerStep ==
  /\ phase = "finalized"
  /\ phase' = "save"
  /\ weights' = [r \in Ranks |-> [p \in Held(r) |->
                   [i \in DOMAIN weights[r][p] |->
                      weights[r][p][i] \cup {<<job, FeaturesOf(p, r)[i]>>}]]]
  /\ grads' = <<>> /\ saving' = [r \in Ranks |-> "shard"]
  /\ UNCHANGED <<mode, topology, job, starts, fileVars, learned>>

SetFile(files, r, content) ==
  [f \in DOMAIN files \cup {FileOf(r)} |-> IF f = FileOf(r) THEN content ELSE files[f]]

\* save_file
SaveShard(r) ==
  /\ phase = "save" /\ saving[r] = "shard"
  /\ shards' = SetFile(shards, r, [p \in Exported(r) |-> weights[r][p]])
  /\ saving' = [saving EXCEPT ![r] = "manifest"]
  /\ UNCHANGED <<mode, topology, phase, job, starts, weights, grads, adapter,
                 manifests, learned>>

SaveManifest(r) ==
  /\ phase = "save" /\ saving[r] = "manifest"
  /\ manifests' = SetFile(manifests, r, [p \in Exported(r) |-> ManifestOf(p, r)])
  /\ saving' = [saving EXCEPT ![r] = "done"]
  /\ UNCHANGED <<mode, topology, phase, job, starts, weights, grads, adapter,
                 shards, learned>>

\* Every rank has come to the barrier of finalize_megatron_job: the client is
\* told, and merges.
AllSaved == phase = "save" /\ \A r \in Ranks : saving[r] = "done"

MergeAdapter ==
  /\ AllSaved /\ Mergeable
  /\ phase' = "unlink" /\ adapter' = MergedAdapter
  /\ learned' = learned \cup {job}
  /\ Forget
  /\ UNCHANGED <<mode, topology, job, starts, shards, manifests>>

\* The call fails, and the service is closed.
MergeRaises ==
  /\ AllSaved /\ ~Mergeable
  /\ phase' = "raised" /\ Forget
  /\ UNCHANGED <<mode, topology, job, starts, fileVars, learned>>

Without(files, f) == [g \in DOMAIN files \ {f} |-> files[g]]

\* The shards are unlinked one by one, then the manifests.
Unlink ==
  /\ phase = "unlink"
  /\ IF shards # <<>>
     THEN /\ \E f \in DOMAIN shards : shards' = Without(shards, f)
          /\ UNCHANGED <<phase, manifests>>
     ELSE IF manifests # <<>>
     THEN /\ \E f \in DOMAIN manifests : manifests' = Without(manifests, f)
          /\ UNCHANGED <<phase, shards>>
     ELSE phase' = "ready" /\ UNCHANGED <<shards, manifests>>
  /\ UNCHANGED <<mode, topology, job, starts, weights, grads, saving, adapter,
                 learned>>

\* The service is closed, crashes or is killed, and the worker with it.
Down ==
  /\ phase # "down"
  /\ phase' = "down" /\ topology' = NoWorker /\ Forget
  /\ UNCHANGED <<mode, job, starts, fileVars, learned>>

ShardsNext ==
  \/ StartWorker \/ LoadAdapter \/ Backward \/ ReduceReplicas \/ ReduceDomains
  \/ OptimizerStep \/ (\E r \in Ranks : SaveShard(r) \/ SaveManifest(r))
  \/ MergeAdapter \/ MergeRaises \/ Unlink \/ Down

ShardsSpec == ShardsInit /\ [][ShardsNext]_shardsVars

-----------------------------------------------------------------------------
(* Properties.                                                               *)

\* However the ranks share out layers, experts and tokens, when the optimizer
\* steps every rank has for every parameter the whole batch's gradient, each
\* part of it once: copies of a shard stay equal (finalize_grads.py, and the
\* sync operations lora.py gives each layer).
GradientsWhole ==
  phase = "finalized" =>
    \A r \in Ranks : \A p \in Held(r) : \A c \in Parts(p) : grads[r][p][c] = 1

\* The adapter vLLM is given has every parameter, and each entry is what all
\* the merged jobs made of the one feature it stands for: whatever the
\* topologies it was trained under, and whatever shards other jobs left behind.
AdapterIsTrained ==
  /\ DOMAIN adapter = Params
  /\ \A p \in Params : \A i \in DOMAIN adapter[p] : adapter[p][i] = {<<j, i>> : j \in learned}

\* Saved shards can be merged; only files that a worker of another world size
\* left in the checkpoint when it crashed can be in the way.
OnlyLeftoversInTheWay ==
  phase = "raised" =>
    /\ mode = "shared"
    /\ \E f \in DOMAIN shards \cup DOMAIN manifests : f[2] # WorldSize

=============================================================================
