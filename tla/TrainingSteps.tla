--------------------------- MODULE TrainingSteps ---------------------------
(* An RL job on the ranks of a data-parallel replica: its gradient steps, the *)
(* row each micro-batch takes and the routes replayed in it.                 *)
(*   src/art/megatron/train.py           run_megatron_rl_job and              *)
(*                                       run_training_step                    *)
(*   src/art/megatron/routing_replay.py  MoeRoutingReplayController           *)
(* The ranks of a replica take the same rows in the same order: one          *)
(* controller stands for theirs, and the replica followed is the first.  One *)
(* pass stands for what the GDN layers of the model compute.                 *)
EXTENDS GdnLayers

CONSTANTS
  DpSize,    \* data-parallel replicas
  Layers,    \* layers with a router
  Configs    \* job configurations [accumulate, traceDp]: the number of
             \* sequences of a gradient step, and that of the replicas of the
             \* run the replay bundle was traced in, 0 without a bundle

ASSUME StepsAssumption ==
  /\ DpSize \in Nat \ {0} /\ Layers \in Nat \ {0}
  /\ \A c \in Configs :
       /\ c.accumulate \in Nat \ {0} /\ c.accumulate % DpSize = 0
       /\ c.traceDp \in Nat
       /\ c.traceDp # 0 => c.accumulate % c.traceDp = 0

VARIABLES
  config,
  step, micro,      \* step_index and micro_order, from 0
  bundle,           \* the step's recorded calls: their keys, in call order
  routed,           \* how many router calls of the micro-batch are over
  consumed,         \* _router_call_cursors
  lastCall,         \* _router_last_call_indices, 0 for none
  route,            \* the key of the route the last router call was given
  contributed       \* history: for each row the gradients it is part of

controllerVars == <<bundle, routed, consumed, lastCall, route>>
stepVars == <<config, step, micro, controllerVars, contributed, layerVars>>

LayerIds == 1..Layers
NoRoute == <<"none", 0>>

StepsInit ==
  /\ PassInit /\ LayersInit
  /\ config \in Configs
  /\ step = 0 /\ micro = 0 /\ bundle = <<>> /\ routed = 0
  /\ consumed = [l \in LayerIds |-> 0] /\ lastCall = [l \in LayerIds |-> 0]
  /\ route = NoRoute /\ contributed = <<>>

Replays == config.traceDp # 0

-----------------------------------------------------------------------------
(* Which row a micro-batch takes.                                            *)

NumSteps == (Len(rows) + config.accumulate - 1) \div config.accumulate
Micros(dp) == 0..(config.accumulate \div dp - 1)

\* Mutant: what is missing at the end is made up for with the last row.
MutSampleIndex(s, d, m, dp) ==
  LET index == s * config.accumulate + m * dp + d
  IN  IF index < Len(rows) THEN index ELSE Len(rows) - 1

\* build_micro_sample_indices: the row, from 0, of micro-batch m on replica d
\* of dp; None for a dummy.
SampleIndex(s, d, m, dp) ==
  LET index == s * config.accumulate + m * dp + d
  IN  IF index < Len(rows) THEN index ELSE None

\* _dummy_micro_call_key, and _trace_call_route_metadata for the trace.
Slot(d, m, dp) == m * dp + d

\* _sample_or_dummy_call_key
CallKey(s, d, m, dp) ==
  IF SampleIndex(s, d, m, dp) # None THEN <<"sample", SampleIndex(s, d, m, dp)>>
  ELSE <<"dummy_micro_slot", Slot(d, m, dp)>>

ActiveKey == CallKey(step, 0, micro, DpSize)

-----------------------------------------------------------------------------
(* The controller.                                                           *)

\* build_bundle_from_forward_trace_dir: each micro-batch of each replica that
\* was traced called each router once, in any order.
Traced ==
  LET keys == {CallKey(step, d, m, config.traceDp) :
                 d \in 0..(config.traceDp - 1), m \in Micros(config.traceDp)}
  IN  {b \in [1..Cardinality(keys) -> keys] : \A k \in keys : \E c \in DOMAIN b : b[c] = k}

\* _router_call_sequences: the calls of the replica's micro-batches, in order.
LocalCall(m) == CHOOSE c \in DOMAIN bundle : bundle[c] = CallKey(step, 0, m, DpSize)

\* The key of the call at a router's cursor.
NextKey(l) ==
  IF consumed[l] \in Micros(DpSize) THEN bundle[LocalCall(consumed[l])] ELSE NoRoute

\* Mutant: a route that was given is given again.
MutReuses(l) == lastCall[l] # 0

\* A router that is called again while its micro-batch has no call left is
\* taken to be recomputed.
Reuses(l) ==
  /\ lastCall[l] # 0 /\ bundle[lastCall[l]] = ActiveKey
  /\ NextKey(l) # ActiveKey

-----------------------------------------------------------------------------
(* The job.                                                                  *)

ForgetPlan ==
  /\ input' = <<>> /\ row' = 1 /\ cursor' = 0 /\ segs' = <<>>
  /\ attention' = <<>> /\ path' = "none" /\ chain' = {} /\ coLocate' = FALSE
  /\ bundles' = <<>> /\ next' = 1 /\ gdn' = <<>> /\ position' = <<>>
  /\ loads' = [r \in Ranks |-> 0] /\ owner' = <<>> /\ transfers' = {}
  /\ stage' = <<>> /\ tables' = <<>> /\ out' = <<>>

ForgetLayers ==
  /\ called' = 0 /\ exchange' = <<>> /\ hidden' = {} /\ kept' = <<>>
  /\ ran' = {} /\ grad' = {}

\* set_step raises if the bundle lacks a call the replica is to make.
CallMissing(b) ==
  \E m \in Micros(DpSize) : \A c \in DOMAIN b : b[c] # CallKey(step, 0, m, DpSize)

BeginStep ==
  /\ phase = "packed" /\ step < NumSteps
  /\ \E b \in IF Replays THEN Traced ELSE {<<>>} :
       /\ phase' = IF Replays /\ CallMissing(b) THEN "raised" ELSE "step"
       /\ bundle' = b
  /\ micro' = 0
  /\ consumed' = [l \in LayerIds |-> 0] /\ lastCall' = [l \in LayerIds |-> 0]
  /\ contributed' = IF step = 0 THEN [i \in DOMAIN rows |-> 0] ELSE contributed
  /\ UNCHANGED <<packVars, parseVars, planVars, forwardVars, config, step,
                 routed, route, layerVars>>

\* A dummy is the first row without a token to train on.
BeginMicro ==
  /\ phase = "step" /\ micro \in Micros(DpSize)
  /\ LET index == SampleIndex(step, 0, micro, DpSize)
     IN  SelectRow(IF index = None THEN 1 ELSE index + 1)
  /\ UNCHANGED <<planVars, forwardVars, stepVars>>

PassComputed ==
  /\ LayersDone
  /\ phase' = "routers" /\ ForgetPlan /\ ForgetLayers
  /\ UNCHANGED <<packVars, config, step, micro, controllerVars, contributed>>

\* The routers are called in the order of their layers, and once more from the
\* last to the first: the backward pass recomputes each layer.
Called == IF routed < Layers THEN routed + 1 ELSE 2 * Layers - routed

\* get_route_for_router
RouterCalled ==
  /\ phase = "routers" /\ Replays /\ routed < 2 * Layers
  /\ LET l == Called
     IN  IF Reuses(l)
         THEN /\ route' = bundle[lastCall[l]]
              /\ UNCHANGED <<phase, consumed, lastCall>>
         ELSE IF consumed[l] \in Micros(DpSize)
         THEN /\ route' = NextKey(l)
              /\ consumed' = [consumed EXCEPT ![l] = @ + 1]
              /\ lastCall' = [lastCall EXCEPT ![l] = LocalCall(consumed[l])]
              /\ UNCHANGED phase
         ELSE /\ phase' = "raised"
              /\ UNCHANGED <<route, consumed, lastCall>>
  /\ routed' = routed + 1
  /\ UNCHANGED <<packVars, parseVars, planVars, forwardVars, config, step,
                 micro, bundle, contributed, layerVars>>

MicroOver ==
  /\ phase = "routers" /\ (Replays => routed = 2 * Layers)
  /\ phase' = "step" /\ micro' = micro + 1
  /\ routed' = 0 /\ route' = NoRoute
  /\ UNCHANGED <<packVars, parseVars, planVars, forwardVars, config, step,
                 bundle, consumed, lastCall, contributed, layerVars>>

\* The gradients of all replicas are reduced, the optimizer steps; then
\* finalize_step raises unless every recorded call was used.
OptimizerStep ==
  /\ phase = "step" /\ micro \notin Micros(DpSize)
  /\ contributed' = [i \in DOMAIN rows |-> contributed[i]
       + Cardinality({dm \in (0..(DpSize - 1)) \X Micros(DpSize) :
                        SampleIndex(step, dm[1], dm[2], DpSize) = i - 1})]
  /\ phase' = IF Replays /\ \E l \in LayerIds : consumed[l] # micro
              THEN "raised" ELSE "packed"
  /\ step' = step + 1 /\ micro' = 0 /\ bundle' = <<>>
  /\ UNCHANGED <<packVars, parseVars, planVars, forwardVars, config, routed,
                 consumed, lastCall, route, layerVars>>

StepsDone == phase = "packed" /\ step = NumSteps

\* What the ranks do with the rows.
ReplicaStep ==
  \/ BeginStep \/ BeginMicro \/ PassComputed \/ RouterCalled \/ MicroOver
  \/ OptimizerStep
  \/ RanksStep /\ UNCHANGED stepVars
  \/ LayersStep /\ UNCHANGED <<config, step, micro, controllerVars, contributed>>

-----------------------------------------------------------------------------
(* Properties. *)

\* Every row goes into one gradient step, once: also the rows of a last step
\* that dummies fill up.
RowsContributeOnce ==
  /\ \A i \in DOMAIN contributed : contributed[i] <= 1
  /\ StepsDone => \A i \in DOMAIN contributed : contributed[i] = 1

\* A router is given the route recorded for the row it is computing, whatever
\* the number of replicas and the order of calls in the traced run, and also
\* when it is recomputed; the replay of a complete trace never raises.
RoutesOwn ==
  /\ phase # "raised"
  /\ route # NoRoute => route = ActiveKey

=============================================================================
