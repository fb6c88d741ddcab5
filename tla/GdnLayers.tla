----------------------------- MODULE GdnLayers -----------------------------
(* The hidden rows of a micro-batch on their way through the layers and      *)
(* back.  Attention layers hold a row's tokens as the attention layout has   *)
(* them, GDN layers as the plan has them; runs of GDN layers stay in the     *)
(* plan's layout.                                                            *)
(*   src/art/megatron/gdn/layout.py    the exchange between the layouts      *)
(*   src/art/megatron/gdn/operator.py  _gdn_island_layer_forward             *)
(* Every rank calls the same layers, and an exchange is a collective: one    *)
(* step stands for a layer on all ranks.  The mark of the layout on the      *)
(* attention state is set by each layer before it is read: it is left out.   *)
EXTENDS GdnExecution

CONSTANT Stack   \* the layers in order, "gdn" or "attention"

ASSUME StackAssumption ==
  Stack # <<>> /\ Stack \in Seq({"gdn", "attention"})

VARIABLES
  called,   \* layers called, forward and then backward
  exchange, \* attention_to_gdn of the plan
  hidden,   \* the rows between two layers: whose token's each is
  kept,     \* the inputs of the layers, kept for the backward pass
  ran,      \* history: the rows the last layer ran on
  grad      \* the gradients' rows, likewise

layerVars == <<called, exchange, hidden, kept, ran, grad>>

LayersInit ==
  /\ called = 0 /\ exchange = <<>> /\ hidden = {} /\ kept = <<>>
  /\ ran = {} /\ grad = {}

-----------------------------------------------------------------------------
(* The layouts and the exchange between them.                                *)

\* Whose token each row holds: triples of a rank, a row and a token.  On the
\* families path the attention layout is taken to be the plan's own.  Otherwise a rank
\* holds its tokens in ascending order.
GdnRows == {<<gdn[t], position[t], t>> : t \in RealTokens}

AttentionRows ==
  IF path = "families" THEN GdnRows
  ELSE {<<attention[t], Cardinality({u \in RealTokens :
                          u < t /\ attention[u] = attention[t]}), t>> :
          t \in RealTokens}

\* The planner's own count of the tokens that change ranks.
CrossRankTokens ==
  IF path = "families" THEN 0
  ELSE Cardinality({t \in RealTokens : attention[t] # gdn[t]})

\* The tokens two layouts share: where each is in the one and in the other.
Overlap(source, dest) ==
  {[source |-> p[1][1], from |-> p[1][2], dest |-> p[2][1], to |-> p[2][2]] :
     p \in {q \in source \X dest : q[1][3] = q[2][3]}}

\* attention_to_gdn, every rank's part of it.
AttentionToGdn ==
  [cross |-> CrossRankTokens, moves |-> Overlap(AttentionRows, GdnRows)]

\* Mutant: the ranks of a transfer are reversed, its rows are not.
MutReversed(plan) ==
  [plan EXCEPT !.moves = {[source |-> m.dest, from |-> m.from,
                           dest |-> m.source, to |-> m.to] : m \in @}]

\* _reverse_exchange_plan
Reversed(plan) ==
  [plan EXCEPT !.moves = {[source |-> m.dest, from |-> m.to,
                           dest |-> m.source, to |-> m.from] : m \in @}]

\* The rows after the exchange.  With nothing to cross ranks there is no
\* collective and only what stays on its rank is moved.
Exchange(plan, held) ==
  LET moved == {m \in plan.moves : plan.cross = 0 => m.source = m.dest}
  IN  {<<p[1].dest, p[1].to, p[2][3]>> :
         p \in {q \in moved \X held : q[2][1] = q[1].source /\ q[2][2] = q[1].from}}

-----------------------------------------------------------------------------
(* The layers.                                                               *)

IsGdn(i) == i \in DOMAIN Stack /\ Stack[i] = "gdn"

\* _enter_gdn_island_layout and _leave_gdn_island_layout
Enters(i) == IsGdn(i) /\ ~IsGdn(i - 1)
Leaves(i) == IsGdn(i) /\ ~IsGdn(i + 1)

AsEntered(i, held) == IF Enters(i) THEN Exchange(exchange, held) ELSE held
AsLeft(i, held) == IF Leaves(i) THEN Exchange(Reversed(exchange), held) ELSE held

\* The model is called; what its GDN layers compute is in out.
BeginLayers ==
  /\ phase = "forward" /\ \A r \in Ranks : stage[r] = "done"
  /\ phase' = "layers"
  /\ stage' = <<>> /\ tables' = <<>> /\ out' = <<>>
  /\ exchange' = AttentionToGdn /\ hidden' = AttentionRows
  /\ UNCHANGED <<packVars, parseVars, planVars, called, kept, ran, grad>>

LayerForward ==
  /\ phase = "layers" /\ called < Len(Stack)
  /\ called' = called + 1
  /\ kept' = Append(kept, hidden)
  /\ LET entered == AsEntered(called + 1, hidden)
         left == AsLeft(called + 1, entered)
     IN  /\ ran' = entered
         /\ hidden' = left
         /\ grad' = IF called + 1 = Len(Stack) THEN left ELSE grad
  /\ UNCHANGED <<phase, packVars, parseVars, planVars, forwardVars, exchange>>

\* recompute_granularity "full": the layer is called again with the input it
\* had; then _GdnCpExchangeFunction.backward applies the inverse exchanges.
LayerBackward ==
  /\ phase = "layers" /\ called \in Len(Stack)..(2 * Len(Stack) - 1)
  /\ called' = called + 1
  /\ LET i == 2 * Len(Stack) - called
         left == IF Leaves(i) THEN Exchange(exchange, grad) ELSE grad
     IN  /\ ran' = AsEntered(i, kept[i])
         /\ grad' = IF Enters(i) THEN Exchange(Reversed(exchange), left) ELSE left
         /\ kept' = SubSeq(kept, 1, i - 1)
  /\ UNCHANGED <<phase, packVars, parseVars, planVars, forwardVars, exchange, hidden>>

LayersDone == phase = "layers" /\ called = 2 * Len(Stack)

LayersStep == BeginLayers \/ LayerForward \/ LayerBackward

-----------------------------------------------------------------------------
(* Properties. *)

\* The layer called last, forward or recomputed.
Current == IF called <= Len(Stack) THEN called ELSE 2 * Len(Stack) + 1 - called

\* However the plan cuts the rows up and wherever a run of GDN layers begins
\* and ends, every layer runs on the rows its layout has, also when it is
\* recomputed, and the gradients come back as the layer's input was laid out:
\* no row is lost, doubled or left as it was allocated.
LayersGetTheirRows ==
  phase = "layers" /\ called > 0 =>
    /\ ran = IF IsGdn(Current) THEN GdnRows ELSE AttentionRows
    /\ called > Len(Stack) =>
         grad = IF IsGdn(Current) /\ IsGdn(Current - 1)
                THEN GdnRows ELSE AttentionRows

=============================================================================
