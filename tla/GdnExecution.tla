---------------------------- MODULE GdnExecution ----------------------------
(* The forward pass of a GDN layer over context-parallel ranks, as the plan  *)
(* orders it: src/art/megatron/gdn/operator.py                               *)
(* _run_cp_planned_prefixes_and_completions.  A recurrent state is reduced   *)
(* to the set of tokens it has absorbed, an output to the set its token saw. *)
(* Buckets only batch segments that are run alike: a loop over the buckets   *)
(* of one kind is one step.                                                  *)
EXTENDS GdnPlan

CONSTANT ChunkSize   \* FLA_CHUNK_SIZE

ASSUME ChunkAssumption == ChunkSize \in Nat \ {0}

VARIABLES
  stage,    \* where each rank is in the pass
  tables,   \* prefix_conv_table and prefix_rec_table of each rank
  out       \* recurrent_output, {} where it still is the zero of zeros_like

forwardVars == <<stage, tables, out>>
passVars == <<phase, packVars, parseVars, planVars, forwardVars>>

PassInit == PlanInit /\ stage = <<>> /\ tables = <<>> /\ out = <<>>

Begin ==
  /\ phase = "place" /\ next > Len(segs)
  /\ phase' = "forward"
  /\ stage' = [r \in Ranks |-> "scatter"]
  /\ tables' = [r \in Ranks |-> [f \in Families |-> {}]]
  /\ out' = [t \in RealTokens |-> {}]
  /\ UNCHANGED <<packVars, parseVars, planVars>>

-----------------------------------------------------------------------------
(* What a kernel computes: each token sees the state its segment starts from *)
(* and the segment's tokens up to itself.                                    *)

SegmentOf(t) == CHOOSE i \in DOMAIN segs : t \in Tokens(segs[i])
PrefixTokens(f) == Tokens(segs[PrefixOf(f)])
TokensOfAll(is) == UNION {Tokens(segs[i]) : i \in is}

\* The outputs `o` once the tokens S have run from their family's row of
\* `table`.
Run(o, S, table) ==
  [t \in DOMAIN o |->
     IF t \in S
     THEN table[segs[SegmentOf(t)].family]
            \cup {u \in Tokens(segs[SegmentOf(t)]) : u <= t}
     ELSE o[t]]

ZeroTable == [f \in Families |-> {}]

-----------------------------------------------------------------------------
(* The plan as the ranks' buckets. *)

OwnedBy(r) == {i \in DOMAIN segs : owner[i] = r}
PrefixesOn(own) == {f \in Families : owner[PrefixOf(f)] = own}
CompletionsOn(own) == {i \in OwnedBy(own) : segs[i].child > 0}

\* _prefix_chunk_boundary_end: the whole chunks of a prefix.
Boundary(f) ==
  LET p == segs[PrefixOf(f)]
  IN  {t \in Tokens(p) : t < p.start + (p.length \div ChunkSize) * ChunkSize}

PrefixTail(f) == PrefixTokens(f) \ Boundary(f)

\* The completions run together with their prefix, from its boundary on.
WarmedUp(r) ==
  IF path = "families" THEN {}
  ELSE {i \in CompletionsOn(r) : segs[i].family \in PrefixesOn(r)}

\* Families whose tail no local completion runs: prefix_tail_buckets.
TailAlone(r) == {f \in PrefixesOn(r) : Completions(f) \cap WarmedUp(r) = {}}

\* Mutant: no completion waits for the exchange.
MutReady(r) == CompletionsOn(r) \ WarmedUp(r)

\* _split_ready_and_remote_completion_segments.
Ready(r) ==
  {i \in CompletionsOn(r) \ WarmedUp(r) :
     segs[i].family \in PrefixesOn(Chained) \cup PrefixesOn(r)}

Remote(r) == CompletionsOn(r) \ (WarmedUp(r) \cup Ready(r))

-----------------------------------------------------------------------------
(* The pass.  A step all ranks take together is a collective.                *)

Advance(r, from, to) == stage[r] = from /\ stage' = [stage EXCEPT ![r] = to]

Collective(from, to) ==
  /\ \A r \in Ranks : stage[r] = from
  /\ stage' = [r \in Ranks |-> to]

ScatterTokens ==
  /\ phase = "forward" /\ Collective("scatter", "chain prefixes")
  /\ UNCHANGED <<phase, packVars, parseVars, planVars, tables, out>>

\* run_gdn_prepared_varlen_native_fla_cp leaves the final state on every rank.
RunChainPrefixes ==
  /\ phase = "forward" /\ Collective("chain prefixes", "prefixes")
  /\ LET chained == PrefixesOn(Chained)
     IN  /\ out' = Run(out, UNION {PrefixTokens(f) : f \in chained}, ZeroTable)
         /\ tables' = [r \in Ranks |-> [f \in Families |->
                         IF f \in chained THEN PrefixTokens(f) ELSE {}]]
  /\ UNCHANGED <<phase, packVars, parseVars, planVars>>

\* The early return of a rank without a prefix state when none is exchanged.
NothingLeft(r) ==
  PrefixesOn(r) \cup PrefixesOn(Chained) = {} /\ transfers = {}

\* How much of its prefix f the rank runs by itself: all of it on the families
\* path, else the boundary, and the tail if no completion here follows it.
RunAlone(r, f) ==
  IF path = "families" \/ f \in TailAlone(r) THEN PrefixTokens(f) ELSE Boundary(f)

\* output_mask: a tail run ahead of several completions is written by the
\* first one of the family.
Unmasked(r) ==
  UNION {PrefixTail(segs[i].family) : i \in {j \in WarmedUp(r) : segs[j].child = 1}}

\* The rank's own prefixes, then each completion that continues one of them,
\* together with the tail before it.
RunPrefixes(r) ==
  /\ phase = "forward"
  /\ Advance(r, "prefixes", IF NothingLeft(r) THEN "gather"
                            ELSE "chain completions")
  /\ LET mine == PrefixesOn(r)
         table == [f \in Families |-> IF f \in mine THEN RunAlone(r, f)
                                      ELSE tables[r][f]]
         alone == (UNION {RunAlone(r, f) : f \in mine}) \cup Unmasked(r)
     IN  /\ tables' = [tables EXCEPT ![r] = table]
         /\ out' = Run(Run(out, alone, ZeroTable), TokensOfAll(WarmedUp(r)),
                       [f \in Families |-> table[f] \cup PrefixTail(f)])
  /\ UNCHANGED <<phase, packVars, parseVars, planVars>>

\* Without a chained completion there is no bucket and no collective.
SkipChainCompletions(r) ==
  /\ phase = "forward" /\ CompletionsOn(Chained) = {}
  /\ Advance(r, "chain completions", "ready")
  /\ UNCHANGED <<phase, packVars, parseVars, planVars, tables, out>>

\* Each rank starts its shard from its own table; they must agree.
RunChainCompletions ==
  /\ phase = "forward" /\ CompletionsOn(Chained) # {}
  /\ Collective("chain completions", "ready")
  /\ out' = [t \in DOMAIN out |->
       Run(out, TokensOfAll(CompletionsOn(Chained)), tables[gdn[t]])[t]]
  /\ UNCHANGED <<phase, packVars, parseVars, planVars, tables>>

RunReady(r) ==
  /\ phase = "forward"
  /\ Advance(r, "ready", "exchange")
  /\ out' = Run(out, TokensOfAll(Ready(r)), tables[r])
  /\ UNCHANGED <<phase, packVars, parseVars, planVars, tables>>

SkipExchange(r) ==
  /\ phase = "forward" /\ transfers = {}
  /\ Advance(r, "exchange", "remote")
  /\ UNCHANGED <<phase, packVars, parseVars, planVars, tables, out>>

\* _exchange_parent_state_rows: one all-to-all over the planned transfers.
ExchangeStates ==
  /\ phase = "forward" /\ transfers # {}
  /\ Collective("exchange", "remote")
  /\ tables' = [r \in Ranks |-> [f \in Families |->
       IF \E x \in transfers : x.dest = r /\ x.family = f
       THEN tables[(CHOOSE x \in transfers : x.dest = r /\ x.family = f).source][f]
       ELSE tables[r][f]]]
  /\ UNCHANGED <<phase, packVars, parseVars, planVars, out>>

RunRemote(r) ==
  /\ phase = "forward"
  /\ Advance(r, "remote", "gather")
  /\ out' = Run(out, TokensOfAll(Remote(r)), tables[r])
  /\ UNCHANGED <<phase, packVars, parseVars, planVars, tables>>

GatherOutputs ==
  /\ phase = "forward" /\ Collective("gather", "done")
  /\ UNCHANGED <<phase, packVars, parseVars, planVars, tables, out>>

Forward ==
  \/ Begin \/ ScatterTokens \/ RunChainPrefixes \/ RunChainCompletions
  \/ ExchangeStates \/ GatherOutputs
  \/ \E r \in Ranks : \/ RunPrefixes(r) \/ SkipChainCompletions(r)
                      \/ RunReady(r) \/ SkipExchange(r) \/ RunRemote(r)

\* LocalBackend packs the rows, the worker's ranks do the rest.
PackStep == Pack /\ UNCHANGED <<planVars, forwardVars>>

RanksStep ==
  \/ Parse /\ UNCHANGED <<planVars, forwardVars>>
  \/ Plan /\ UNCHANGED forwardVars
  \/ Forward

\* A row by itself.
PassNext ==
  \/ PackStep \/ RanksStep
  \/ /\ phase = "packed" /\ \E i \in DOMAIN rows : SelectRow(i)
     /\ UNCHANGED <<planVars, forwardVars>>

PassSpec == PassInit /\ [][PassNext]_passVars

-----------------------------------------------------------------------------
(* Properties. *)

\* What a token's output should depend on: its prompt and its own completion
\* up to itself, never another completion of the same prompt.
Context(t) ==
  LET s == segs[SegmentOf(t)]
  IN  {u \in Tokens(s) : u <= t}
        \cup (IF s.child = 0 THEN {} ELSE PrefixTokens(s.family))

\* A prefix that ends within a chunk, with completions on its rank and others
\* elsewhere: see TransferredStatesWhole.
SplitMidChunk(f) ==
  /\ path = "segments" /\ owner[PrefixOf(f)] # Chained /\ PrefixTail(f) # {}
  /\ \E i, j \in Completions(f) :
       owner[i] = owner[PrefixOf(f)] /\ owner[j] # owner[PrefixOf(f)]

\* However the plan cuts the rows up, every token's output is what one rank
\* would have computed, by the time its rank hands the outputs back.
OutputsRight ==
  phase = "forward" =>
    \A t \in DOMAIN out :
      /\ stage[gdn[t]] \in {"gather", "done"}
      /\ ~SplitMidChunk(segs[SegmentOf(t)].family)
      => out[t] = Context(t)

\* gdn_shared_prefix.py:158 "Prefix-state rows transferred from one CP rank to
\* another.": the row a rank receives is the state after the prefix.
TransferredStatesWhole ==
  phase = "forward" =>
    \A x \in transfers :
      stage[x.dest] \in {"remote", "gather", "done"} =>
        tables[x.dest][x.family] = PrefixTokens(x.family)

=============================================================================
