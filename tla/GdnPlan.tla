------------------------------ MODULE GdnPlan ------------------------------
(* The plan by which context-parallel ranks share the linear-attention (GDN) *)
(* work of packed rows: src/art/megatron/gdn/gdn_shared_prefix.py.           *)
(* Every rank computes the same plan from the same segments, so one planner  *)
(* stands for all of them.  Which candidate schedule wins depends on the     *)
(* costs of GdnPlannerConfig: the model lets any candidate win.              *)
EXTENDS PackedRows

CONSTANTS
  CpSize,             \* ranks of the context-parallel group
  AttentionBlock,     \* tokens the attention layout keeps together
  MinChainPrefix,     \* cp_chain_min_prefix_only_tokens
  MinChainCompletion, \* cp_chain_min_total_tokens
  MinPerRank,         \* cp_chain_min_tokens_per_rank
  RankIdleCost,       \* rank_idle_token_cost
  ParentStatePenalty  \* parent_state_exchange_penalty_tokens

Ranks == 0..(CpSize - 1)

ASSUME PlanAssumption ==
  /\ CpSize \in Nat \ {0, 1} /\ AttentionBlock \in Nat \ {0}
  /\ MinChainPrefix \in Nat /\ MinChainCompletion \in Nat
  /\ MinPerRank \in Nat /\ RankIdleCost \in Nat /\ ParentStatePenalty \in Nat

VARIABLES
  attention,   \* the rank that holds each token in the attention layout
  path,        \* which planner function builds the plan
  chain,       \* chain_family_indices
  coLocate,    \* co_locate_local_families
  bundles,     \* owners of each family's prefix and of its completions, of
               \* the local-family path
  next,        \* the segment placed next
  gdn, position, loads,  \* each placed token's rank and row, rank_loads
  owner,       \* the rank of each placed segment, or Chained
  transfers    \* parent_state_transfer_families

None == -1
Chained == CpSize

layoutVars == <<attention, path, chain, coLocate>>
placeVars == <<next, gdn, position, loads, owner, transfers>>
planVars == <<layoutVars, bundles, placeVars>>

PlanInit ==
  /\ PackInit
  /\ attention = <<>> /\ path = "none" /\ chain = {} /\ coLocate = FALSE
  /\ bundles = <<>> /\ next = 1 /\ gdn = <<>> /\ position = <<>>
  /\ loads = [r \in Ranks |-> 0] /\ owner = <<>> /\ transfers = {}

-----------------------------------------------------------------------------
(* What the segments say. *)

Tokens(s) == s.start..(s.start + s.length - 1)
RealTokens == UNION {Tokens(segs[i]) : i \in DOMAIN segs}
Families == {segs[i].family : i \in DOMAIN segs}
FamilySegs(f) == {i \in DOMAIN segs : segs[i].family = f}
PrefixOf(f) == CHOOSE i \in FamilySegs(f) : segs[i].child = 0
Completions(f) == {i \in FamilySegs(f) : segs[i].child > 0}

\* _can_chain_segment and _can_chain_prefix_segment.
CanChain(i) ==
  /\ segs[i].length >= CpSize
  /\ segs[i].length >= CpSize * MinPerRank
  /\ segs[i].length >= IF segs[i].child = 0 THEN MinChainPrefix
                       ELSE MinChainCompletion

\* _can_chain_family: the prefix alone suffices, as its own minimum is the
\* one _can_chain_prefix_segment asks for.
LegalChains == {f \in Families : CanChain(PrefixOf(f))}

\* on_rank_tokens: how many tokens of the segments each rank has already.
OnRank(is, r) == Cardinality({t \in UNION {Tokens(segs[i]) : i \in is} :
                                attention[t] = r})

LeastLoaded(ranks, load) ==
  CHOOSE r \in ranks : \A q \in ranks :
    load[r] < load[q] \/ (load[r] = load[q] /\ r <= q)

\* _best_segment_owner: the least loaded of the ranks that hold most of the
\* segments' tokens.
BestOwner(is) ==
  LeastLoaded({r \in Ranks : \A q \in Ranks : OnRank(is, q) <= OnRank(is, r)},
              loads)

-----------------------------------------------------------------------------
(* _build_local_family_rank_execution_plan: without an attention layout of   *)
(* its own a row of short families is shared out by families, and the        *)
(* completions of a family may move together to another rank.                *)

BundleOwner(b, i) ==
  IF segs[i].child = 0 THEN b[segs[i].family].prefix
  ELSE b[segs[i].family].completions

BundleLoad(b, r) ==
  Cardinality(UNION {Tokens(segs[i]) : i \in
    {j \in DOMAIN segs : segs[j].family \in DOMAIN b /\ BundleOwner(b, j) = r}})

MaxLoad(b) ==
  BundleLoad(b, CHOOSE r \in Ranks : \A q \in Ranks :
                  BundleLoad(b, q) <= BundleLoad(b, r))

Moved(b) == {f \in DOMAIN b : b[f].prefix # b[f].completions /\ Completions(f) # {}}

\* score() of _rebalance_local_completion_bundles.
Score(b) ==
  MaxLoad(b) + RankIdleCost * (CpSize * MaxLoad(b) - Cardinality(RealTokens))
    + ParentStatePenalty * Cardinality(Moved(b))

Moves == {[bundles EXCEPT ![f].completions = r] :
            f \in {g \in DOMAIN bundles : Completions(g) # {}}, r \in Ranks}

\* No family may be chained, no prefix may exceed 1.5 times an even share.
SharedByFamilies ==
  /\ segs # <<>> /\ LegalChains = {}
  /\ \A f \in Families :
       2 * CpSize * segs[PrefixOf(f)].length <= 3 * Cardinality(RealTokens)

BeginFamilies ==
  /\ AllRowsRead /\ SharedByFamilies
  /\ phase' = "bundle" /\ path' = "families"
  /\ UNCHANGED <<packVars, parseVars, attention, chain, coLocate, bundles,
                 placeVars>>

\* The next family goes whole to the least loaded rank.
AssignFamily ==
  /\ phase = "bundle" /\ Len(bundles) < Cardinality(Families)
  /\ LET r == LeastLoaded(Ranks, [q \in Ranks |-> BundleLoad(bundles, q)])
     IN  bundles' = Append(bundles, [prefix |-> r, completions |-> r])
  /\ UNCHANGED <<phase, packVars, parseVars, layoutVars, placeVars>>

FamiliesAssigned == phase = "bundle" /\ Len(bundles) = Cardinality(Families)

\* More than 1.08 times an even share on a rank, or a move already made.
Unbalanced ==
  \/ 100 * CpSize * MaxLoad(bundles) > 108 * Cardinality(RealTokens)
  \/ Moved(bundles) # {}

\* The move of one family's completions that lowers the score most.
MoveBundle ==
  /\ FamiliesAssigned /\ Unbalanced
  /\ \E b \in Moves :
       /\ Score(b) < Score(bundles)
       /\ \A c \in Moves : Score(b) <= Score(c)
       /\ bundles' = b
  /\ UNCHANGED <<phase, packVars, parseVars, layoutVars, placeVars>>

BundlesSettled ==
  /\ FamiliesAssigned
  /\ Unbalanced => \A b \in Moves : Score(b) >= Score(bundles)
  /\ phase' = "place"
  /\ UNCHANGED <<packVars, parseVars, layoutVars, bundles, placeVars>>

-----------------------------------------------------------------------------
(* _build_cp_segment_schedule and the builders for rows of chains only or of *)
(* local families only: segment by segment, against an attention layout.     *)

\* The attention layout puts each block of tokens on any rank.
AttentionLayouts ==
  LET block(t) == t \div AttentionBlock
  IN  {[t \in RealTokens |-> rankOf[block(t)]] :
         rankOf \in [{block(t) : t \in RealTokens} -> Ranks]}

\* Any set of chainable families may win, with or without co-location.
BeginSegments ==
  /\ AllRowsRead
  /\ phase' = "place" /\ path' = "segments"
  /\ attention' \in AttentionLayouts
  /\ chain' \in SUBSET LegalChains
  /\ coLocate' \in BOOLEAN
  /\ UNCHANGED <<packVars, parseVars, bundles, placeVars>>

First(S) == CHOOSE t \in S : \A u \in S : t <= u
Last(S) == CHOOSE t \in S : \A u \in S : u <= t

Held(i, r) == {t \in Tokens(segs[i]) : attention[t] = r}

\* _attention_contiguous_chain_shards: the attention layout already cuts the
\* segment into one piece per rank, in rank order.
HeldInOrder(i) ==
  /\ \A r \in Ranks : Held(i, r) # {}
  /\ \A t, u \in Tokens(segs[i]) : t < u => attention[t] <= attention[u]

\* _append_chain_segment without such a cut: equal shares.
EvenShard(i, r) ==
  {t \in Tokens(segs[i]) :
     /\ segs[i].start + (segs[i].length * r) \div CpSize <= t
     /\ t < segs[i].start + (segs[i].length * (r + 1)) \div CpSize}

ChainShard(i, r) == IF HeldInOrder(i) THEN Held(i, r) ELSE EvenShard(i, r)

\* What rank r gets of segment i when `own` owns it.
Shard(i, own, r) ==
  IF own = Chained THEN ChainShard(i, r)
  ELSE IF r = own THEN Tokens(segs[i]) ELSE {}

Extent(S) == IF S = {} THEN 0 ELSE Last(S) - First(S) + 1

\* gdn_ranges_by_rank[r].append((start, end, rank_loads[r])), on every rank.
Place(own) ==
  LET i == next
      new == Tokens(segs[i])
      RankOf(t) == CHOOSE r \in Ranks : t \in Shard(i, own, r)
  IN  /\ gdn' = [t \in DOMAIN gdn \cup new |->
                   IF t \in new THEN RankOf(t) ELSE gdn[t]]
      /\ position' = [t \in DOMAIN position \cup new |->
                        IF t \in new
                        THEN loads[RankOf(t)] + t - First(Shard(i, own, RankOf(t)))
                        ELSE position[t]]
      /\ loads' = [r \in Ranks |-> loads[r] + Extent(Shard(i, own, r))]
      /\ owner' = Append(owner, own)
      /\ next' = next + 1
      /\ UNCHANGED <<phase, packVars, parseVars, layoutVars, bundles>>

Placing == phase = "place" /\ next <= Len(segs)

IsChained(i) == path = "segments" /\ segs[i].family \in chain /\ CanChain(i)

PlaceChained ==
  /\ Placing /\ IsChained(next)
  /\ Place(Chained)
  /\ UNCHANGED transfers

\* Where a segment that is not chained goes.
LocalOwner(i) ==
  LET f == segs[i].family
  IN  IF path = "families" THEN BundleOwner(bundles, i)
      ELSE IF coLocate /\ f \notin chain
           THEN IF segs[i].child = 0 THEN BestOwner(FamilySegs(f))
                ELSE owner[PrefixOf(f)]
           ELSE BestOwner({i})

\* A completion away from its prefix needs the prefix's state; the state of a
\* chained prefix is on every rank.
NewTransfers(i, own) ==
  LET p == owner[PrefixOf(segs[i].family)]
  IN  IF segs[i].child > 0 /\ segs[i].family \notin chain /\ own # p
      THEN {[source |-> p, dest |-> own, family |-> segs[i].family]} ELSE {}

PlaceLocal ==
  /\ Placing /\ ~IsChained(next)
  /\ Place(LocalOwner(next))
  /\ transfers' = transfers \cup NewTransfers(next, LocalOwner(next))

Plan ==
  \/ BeginFamilies \/ AssignFamily \/ MoveBundle \/ BundlesSettled
  \/ BeginSegments \/ PlaceChained \/ PlaceLocal

=============================================================================
