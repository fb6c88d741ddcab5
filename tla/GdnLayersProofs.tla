--------------------------- MODULE GdnLayersProofs ---------------------------
(* Lemmas about GdnPlan, GdnExecution and GdnLayers, for every row, every     *)
(* number of ranks and every stack of layers: what the parser says of a      *)
(* row's families, what the plan says of its tokens, what the layers keep of *)
(* the rows between them, and what each stage of the pass over the ranks has *)
(* seen.  LocalTrainingProofs puts them together with the steps around them. *)
EXTENDS GdnLayers, PackedRowsProofs

-----------------------------------------------------------------------------
(* What holds of the segments, of the plan and of the rows in the layers.    *)

\* The families are numbered without a gap in the order of the segments, and
\* each begins with its only prefix.
FamiliesInv ==
  /\ segs \in Seq(Segment)
  /\ \A i \in DOMAIN segs :
       /\ segs[i].length > 0 /\ segs[i].family > 0
       /\ \E j \in 1..i : segs[j].family = segs[i].family /\ segs[j].child = 0
       /\ segs[i].child = 0 => \A j \in 1..(i - 1) : segs[j].family < segs[i].family
  /\ \A i, j \in DOMAIN segs : i <= j => segs[i].family <= segs[j].family
  /\ \A f \in 1..LastFamily : f \in Families

PlannedPhases == {"bundle", "place", "forward", "layers"}

\* Nothing is left of the plan of the row before.
PlanFresh ==
  /\ next = 1 /\ gdn = <<>> /\ position = <<>> /\ owner = <<>> /\ bundles = <<>>
  /\ loads = [r \in Ranks |-> 0]

\* Each placed token has a row of its own on its rank, below the rank's load.
PlacedInv ==
  /\ loads \in [Ranks -> Nat] /\ DOMAIN gdn = DOMAIN position
  /\ \A t \in DOMAIN gdn :
       gdn[t] \in Ranks /\ position[t] \in Nat /\ position[t] < loads[gdn[t]]
  /\ \A t, u \in DOMAIN gdn : gdn[t] = gdn[u] /\ position[t] = position[u] => t = u
  /\ next \in 1..(Len(segs) + 1)
  /\ \A i \in 1..(next - 1) : Tokens(segs[i]) \subseteq DOMAIN gdn

\* Where the segments placed so far went, and will go on the families path.
OwnersInv ==
  /\ owner \in Seq(0..CpSize) /\ Len(owner) = next - 1
  /\ \A i \in DOMAIN owner : owner[i] = Chained <=> IsChained(i)
  /\ bundles \in Seq([prefix : Ranks, completions : Ranks])
  /\ phase = "bundle" => path = "families" /\ Len(bundles) <= Cardinality(Families)
  /\ phase \in PlannedPhases \ {"bundle"} =>
       \/ path = "families" /\ Len(bundles) = Cardinality(Families)
       \/ path = "segments" /\ attention \in [RealTokens -> Ranks]

PlanInv ==
  /\ phase \notin PlannedPhases => PlanFresh
  /\ PlacedInv /\ OwnersInv
  /\ phase \in {"forward", "layers"} => next = Len(segs) + 1

Depth == Len(Stack)

\* The rows between the i-th layer and the next.
RowsAfter(i) == IF IsGdn(i) /\ IsGdn(i + 1) THEN GdnRows ELSE AttentionRows

\* The layers called and not yet recomputed have their input kept; the rows
\* after the last layer called are those of the layout the next one expects, as
\* are the gradients of what the last layer recomputed was given.
LayersInv ==
  /\ phase # "layers" => called = 0 /\ kept = <<>>
  /\ phase = "layers" =>
       /\ called \in 0..(2 * Depth) /\ exchange = AttentionToGdn
       /\ kept \in Seq({GdnRows, AttentionRows})
       /\ Len(kept) = IF called <= Depth THEN called ELSE 2 * Depth - called
       /\ \A i \in DOMAIN kept : kept[i] = RowsAfter(i - 1)
       /\ called <= Depth => hidden = RowsAfter(called)
       /\ called >= Depth => grad = RowsAfter(2 * Depth - called)
       /\ called > 0 => ran = IF IsGdn(Current) THEN GdnRows ELSE AttentionRows

-----------------------------------------------------------------------------
(* The families.                                                             *)

LEMMA LastFamilyFacts ==
  ASSUME FamiliesInv
  PROVE  /\ LastFamily \in Nat /\ (segs # <<>> => LastFamily > 0)
         /\ segs # <<>> => Len(segs) \in DOMAIN segs /\ segs[Len(segs)].family = LastFamily
         /\ \A i \in DOMAIN segs : segs[i].family <= LastFamily
<1>1. CASE segs = <<>>
  BY <1>1 DEF LastFamily
<1>2. CASE segs # <<>>
  <2>1. segs \in Seq(Segment) /\ Len(segs) \in Nat \ {0} /\ DOMAIN segs = 1..Len(segs)
    BY <1>2 DEF FamiliesInv
  <2>2. Len(segs) \in DOMAIN segs /\ LastFamily = segs[Len(segs)].family
    BY <1>2, <2>1 DEF LastFamily
  <2>3. segs[Len(segs)] \in Segment /\ segs[Len(segs)].family > 0
    BY <2>1, <2>2 DEF FamiliesInv
  <2>4. LastFamily \in Nat /\ LastFamily > 0
    BY <2>2, <2>3 DEF Segment
  <2>5. \A i \in DOMAIN segs : i <= Len(segs)
    BY <2>1
  <2>6. \A i \in DOMAIN segs : segs[i].family <= LastFamily
    BY <2>2, <2>5 DEF FamiliesInv
  <2> QED BY <2>2, <2>4, <2>6
<1> QED BY <1>1, <1>2

\* A segment is read: a prefix, which begins a family, or a completion of the last.
LEMMA FamilyGrows ==
  ASSUME FamiliesInv, NEW s \in Segment, s.length > 0, segs' = Append(segs, s),
         \/ s.family = LastFamily + 1 /\ s.child = 0
         \/ s.family = LastFamily /\ s.child > 0 /\ segs # <<>>
  PROVE  FamiliesInv'
<1>1. PICK n \in Nat : /\ n = Len(segs) /\ DOMAIN segs = 1..n /\ DOMAIN segs' = 1..(n + 1)
                       /\ segs' \in Seq(Segment) /\ Len(segs') = n + 1
                       /\ segs'[n + 1] = s /\ \A i \in 1..n : segs'[i] = segs[i]
  <2>1. segs \in Seq(Segment)
    BY DEF FamiliesInv
  <2> QED BY <2>1
<1>2. PICK last \in Nat : /\ last = LastFamily /\ (n > 0 => last > 0)
                          /\ (n > 0 => segs[n].family = last)
                          /\ \A i \in 1..n : segs[i].family <= last
  <2>1. n > 0 => segs # <<>>
    BY <1>1
  <2> QED BY <1>1, <2>1, LastFamilyFacts
<1>3. \A i \in 1..n : segs[i].family \in Nat
  <2>1. \A i \in 1..n : segs[i] \in Segment
    BY <1>1 DEF FamiliesInv
  <2> QED BY <2>1 DEF Segment
<1>4. /\ s.family \in Nat /\ s.child \in Nat /\ s.family > 0 /\ last <= s.family
      /\ s.child = 0 => last < s.family
      /\ s.family \in {last, last + 1}
      /\ s.child > 0 => n > 0 /\ s.family = last
  <2>1. s.family \in Nat /\ s.child \in Nat
    BY DEF Segment
  <2>2. segs # <<>> => n > 0
    BY <1>1
  <2> QED BY <1>2, <2>1, <2>2
<1>5. LastFamily' = s.family
  BY <1>1 DEF LastFamily
<1>6. ASSUME NEW i \in 1..(n + 1)
      PROVE  /\ segs'[i].length > 0 /\ segs'[i].family > 0
             /\ \E j \in 1..i : segs'[j].family = segs'[i].family /\ segs'[j].child = 0
             /\ segs'[i].child = 0 => \A j \in 1..(i - 1) : segs'[j].family < segs'[i].family
  <2>1. CASE i \in 1..n
    <3>1. /\ segs[i].length > 0 /\ segs[i].family > 0
          /\ \E j \in 1..i : segs[j].family = segs[i].family /\ segs[j].child = 0
          /\ segs[i].child = 0 => \A j \in 1..(i - 1) : segs[j].family < segs[i].family
      BY <1>1, <2>1 DEF FamiliesInv
    <3>2. 1..i \subseteq 1..n /\ 1..(i - 1) \subseteq 1..n
      BY <2>1
    <3> QED BY <1>1, <2>1, <3>1, <3>2
  <2>2. CASE i = n + 1
    <3>1. \A j \in 1..(i - 1) : segs'[j] = segs[j] /\ segs[j].family \in Nat /\ segs[j].family <= last
      BY <1>1, <1>2, <1>3, <2>2
    <3>2. s.child = 0 => \A j \in 1..(i - 1) : segs'[j].family < s.family
      BY <1>4, <3>1
    <3>3. \E j \in 1..i : segs'[j].family = s.family /\ segs'[j].child = 0
      <4>1. CASE s.child = 0
        BY <1>1, <2>2, <4>1
      <4>2. CASE s.child > 0
        <5>1. n \in DOMAIN segs /\ segs[n].family = s.family
          BY <1>1, <1>2, <1>4, <4>2
        <5>2. PICK j \in 1..n : segs[j].family = segs[n].family /\ segs[j].child = 0
          BY <5>1 DEF FamiliesInv
        <5> QED BY <1>1, <2>2, <5>1, <5>2
      <4> QED BY <1>4, <4>1, <4>2
    <3> QED BY <1>1, <1>4, <2>2, <3>2, <3>3
  <2>3. i \in 1..n \/ i = n + 1
    OBVIOUS
  <2> QED BY <2>1, <2>2, <2>3
<1>7. ASSUME NEW i \in 1..(n + 1), NEW j \in 1..(n + 1), i <= j
      PROVE  segs'[i].family <= segs'[j].family
  <2>1. CASE j \in 1..n
    <3>1. i \in 1..n
      BY <1>7, <2>1
    <3> QED BY <1>1, <1>7, <2>1, <3>1 DEF FamiliesInv
  <2>2. CASE j = n + 1 /\ i \in 1..n
    BY <1>1, <1>2, <1>3, <1>4, <2>2
  <2>3. CASE j = n + 1 /\ i = n + 1
    BY <1>1, <1>4, <2>3
  <2>4. (i \in 1..n \/ i = n + 1) /\ (j \in 1..n \/ j = n + 1)
    OBVIOUS
  <2> QED BY <2>1, <2>2, <2>3, <2>4
<1>8. ASSUME NEW f \in 1..LastFamily' PROVE f \in Families'
  <2>1. CASE f = s.family
    <3>1. n + 1 \in DOMAIN segs' /\ segs'[n + 1].family = f
      BY <1>1, <2>1
    <3> QED BY <3>1 DEF Families
  <2>2. CASE f # s.family
    <3>1. f \in 1..LastFamily
      BY <1>2, <1>4, <1>5, <2>2
    <3>2. PICK i \in 1..n : f = segs[i].family
      BY <1>1, <3>1 DEF FamiliesInv, Families
    <3>3. i \in DOMAIN segs' /\ segs'[i].family = f
      BY <1>1, <3>2
    <3> QED BY <3>3 DEF Families
  <2> QED BY <2>1, <2>2
<1> QED BY <1>1, <1>6, <1>7, <1>8 DEF FamiliesInv

\* parse_gdn_shared_prefix_segments
LEMMA ParseKeepsFamilies ==
  ASSUME FamiliesInv, Parse, phase' \in {"parse", "rejected"}, ParseInv'
  PROVE  FamiliesInv'
<1>1. CASE UNCHANGED segs
  BY <1>1 DEF FamiliesInv, LastFamily, Families
<1>2. CASE ReadPrefix \/ ReadCompletion
  <2>1. PICK s : /\ segs' = Append(segs, s)
                 /\ \/ s.family = LastFamily + 1 /\ s.child = 0
                    \/ /\ s.family = LastFamily /\ s.child = segs[Len(segs)].child + 1
                       /\ segs # <<>>
    <3>1. CASE ReadPrefix
      BY <3>1 DEF ReadPrefix, Read
    <3>2. CASE ReadCompletion
      <4>1. segs # <<>>
        BY <3>2 DEF ReadCompletion, ActivePrefix
      <4> QED BY <3>2, <4>1 DEF ReadCompletion, Read
    <3> QED BY <1>2, <3>1, <3>2
  <2>2. segs \in Seq(Segment)
    BY DEF FamiliesInv
  <2>3. Len(segs') = Len(segs) + 1 /\ segs'[Len(segs) + 1] = s
    BY <2>1, <2>2
  <2>4. /\ segs' \in Seq(Segment)
        /\ \A i \in DOMAIN segs' : segs'[i].length > 0
    BY DEF ParseInv, SegsOf
  <2>5. s \in Segment /\ s.length > 0
    <3>1. Len(segs) + 1 \in DOMAIN segs'
      BY <2>2, <2>3, <2>4
    <3> QED BY <2>3, <2>4, <3>1
  <2>6. segs # <<>> => segs[Len(segs)].child \in Nat
    <3>1. segs # <<>> => Len(segs) \in DOMAIN segs
      BY <2>2
    <3>2. segs # <<>> => segs[Len(segs)] \in Segment
      BY <2>2, <3>1
    <3> QED BY <3>2 DEF Segment
  <2>7. \/ s.family = LastFamily + 1 /\ s.child = 0
        \/ s.family = LastFamily /\ s.child > 0 /\ segs # <<>>
    BY <2>1, <2>6
  <2> QED BY <2>1, <2>5, <2>7, FamilyGrows
<1> QED BY <1>1, <1>2 DEF Parse, RowRejected, RowRead, parseVars

LEMMA NoFamilies == ASSUME segs = <<>> PROVE FamiliesInv
BY DEF FamiliesInv, LastFamily

\* The families of a row are its first, second and so on.
LEMMA FamiliesCounted ==
  ASSUME FamiliesInv
  PROVE  /\ Families = 1..LastFamily /\ Cardinality(Families) = LastFamily
         /\ IsFiniteSet(Families)
<1>1. LastFamily \in Nat
  BY LastFamilyFacts
<1>2. ASSUME NEW f \in Families PROVE f \in 1..LastFamily
  <2>1. PICK i \in DOMAIN segs : f = segs[i].family
    BY DEF Families
  <2>2. segs[i] \in Segment /\ segs[i].family > 0 /\ segs[i].family <= LastFamily
    BY LastFamilyFacts DEF FamiliesInv
  <2> QED BY <1>1, <2>1, <2>2 DEF Segment
<1>3. Families = 1..LastFamily
  BY <1>2 DEF FamiliesInv
<1> QED BY <1>1, <1>3, FS_Interval

\* The prefix of a segment's family is at or before it, before it for a completion.
LEMMA PrefixFacts ==
  ASSUME FamiliesInv, NEW i \in DOMAIN segs
  PROVE  LET p == PrefixOf(segs[i].family)
         IN  /\ p \in DOMAIN segs /\ p <= i /\ (segs[i].child > 0 => p < i)
             /\ segs[p].child = 0 /\ segs[p].family = segs[i].family
<1> DEFINE f == segs[i].family
           p == PrefixOf(f)
<1>1. segs \in Seq(Segment) /\ DOMAIN segs = 1..Len(segs) /\ Len(segs) \in Nat
  BY DEF FamiliesInv
<1>2. PICK j \in 1..i : segs[j].family = f /\ segs[j].child = 0
  BY DEF FamiliesInv
<1>3. j \in DOMAIN segs
  BY <1>1, <1>2
<1>4. p \in DOMAIN segs /\ segs[p].family = f /\ segs[p].child = 0
  <2>1. j \in FamilySegs(f) /\ segs[j].child = 0
    BY <1>2, <1>3 DEF FamilySegs
  <2>2. p \in FamilySegs(f) /\ segs[p].child = 0
    BY <2>1 DEF PrefixOf
  <2> QED BY <2>2 DEF FamilySegs
<1> HIDE DEF p
<1>5. f \in Nat /\ segs[i].child \in Nat
  <2>1. segs[i] \in Segment
    BY DEF FamiliesInv
  <2> QED BY <2>1 DEF Segment
<1>6. p <= i
  <2>1. SUFFICES ASSUME p > i PROVE FALSE
    BY <1>1, <1>4
  <2>2. i \in 1..(p - 1)
    BY <1>1, <1>4, <2>1
  <2>3. segs[i].family < segs[p].family
    BY <1>4, <2>2 DEF FamiliesInv
  <2> QED BY <1>4, <1>5, <2>3
<1>7. segs[i].child > 0 => p # i
  BY <1>4
<1>8. segs[i].child > 0 => p < i
  BY <1>1, <1>4, <1>6, <1>7
<1> QED BY <1>4, <1>6, <1>8 DEF p

-----------------------------------------------------------------------------
(* Tokens and ranks.                                                         *)

LEMMA TokensFacts ==
  ASSUME FamiliesInv, NEW i \in DOMAIN segs
  PROVE  /\ segs[i].start \in Nat /\ segs[i].length \in Nat /\ segs[i].length > 0
         /\ Tokens(segs[i]) = segs[i].start..(segs[i].start + segs[i].length - 1)
         /\ Tokens(segs[i]) \subseteq Nat /\ IsFiniteSet(Tokens(segs[i]))
<1>1. segs[i] \in Segment /\ segs[i].length > 0
  BY DEF FamiliesInv
<1>2. PICK a \in Nat, n \in Nat : a = segs[i].start /\ n = segs[i].length /\ n > 0
  BY <1>1 DEF Segment
<1>3. a..(a + n - 1) \subseteq Nat /\ IsFiniteSet(a..(a + n - 1))
  <2>1. a + n - 1 \in Int
    OBVIOUS
  <2>2. IsFiniteSet(a..(a + n - 1))
    BY <2>1, FS_Interval
  <2> QED BY <2>2
<1> QED BY <1>2, <1>3 DEF Tokens

\* The tokens of some of the segments are finitely many.
LEMMA TokensFinite ==
  ASSUME FamiliesInv, NEW is \in SUBSET DOMAIN segs
  PROVE  /\ IsFiniteSet(UNION {Tokens(segs[i]) : i \in is})
         /\ UNION {Tokens(segs[i]) : i \in is} \subseteq Nat
         /\ UNION {Tokens(segs[i]) : i \in is} \subseteq RealTokens
<1>1. IsFiniteSet(is)
  <2>1. Len(segs) \in Nat /\ DOMAIN segs = 1..Len(segs)
    BY DEF FamiliesInv
  <2>2. IsFiniteSet(DOMAIN segs)
    BY <2>1, FS_Interval
  <2> QED BY <2>2, FS_Subset
<1> DEFINE all == {Tokens(segs[i]) : i \in is}
<1>2. IsFiniteSet(all)
  <2> DEFINE f == [i \in is |-> Tokens(segs[i])]
  <2>1. f \in Surjection(is, all)
    BY DEF Surjection
  <2> QED BY <1>1, <2>1, FS_Surjection DEF ExistsSurjection
<1>3. \A S \in all : IsFiniteSet(S) /\ S \subseteq Nat
  BY TokensFacts
<1>4. IsFiniteSet(UNION all)
  BY <1>2, <1>3, FS_UNION
<1> QED BY <1>3, <1>4 DEF RealTokens

LEMMA RealTokensFinite ==
  ASSUME FamiliesInv
  PROVE  IsFiniteSet(RealTokens) /\ RealTokens \subseteq Nat
<1>1. DOMAIN segs \in SUBSET DOMAIN segs
  OBVIOUS
<1> QED BY <1>1, TokensFinite DEF RealTokens

LEMMA Ends ==
  ASSUME NEW a \in Nat, NEW b \in Int, NEW S \in SUBSET (a..b), S # {}
  PROVE  /\ First(S) \in S /\ \A u \in S : First(S) <= u
         /\ Last(S) \in S /\ \A u \in S : u <= Last(S)
<1>1. \E t \in S : \A u \in S : t <= u
  <2>1. S \in SUBSET Nat
    OBVIOUS
  <2> QED BY <2>1, LeastOf
<1>2. \E t \in S : \A u \in S : u <= t
  <2> DEFINE T == {b - u : u \in S}
  <2>1. T \in SUBSET Nat /\ T # {}
    OBVIOUS
  <2>2. PICK n \in T : \A m \in T : n <= m
    BY <2>1, LeastOf
  <2>3. PICK t \in S : n = b - t
    BY <2>2
  <2>4. ASSUME NEW u \in S PROVE u <= t
    <3>1. b - u \in T /\ t \in Int /\ u \in Int
      OBVIOUS
    <3>2. b - t <= b - u
      BY <2>2, <2>3, <3>1
    <3> QED BY <3>1, <3>2
  <2> QED BY <2>4
<1>3. First(S) \in S /\ \A u \in S : First(S) <= u
  BY <1>1 DEF First
<1>4. Last(S) \in S /\ \A u \in S : u <= Last(S)
  BY <1>2 DEF Last
<1> QED BY <1>3, <1>4

\* One of the ranks has the most, and one of some ranks the least.
LEMMA MostOf ==
  ASSUME NEW g \in [Ranks -> Nat], NEW B \in Nat, \A q \in Ranks : g[q] <= B
  PROVE  \E r \in Ranks : \A q \in Ranks : g[q] <= g[r]
<1> DEFINE T == {n \in Nat : \A q \in Ranks : g[q] <= n}
<1>1. PICK n \in T : \A m \in T : n <= m
  <2>1. B \in T
    OBVIOUS
  <2>2. T \in SUBSET Nat /\ T # {}
    BY <2>1
  <2> QED BY <2>2, LeastOf
<1>2. n \in Nat /\ \A q \in Ranks : g[q] \in Nat /\ g[q] <= n
  BY <1>1
<1>3. 0 \in Ranks
  BY PlanAssumption DEF Ranks
<1>4. CASE n = 0
  BY <1>2, <1>3, <1>4
<1>5. CASE n # 0
  <2>1. n - 1 \in Nat /\ n - 1 \notin T
    BY <1>1, <1>2, <1>5
  <2>2. PICK r \in Ranks : ~(g[r] <= n - 1)
    BY <2>1
  <2> QED BY <1>2, <2>1, <2>2
<1> QED BY <1>4, <1>5

LEMMA LeastLoadedIs ==
  ASSUME NEW ranks \in SUBSET Ranks, ranks # {}, NEW load \in [Ranks -> Nat]
  PROVE  LeastLoaded(ranks, load) \in ranks
<1> DEFINE T == {load[r] : r \in ranks}
<1>1. T \in SUBSET Nat /\ T # {}
  OBVIOUS
<1>2. PICK m \in T : \A n \in T : m <= n
  BY <1>1, LeastOf
<1> DEFINE U == {r \in ranks : load[r] = m}
<1>3. U \in SUBSET Nat /\ U # {}
  <2>1. Ranks \subseteq Nat
    BY PlanAssumption DEF Ranks
  <2>2. \E r \in ranks : m = load[r]
    BY <1>2
  <2> QED BY <2>1, <2>2
<1>4. PICK r \in U : \A q \in U : r <= q
  BY <1>3, LeastOf
<1>5. r \in ranks /\ load[r] = m
  BY <1>4
<1>6. ASSUME NEW q \in ranks
      PROVE  load[r] < load[q] \/ (load[r] = load[q] /\ r <= q)
  <2>1. load[q] \in Nat /\ m \in Nat /\ m <= load[q]
    BY <1>1, <1>2
  <2>2. load[q] = m => r <= q
    BY <1>4
  <2> QED BY <1>5, <2>1, <2>2
<1>7. \E x \in ranks : \A q \in ranks : load[x] < load[q] \/ (load[x] = load[q] /\ x <= q)
  BY <1>5, <1>6
<1> QED BY <1>7 DEF LeastLoaded

-----------------------------------------------------------------------------
(* The shards of a segment.                                                  *)

\* Equal shares leave no token of a segment out.
LEMMA SharesCover ==
  ASSUME NEW n \in Nat, NEW d \in 0..(n - 1)
  PROVE  \E r \in Ranks : (n * r) \div CpSize <= d /\ d < (n * (r + 1)) \div CpSize
<1>0. CpSize \in Nat \ {0}
  BY PlanAssumption
<1>1. \A r \in Nat : (n * r) \div CpSize \in Nat
  <2>1. \A r \in Nat : n * r \in Nat
    OBVIOUS
  <2> QED BY <1>0, <2>1, Whole
<1> DEFINE P == {r \in Nat : (n * r) \div CpSize <= d}
<1>2. 0 \in P
  <2>1. n * 0 = 0 /\ 0 \div CpSize = 0
    BY <1>0
  <2> QED BY <2>1
<1>3. CpSize \notin P
  <2>1. (n * CpSize) \div CpSize = n
    BY <1>0, WholeOf
  <2> QED BY <2>1
<1>4. PICK r \in 0..(CpSize - 1) : r \in P /\ r + 1 \notin P
  <2>1. CpSize - 1 \in Nat /\ (CpSize - 1) + 1 = CpSize
    BY <1>0
  <2> HIDE DEF P
  <2> QED BY <1>2, <1>3, <2>1, Longest
<1>5. r \in Ranks /\ r + 1 \in Nat
  BY <1>0, <1>4 DEF Ranks
<1>6. ~((n * (r + 1)) \div CpSize <= d) /\ (n * (r + 1)) \div CpSize \in Nat
  BY <1>1, <1>4, <1>5
<1> QED BY <1>4, <1>5, <1>6

\* However a segment is owned, each of its tokens is in some rank's shard.
LEMMA ShardsCover ==
  ASSUME FamiliesInv, NEW i \in DOMAIN segs, NEW own \in 0..CpSize,
         own = Chained => attention \in [RealTokens -> Ranks]
  PROVE  /\ \A r : Shard(i, own, r) \subseteq Tokens(segs[i])
         /\ \A t \in Tokens(segs[i]) : \E r \in Ranks : t \in Shard(i, own, r)
<1>1. \A r : Shard(i, own, r) \subseteq Tokens(segs[i])
  BY DEF Shard, ChainShard, Held, EvenShard
<1>2. ASSUME NEW t \in Tokens(segs[i])
      PROVE  \E r \in Ranks : t \in Shard(i, own, r)
  <2>1. CASE own # Chained
    <3>1. own \in Ranks
      BY <2>1, PlanAssumption DEF Chained, Ranks
    <3> QED BY <2>1, <3>1 DEF Shard
  <2>2. CASE own = Chained /\ HeldInOrder(i)
    <3>1. t \in RealTokens
      BY DEF RealTokens
    <3>2. attention[t] \in Ranks
      BY <2>2, <3>1
    <3>3. t \in Held(i, attention[t])
      BY DEF Held
    <3> QED BY <2>2, <3>2, <3>3 DEF Shard, ChainShard
  <2>3. CASE own = Chained /\ ~HeldInOrder(i)
    <3>1. PICK a \in Nat, n \in Nat : /\ a = segs[i].start /\ n = segs[i].length
                                      /\ t \in a..(a + n - 1)
      BY TokensFacts
    <3>2. t - a \in 0..(n - 1)
      BY <3>1
    <3>3. PICK r \in Ranks : (n * r) \div CpSize <= t - a /\ t - a < (n * (r + 1)) \div CpSize
      BY <3>2, SharesCover
    <3>4. (n * r) \div CpSize \in Nat /\ (n * (r + 1)) \div CpSize \in Nat
      <4>1. r \in Nat /\ CpSize \in Nat \ {0}
        BY PlanAssumption DEF Ranks
      <4>2. n * r \in Nat /\ n * (r + 1) \in Nat
        BY <3>1, <4>1
      <4> QED BY <4>1, <4>2, Whole
    <3>5. a + (n * r) \div CpSize <= t /\ t < a + (n * (r + 1)) \div CpSize
      <4> DEFINE lo == (n * r) \div CpSize
                 hi == (n * (r + 1)) \div CpSize
      <4>1. lo <= t - a /\ t - a < hi /\ lo \in Nat /\ hi \in Nat
        BY <3>3, <3>4
      <4> HIDE DEF lo, hi
      <4>2. a + lo <= t /\ t < a + hi
        BY <3>1, <4>1
      <4> QED BY <4>2 DEF lo, hi
    <3>6. t \in EvenShard(i, r)
      BY <3>1, <3>5 DEF EvenShard
    <3> QED BY <2>3, <3>6 DEF Shard, ChainShard
  <2> QED BY <2>1, <2>2, <2>3
<1> QED BY <1>1, <1>2

-----------------------------------------------------------------------------
(* The steps of the plan.                                                    *)

\* A segment is placed: its tokens get the rows from the loads of their ranks on.
LEMMA PlaceKeeps ==
  ASSUME FamiliesInv, PlacedInv, next \in DOMAIN segs, NEW own \in 0..CpSize,
         own = Chained => attention \in [RealTokens -> Ranks], Place(own)
  PROVE  PlacedInv'
<1> DEFINE new == Tokens(segs[next])
           S(r) == Shard(next, own, r)
           RankOf(t) == CHOOSE r \in Ranks : t \in S(r)
<1>1. PICK a \in Nat, b \in Int : new = a..b
  <2>1. PICK s \in Nat, n \in Nat : s = segs[next].start /\ n = segs[next].length
    BY TokensFacts
  <2>2. s + n - 1 \in Int /\ new = s..(s + n - 1)
    BY <2>1 DEF Tokens
  <2> QED BY <2>1, <2>2
<1>2. \A r : S(r) \in SUBSET (a..b)
  BY <1>1, ShardsCover
<1>3. \A t \in new : RankOf(t) \in Ranks /\ t \in S(RankOf(t))
  BY ShardsCover
<1>4. /\ gdn' = [t \in DOMAIN gdn \cup new |-> IF t \in new THEN RankOf(t) ELSE gdn[t]]
      /\ position' = [t \in DOMAIN position \cup new |->
                        IF t \in new THEN loads[RankOf(t)] + t - First(S(RankOf(t)))
                        ELSE position[t]]
      /\ loads' = [r \in Ranks |-> loads[r] + Extent(S(r))]
      /\ next' = next + 1 /\ segs' = segs
  BY DEF Place, parseVars
<1>5. \A r : Extent(S(r)) \in Nat
  <2>1. ASSUME NEW r, S(r) # {} PROVE Extent(S(r)) \in Nat
    <3>1. First(S(r)) \in a..b /\ Last(S(r)) \in a..b /\ First(S(r)) <= Last(S(r))
      BY <1>2, <2>1, Ends
    <3>2. Extent(S(r)) = Last(S(r)) - First(S(r)) + 1
      BY <2>1 DEF Extent
    <3> QED BY <3>1, <3>2
  <2>2. ASSUME NEW r, S(r) = {} PROVE Extent(S(r)) \in Nat
    BY <2>2 DEF Extent
  <2> QED BY <2>1, <2>2
<1>6. ASSUME NEW t \in new
      PROVE  /\ First(S(RankOf(t))) \in a..b /\ First(S(RankOf(t))) <= t
             /\ t - First(S(RankOf(t))) < Extent(S(RankOf(t)))
  <2> DEFINE T == S(RankOf(t))
  <2>1. t \in T /\ T \in SUBSET (a..b) /\ T # {}
    BY <1>2, <1>3
  <2> HIDE DEF T
  <2>2. First(T) \in T /\ First(T) <= t /\ Last(T) \in T /\ t <= Last(T)
    BY <1>1, <2>1, Ends
  <2>3. Extent(T) = Last(T) - First(T) + 1
    BY <2>1 DEF Extent
  <2>4. First(T) \in a..b /\ Last(T) \in a..b /\ t \in a..b
    BY <2>1, <2>2
  <2>5. t - First(T) < Extent(T)
    BY <2>2, <2>3, <2>4
  <2> QED BY <2>2, <2>4, <2>5 DEF T
<1> HIDE DEF new, S, RankOf
<1>7. \A r \in Ranks : loads[r] \in Nat
  BY DEF PlacedInv
<1>8. /\ loads' \in [Ranks -> Nat] /\ DOMAIN gdn' = DOMAIN position'
      /\ DOMAIN gdn' = DOMAIN gdn \cup new
      /\ \A r \in Ranks : loads'[r] = loads[r] + Extent(S(r)) /\ loads[r] <= loads'[r]
  <2>1. \A r \in Ranks : loads[r] + Extent(S(r)) \in Nat /\ loads[r] <= loads[r] + Extent(S(r))
    BY <1>5, <1>7
  <2> QED BY <1>4, <2>1 DEF PlacedInv
<1>9. ASSUME NEW t \in new
      PROVE  /\ gdn'[t] = RankOf(t) /\ RankOf(t) \in Ranks /\ t \in Nat
             /\ position'[t] = loads[RankOf(t)] + t - First(S(RankOf(t)))
             /\ position'[t] \in Nat /\ loads[RankOf(t)] <= position'[t]
             /\ position'[t] < loads'[RankOf(t)]
  <2>1. gdn'[t] = RankOf(t) /\ position'[t] = loads[RankOf(t)] + t - First(S(RankOf(t)))
    BY <1>4
  <2>2. RankOf(t) \in Ranks /\ loads[RankOf(t)] \in Nat
        /\ loads'[RankOf(t)] = loads[RankOf(t)] + Extent(S(RankOf(t)))
    BY <1>3, <1>7, <1>8
  <2>3. PICK f \in Nat : f = First(S(RankOf(t))) /\ f <= t /\ t - f < Extent(S(RankOf(t)))
    BY <1>6
  <2>4. Extent(S(RankOf(t))) \in Nat /\ t \in Nat
    BY <1>1, <1>5
  <2> QED BY <2>1, <2>2, <2>3, <2>4
<1>10. ASSUME NEW t \in DOMAIN gdn', t \notin new
       PROVE  /\ t \in DOMAIN gdn /\ gdn'[t] = gdn[t] /\ position'[t] = position[t]
              /\ gdn[t] \in Ranks /\ position[t] \in Nat /\ position[t] < loads[gdn[t]]
              /\ position[t] < loads'[gdn[t]]
  <2>1. t \in DOMAIN gdn /\ t \in DOMAIN position
    BY <1>8, <1>10 DEF PlacedInv
  <2>2. gdn'[t] = gdn[t] /\ position'[t] = position[t]
    BY <1>4, <1>10, <2>1
  <2>3. gdn[t] \in Ranks /\ position[t] \in Nat /\ position[t] < loads[gdn[t]]
    BY <2>1 DEF PlacedInv
  <2>4. loads[gdn[t]] \in Nat /\ loads'[gdn[t]] \in Nat /\ loads[gdn[t]] <= loads'[gdn[t]]
    BY <1>7, <1>8, <2>3
  <2> QED BY <2>1, <2>2, <2>3, <2>4
<1>11. ASSUME NEW t \in DOMAIN gdn'
       PROVE  gdn'[t] \in Ranks /\ position'[t] \in Nat /\ position'[t] < loads'[gdn'[t]]
  <2>1. CASE t \in new
    BY <1>9, <2>1
  <2>2. CASE t \notin new
    BY <1>10, <2>2
  <2> QED BY <2>1, <2>2
<1>12. ASSUME NEW t \in DOMAIN gdn', NEW u \in DOMAIN gdn', gdn'[t] = gdn'[u],
              position'[t] = position'[u]
       PROVE  t = u
  <2>1. CASE t \in new /\ u \in new
    <3>1. RankOf(t) = RankOf(u)
      BY <1>9, <1>12, <2>1
    <3>2. PICK r, f : r = loads[RankOf(t)] /\ f = First(S(RankOf(t)))
      OBVIOUS
    <3>3. r \in Nat /\ f \in Int
      <4>1. f \in a..b
        BY <1>6, <2>1, <3>2
      <4> QED BY <1>3, <1>7, <2>1, <3>2, <4>1
    <3>4. r + t - f = r + u - f /\ t \in Nat /\ u \in Nat
      BY <1>9, <1>12, <2>1, <3>1, <3>2
    <3> QED BY <3>3, <3>4
  <2>2. CASE t \notin new /\ u \notin new
    BY <1>10, <1>12, <2>2 DEF PlacedInv
  <2>3. CASE t \in new /\ u \notin new
    <3>1. gdn[u] = RankOf(t) /\ position'[t] = position[u]
      BY <1>9, <1>10, <1>12, <2>3
    <3>2. position[u] < loads[RankOf(t)] /\ loads[RankOf(t)] <= position[u]
      BY <1>9, <1>10, <2>3, <3>1
    <3>3. position[u] \in Nat /\ loads[RankOf(t)] \in Nat
      BY <1>3, <1>7, <1>10, <2>3
    <3> QED BY <3>2, <3>3
  <2>4. CASE t \notin new /\ u \in new
    <3>1. gdn[t] = RankOf(u) /\ position'[u] = position[t]
      BY <1>9, <1>10, <1>12, <2>4
    <3>2. position[t] < loads[RankOf(u)] /\ loads[RankOf(u)] <= position[t]
      BY <1>9, <1>10, <2>4, <3>1
    <3>3. position[t] \in Nat /\ loads[RankOf(u)] \in Nat
      BY <1>3, <1>7, <1>10, <2>4
    <3> QED BY <3>2, <3>3
  <2> QED BY <2>1, <2>2, <2>3, <2>4
<1>13. /\ next' \in 1..(Len(segs') + 1)
       /\ \A i \in 1..(next' - 1) : Tokens(segs'[i]) \subseteq DOMAIN gdn'
  <2>1. PICK n \in Nat : n = next /\ n \in 1..Len(segs)
    BY DEF FamiliesInv
  <2>2. next' = n + 1 /\ next' \in 1..(Len(segs') + 1)
    BY <1>4, <2>1
  <2>3. ASSUME NEW i \in 1..(next' - 1) PROVE Tokens(segs'[i]) \subseteq DOMAIN gdn'
    <3>1. i \in 1..(n - 1) \/ i = n
      BY <2>1, <2>2
    <3>2. \A j \in 1..(n - 1) : Tokens(segs[j]) \subseteq DOMAIN gdn
      BY <2>1 DEF PlacedInv
    <3> QED BY <1>4, <1>8, <2>1, <3>1, <3>2 DEF new
  <2> QED BY <2>2, <2>3
<1> QED BY <1>8, <1>11, <1>12, <1>13 DEF PlacedInv

LEMMA BestOwnerIs ==
  ASSUME FamiliesInv, loads \in [Ranks -> Nat], NEW is \in SUBSET DOMAIN segs
  PROVE  BestOwner(is) \in Ranks
<1> DEFINE all == UNION {Tokens(segs[i]) : i \in is}
           g == [r \in Ranks |-> OnRank(is, r)]
           most == {r \in Ranks : \A q \in Ranks : OnRank(is, q) <= OnRank(is, r)}
<1>1. IsFiniteSet(all) /\ Cardinality(all) \in Nat
  BY TokensFinite, FS_CardinalityType
<1>2. \A r : OnRank(is, r) \in Nat /\ OnRank(is, r) <= Cardinality(all)
  <2>1. \A r : {t \in all : attention[t] = r} \in SUBSET all
    OBVIOUS
  <2> HIDE DEF all
  <2>2. \A r : /\ IsFiniteSet({t \in all : attention[t] = r})
               /\ Cardinality({t \in all : attention[t] = r}) <= Cardinality(all)
    BY <1>1, <2>1, FS_Subset
  <2> QED BY <2>2, FS_CardinalityType DEF OnRank, all
<1>3. \E r \in Ranks : \A q \in Ranks : g[q] <= g[r]
  BY <1>1, <1>2, MostOf
<1>4. most \in SUBSET Ranks /\ most # {}
  BY <1>3
<1>5. BestOwner(is) = LeastLoaded(most, loads)
  BY DEF BestOwner
<1> HIDE DEF most
<1> QED BY <1>4, <1>5, LeastLoadedIs

LEMMA LocalOwnerIs ==
  ASSUME FamiliesInv, PlacedInv, OwnersInv, phase = "place", next \in DOMAIN segs,
         ~IsChained(next)
  PROVE  LocalOwner(next) \in Ranks
<1> DEFINE f == segs[next].family
<1>1. FamilySegs(f) \in SUBSET DOMAIN segs /\ {next} \in SUBSET DOMAIN segs
  BY DEF FamilySegs
<1>2. \A is \in SUBSET DOMAIN segs : BestOwner(is) \in Ranks
  BY BestOwnerIs DEF PlacedInv
<1>3. CASE path = "families"
  <2>1. Len(bundles) = LastFamily /\ bundles \in Seq([prefix : Ranks, completions : Ranks])
    BY <1>3, FamiliesCounted DEF OwnersInv, PlannedPhases
  <2>2. f \in 1..LastFamily
    <3>1. f \in Families
      BY DEF Families
    <3> QED BY <3>1, FamiliesCounted
  <2>3. f \in DOMAIN bundles
    BY <2>1, <2>2
  <2>4. bundles[f] \in [prefix : Ranks, completions : Ranks]
    <3>1. PICK R : R = [prefix : Ranks, completions : Ranks]
      OBVIOUS
    <3>2. bundles \in Seq(R)
      BY <2>1, <3>1
    <3>3. bundles[f] \in R
      BY ONLY <2>3, <3>2
    <3> QED BY <3>1, <3>3
  <2>5. bundles[f].prefix \in Ranks /\ bundles[f].completions \in Ranks
    BY <2>4
  <2> QED BY <1>3, <2>5 DEF LocalOwner, BundleOwner
<1>4. CASE path # "families" /\ coLocate /\ f \notin chain /\ segs[next].child # 0
  <2>1. PICK p : p = PrefixOf(f) /\ p \in DOMAIN segs /\ p < next /\ segs[p].family = f
    <3>1. segs[next] \in Segment
      BY DEF FamiliesInv
    <3>2. segs[next].child > 0
      BY <1>4, <3>1 DEF Segment
    <3> QED BY <3>2, PrefixFacts
  <2>2. p \in DOMAIN owner
    <3>1. DOMAIN owner = 1..(next - 1) /\ DOMAIN segs = 1..Len(segs) /\ Len(segs) \in Nat
      BY DEF OwnersInv, FamiliesInv
    <3> QED BY <2>1, <3>1
  <2>3. owner[p] # Chained /\ owner[p] \in 0..CpSize
    <3>1. ~IsChained(p)
      BY <1>4, <2>1 DEF IsChained
    <3>2. owner[p] = Chained <=> IsChained(p)
      BY <2>2 DEF OwnersInv
    <3>3. PICK C : C = 0..CpSize
      OBVIOUS
    <3>4. owner[p] \in C
      <4>1. owner \in Seq(C)
        BY <3>3 DEF OwnersInv
      <4> QED BY ONLY <2>2, <4>1
    <3> QED BY <3>1, <3>2, <3>3, <3>4
  <2>4. owner[p] \in Ranks
    BY <2>3, PlanAssumption DEF Ranks, Chained
  <2> QED BY <1>4, <2>1, <2>4 DEF LocalOwner
<1> QED BY <1>1, <1>2, <1>3, <1>4 DEF LocalOwner

\* Between two rows there is no plan.
LEMMA PlanForgotten ==
  ASSUME PlanFresh', segs' \in Seq(Segment), phase' \notin PlannedPhases
  PROVE  PlanInv'
<1>1. /\ next' = 1 /\ gdn' = <<>> /\ position' = <<>> /\ owner' = <<>> /\ bundles' = <<>>
      /\ loads' = [r \in Ranks |-> 0]
  BY DEF PlanFresh
<1>2. PlacedInv'
  <2>1. DOMAIN gdn' = {} /\ DOMAIN position' = {} /\ loads' \in [Ranks -> Nat]
    BY <1>1
  <2>2. next' \in 1..(Len(segs') + 1) /\ 1..(next' - 1) = {}
    BY <1>1
  <2> QED BY <2>1, <2>2 DEF PlacedInv
<1>3. OwnersInv'
  <2>1. owner' \in Seq(0..CpSize) /\ Len(owner') = next' - 1 /\ DOMAIN owner' = {}
        /\ bundles' \in Seq([prefix : Ranks, completions : Ranks])
    BY <1>1
  <2> QED BY <2>1 DEF OwnersInv, PlannedPhases
<1> QED BY <1>2, <1>3 DEF PlanInv, PlannedPhases

\* Where the plan and the segments stay the phase is all that matters.
LEMMA PlanStays ==
  ASSUME PlanInv, UNCHANGED <<segs, planVars>>,
         \/ phase' = phase
         \/ phase \notin PlannedPhases /\ phase' \notin PlannedPhases
         \/ phase = "place" /\ phase' = "forward" /\ next > Len(segs)
         \/ phase = "forward" /\ phase' = "layers"
  PROVE  PlanInv'
<1>1. UNCHANGED <<segs, attention, path, chain, bundles, next, gdn, position, loads, owner>>
  BY DEF planVars, layoutVars, placeVars
<1>2. Families' = Families /\ RealTokens' = RealTokens /\ \A i : IsChained(i)' <=> IsChained(i)
  BY <1>1 DEF Families, RealTokens, IsChained, CanChain
<1>3. PlacedInv' /\ (PlanFresh => PlanFresh')
  BY <1>1 DEF PlanInv, PlacedInv, PlanFresh
<1>4. OwnersInv'
  BY <1>1, <1>2 DEF PlanInv, OwnersInv, PlannedPhases
<1>5. phase = "place" /\ phase' = "forward" => next = Len(segs) + 1
  <2>1. Len(segs) \in Nat /\ next \in 1..(Len(segs) + 1)
    <3>1. next \in 1..(Len(segs) + 1)
      BY DEF PlanInv, PlacedInv
    <3> QED BY <3>1
  <2> QED BY <2>1 DEF PlannedPhases
<1> QED BY <1>1, <1>3, <1>4, <1>5 DEF PlanInv, PlannedPhases

LEMMA ParseKeepsPlan ==
  ASSUME PlanInv, Parse, UNCHANGED planVars, FamiliesInv'
  PROVE  PlanInv'
<1>1. phase = "parse" /\ phase' \in {"parse", "rejected"}
  BY DEF Parse, ReadPrefix, ReadCompletion, RowRejected, RowRead, AtToken
<1>2. PlanFresh'
  BY <1>1 DEF PlanInv, PlannedPhases, PlanFresh, planVars, placeVars
<1> QED BY <1>1, <1>2, PlanForgotten DEF FamiliesInv, PlannedPhases

\* A row of short families, shared out by families.
LEMMA FamiliesKeep ==
  ASSUME FamiliesInv, PlanInv, BeginFamilies \/ AssignFamily \/ MoveBundle \/ BundlesSettled
  PROVE  PlanInv'
<1>1. UNCHANGED <<segs, attention, chain, placeVars>>
  BY DEF BeginFamilies, AssignFamily, MoveBundle, BundlesSettled, parseVars, layoutVars
<1>2. Families' = Families /\ Len(segs') = Len(segs)
  BY <1>1 DEF Families
<1>3. PlacedInv'
  BY <1>1 DEF PlanInv, PlacedInv, placeVars
<1>4. Cardinality(Families) \in Nat
  BY FamiliesCounted, LastFamilyFacts
<1> DEFINE B == [prefix : Ranks, completions : Ranks]
<1>5. bundles \in Seq(B)
  BY DEF PlanInv, OwnersInv
<1>6. UNCHANGED path => \A i : IsChained(i)' <=> IsChained(i)
  BY <1>1 DEF IsChained, CanChain
<1>7. CASE BeginFamilies
  <2>1. phase = "parse" /\ phase' = "bundle" /\ path' = "families" /\ bundles' = bundles
    BY <1>7 DEF BeginFamilies, AllRowsRead
  <2>2. PlanFresh
    BY <2>1 DEF PlanInv, PlannedPhases
  <2>3. bundles' = <<>> /\ owner' = <<>> /\ next' = 1
    BY <1>1, <2>1, <2>2 DEF PlanFresh, placeVars
  <2>4. OwnersInv'
    <3>1. Len(bundles') = 0 /\ Len(owner') = next' - 1 /\ DOMAIN owner' = {}
          /\ owner' \in Seq(0..CpSize) /\ bundles' \in Seq(B)
      BY <2>3
    <3> QED BY <1>2, <1>4, <2>1, <3>1 DEF OwnersInv, PlannedPhases
  <2> QED BY <1>3, <2>1, <2>4 DEF PlanInv, PlannedPhases
<1>8. CASE AssignFamily
  <2>1. /\ phase = "bundle" /\ phase' = "bundle" /\ UNCHANGED path
        /\ Len(bundles) < Cardinality(Families)
    BY <1>8 DEF AssignFamily, layoutVars
  <2>2. PICK r : r \in Ranks /\ bundles' = Append(bundles, [prefix |-> r, completions |-> r])
    <3> DEFINE load == [q \in Ranks |-> BundleLoad(bundles, q)]
    <3>1. load \in [Ranks -> Nat]
      <4>1. ASSUME NEW q \in Ranks PROVE BundleLoad(bundles, q) \in Nat
        <5> DEFINE is == {j \in DOMAIN segs : segs[j].family \in DOMAIN bundles
                                              /\ BundleOwner(bundles, j) = q}
        <5>1. is \in SUBSET DOMAIN segs
          OBVIOUS
        <5>2. IsFiniteSet(UNION {Tokens(segs[i]) : i \in is})
          BY <5>1, TokensFinite
        <5> QED BY <5>2, FS_CardinalityType DEF BundleLoad
      <4> QED BY <4>1
    <3>2. 0 \in Ranks
      BY PlanAssumption DEF Ranks
    <3> HIDE DEF load
    <3>3. LeastLoaded(Ranks, load) \in Ranks
      <4>1. Ranks \in SUBSET Ranks /\ Ranks # {}
        BY <3>2
      <4> QED BY <3>1, <4>1, LeastLoadedIs
    <3> QED BY <1>8, <3>3 DEF AssignFamily, load
  <2>3. bundles' \in Seq(B) /\ Len(bundles') = Len(bundles) + 1
    <3>1. [prefix |-> r, completions |-> r] \in B
      BY <2>2
    <3> HIDE DEF B
    <3> QED BY <1>5, <2>2, <3>1
  <2>4. Len(bundles') <= Cardinality(Families)
    <3>1. Len(bundles) \in Nat
      BY <1>5
    <3> QED BY <1>4, <2>1, <2>3, <3>1
  <2>5. OwnersInv'
    BY <1>1, <1>2, <1>6, <2>1, <2>3, <2>4 DEF PlanInv, OwnersInv, PlannedPhases, placeVars
  <2> QED BY <1>3, <2>1, <2>5 DEF PlanInv, PlannedPhases
<1>9. CASE MoveBundle
  <2>1. phase = "bundle" /\ phase' = "bundle" /\ UNCHANGED path
    BY <1>9 DEF MoveBundle, FamiliesAssigned, layoutVars
  <2>2. PICK f \in DOMAIN bundles, r \in Ranks :
          bundles' = [bundles EXCEPT ![f].completions = r]
    BY <1>9 DEF MoveBundle, Moves
  <2>3. bundles' \in Seq(B) /\ Len(bundles') = Len(bundles)
    <3>1. PICK b : b = [bundles[f] EXCEPT !.completions = r]
      OBVIOUS
    <3>2. b \in B
      <4>1. PICK C : C = B
        OBVIOUS
      <4>2. bundles[f] \in C
        <5>1. bundles \in Seq(C)
          BY <1>5, <4>1
        <5> QED BY ONLY <5>1, f \in DOMAIN bundles
      <4> QED BY <3>1, <4>1, <4>2
    <3>3. bundles' = [bundles EXCEPT ![f] = b]
      BY <2>2, <3>1
    <3> HIDE DEF B
    <3> QED BY <1>5, <3>2, <3>3
  <2>4. OwnersInv'
    BY <1>1, <1>2, <1>6, <2>1, <2>3 DEF PlanInv, OwnersInv, PlannedPhases, placeVars
  <2> QED BY <1>3, <2>1, <2>4 DEF PlanInv, PlannedPhases
<1>10. CASE BundlesSettled
  <2>1. /\ phase = "bundle" /\ phase' = "place" /\ UNCHANGED <<path, bundles>>
        /\ Len(bundles) = Cardinality(Families)
    BY <1>10 DEF BundlesSettled, FamiliesAssigned, layoutVars
  <2>2. OwnersInv'
    BY <1>1, <1>2, <1>6, <2>1 DEF PlanInv, OwnersInv, PlannedPhases, placeVars
  <2> QED BY <1>3, <2>1, <2>2 DEF PlanInv, PlannedPhases
<1> QED BY <1>7, <1>8, <1>9, <1>10

\* A row placed segment by segment.
LEMMA SegmentsKeep ==
  ASSUME FamiliesInv, PlanInv, BeginSegments \/ PlaceChained \/ PlaceLocal
  PROVE  PlanInv'
<1>1. UNCHANGED segs /\ bundles' = bundles
  BY DEF BeginSegments, PlaceChained, PlaceLocal, Place, parseVars
<1>2. Families' = Families /\ RealTokens' = RealTokens
  BY <1>1 DEF Families, RealTokens
<1>3. CASE BeginSegments
  <2>1. /\ phase = "parse" /\ phase' = "place" /\ path' = "segments"
        /\ UNCHANGED placeVars /\ attention' \in AttentionLayouts
    BY <1>3 DEF BeginSegments, AllRowsRead
  <2>2. PlanFresh
    BY <2>1 DEF PlanInv, PlannedPhases
  <2>3. attention' \in [RealTokens -> Ranks]
    BY <2>1 DEF AttentionLayouts
  <2>4. PlacedInv'
    BY <1>1, <2>1 DEF PlanInv, PlacedInv, placeVars
  <2>5. OwnersInv'
    <3>1. owner' = <<>> /\ next' = 1 /\ bundles' = <<>>
      BY <1>1, <2>1, <2>2 DEF PlanFresh, placeVars
    <3>2. Len(owner') = next' - 1 /\ DOMAIN owner' = {} /\ owner' \in Seq(0..CpSize)
          /\ bundles' \in Seq([prefix : Ranks, completions : Ranks])
      BY <3>1
    <3> QED BY <1>2, <2>1, <2>3, <3>2 DEF OwnersInv, PlannedPhases
  <2> QED BY <2>1, <2>4, <2>5 DEF PlanInv, PlannedPhases
<1>4. CASE PlaceChained \/ PlaceLocal
  <2>1. /\ phase = "place" /\ phase' = "place" /\ UNCHANGED <<attention, path, chain>>
        /\ next <= Len(segs)
    BY <1>4 DEF PlaceChained, PlaceLocal, Placing, Place, layoutVars
  <2>2. PICK n \in Nat : n = next /\ n \in 1..Len(segs) /\ n \in DOMAIN segs
    <3>1. next \in 1..(Len(segs) + 1) /\ DOMAIN segs = 1..Len(segs) /\ Len(segs) \in Nat
      BY DEF PlanInv, PlacedInv, FamiliesInv
    <3> QED BY <2>1, <3>1
  <2>3. PICK own \in 0..CpSize : Place(own) /\ (own = Chained <=> IsChained(next))
    <3>1. CASE PlaceChained
      <4>1. Place(Chained) /\ IsChained(next)
        BY <3>1 DEF PlaceChained
      <4>2. Chained \in 0..CpSize
        BY PlanAssumption DEF Chained
      <4> QED BY <4>1, <4>2
    <3>2. CASE PlaceLocal
      <4>1. Place(LocalOwner(next)) /\ ~IsChained(next)
        BY <3>2 DEF PlaceLocal
      <4>2. LocalOwner(next) \in Ranks
        BY <2>1, <2>2, <4>1, LocalOwnerIs DEF PlanInv
      <4>3. LocalOwner(next) \in 0..CpSize /\ LocalOwner(next) # Chained
        BY <4>2, PlanAssumption DEF Ranks, Chained
      <4> QED BY <4>1, <4>3
    <3> QED BY <1>4, <3>1, <3>2
  <2>4. own = Chained => attention \in [RealTokens -> Ranks]
    <3>1. own = Chained => path = "segments"
      BY <2>3 DEF IsChained
    <3> QED BY <2>1, <3>1 DEF PlanInv, OwnersInv, PlannedPhases
  <2>5. PlacedInv'
    BY <2>2, <2>3, <2>4, PlaceKeeps DEF PlanInv
  <2>6. owner' = Append(owner, own) /\ next' = next + 1
    BY <2>3 DEF Place
  <2>7. \A i : IsChained(i)' <=> IsChained(i)
    BY <1>1, <2>1 DEF IsChained, CanChain
  <2>8. /\ owner' \in Seq(0..CpSize) /\ Len(owner') = next' - 1
        /\ \A i \in DOMAIN owner' : owner'[i] = Chained <=> IsChained(i)'
    <3>1. PICK C : C = 0..CpSize /\ owner \in Seq(C) /\ own \in C /\ Len(owner) = n - 1
      BY <2>2 DEF PlanInv, OwnersInv
    <3>2. /\ owner' \in Seq(C) /\ Len(owner') = n /\ DOMAIN owner' = 1..n
          /\ owner'[n] = own /\ \A i \in 1..(n - 1) : owner'[i] = owner[i]
          /\ DOMAIN owner = 1..(n - 1)
      BY <2>2, <2>6, <3>1
    <3>3. ASSUME NEW i \in DOMAIN owner' PROVE owner'[i] = Chained <=> IsChained(i)'
      <4>1. CASE i = n
        BY <2>2, <2>3, <2>7, <3>2, <4>1
      <4>2. CASE i # n
        <5>1. i \in DOMAIN owner
          BY <2>2, <3>2, <4>2
        <5>2. owner[i] = Chained <=> IsChained(i)
          BY <5>1 DEF PlanInv, OwnersInv
        <5> QED BY <2>7, <3>2, <5>1, <5>2
      <4> QED BY <4>1, <4>2
    <3> QED BY <2>2, <2>6, <3>1, <3>2, <3>3
  <2>9. OwnersInv'
    BY <1>1, <1>2, <2>1, <2>8 DEF PlanInv, OwnersInv, PlannedPhases
  <2> QED BY <2>1, <2>5, <2>9 DEF PlanInv, PlannedPhases
<1> QED BY <1>3, <1>4

\* The steps of the planner and of the pass.
LEMMA RanksKeepPlan ==
  ASSUME FamiliesInv, PlanInv, FamiliesInv', RanksStep \/ BeginLayers
  PROVE  PlanInv'
<1>1. CASE Parse /\ UNCHANGED <<planVars, forwardVars>>
  BY <1>1, ParseKeepsPlan
<1>2. CASE Plan
  BY <1>2, FamiliesKeep, SegmentsKeep DEF Plan
<1>3. CASE Forward \/ BeginLayers
  <2>1. UNCHANGED <<segs, planVars>>
    BY <1>3 DEF Forward, BeginLayers, Begin, ScatterTokens, RunChainPrefixes,
       RunChainCompletions, ExchangeStates, GatherOutputs, RunPrefixes,
       SkipChainCompletions, RunReady, SkipExchange, RunRemote, parseVars
  <2>2. \/ phase' = phase
        \/ phase = "place" /\ phase' = "forward" /\ next > Len(segs)
        \/ phase = "forward" /\ phase' = "layers"
    BY <1>3 DEF Forward, BeginLayers, Begin, ScatterTokens, RunChainPrefixes,
       RunChainCompletions, ExchangeStates, GatherOutputs, RunPrefixes,
       SkipChainCompletions, RunReady, SkipExchange, RunRemote
  <2> QED BY <2>1, <2>2, PlanStays
<1> QED BY <1>1, <1>2, <1>3 DEF RanksStep

-----------------------------------------------------------------------------
(* The exchange between two layouts.                                         *)

\* The rows of a layout: each token's rank and its row there.
RowsAt(tokens, ranks, places) == {<<ranks[t], places[t], t>> : t \in tokens}

\* What moves each token from its place in one layout to its place in another.
MovesBetween(tokens, ranks, places, toRanks, toPlaces) ==
  {[source |-> ranks[t], from |-> places[t], dest |-> toRanks[t], to |-> toPlaces[t]] :
     t \in tokens}

LEMMA OverlapMoves ==
  ASSUME NEW T, NEW R, NEW P, NEW Q, NEW S
  PROVE  Overlap(RowsAt(T, R, P), RowsAt(T, Q, S)) = MovesBetween(T, R, P, Q, S)
<1> DEFINE A == RowsAt(T, R, P)
           G == RowsAt(T, Q, S)
<1>1. ASSUME NEW m \in Overlap(A, G) PROVE m \in MovesBetween(T, R, P, Q, S)
  <2>1. PICK p \in A \X G : p[1][3] = p[2][3]
          /\ m = [source |-> p[1][1], from |-> p[1][2], dest |-> p[2][1], to |-> p[2][2]]
    BY DEF Overlap
  <2>2. PICK t \in T : p[1] = <<R[t], P[t], t>>
    BY DEF RowsAt
  <2>3. PICK u \in T : p[2] = <<Q[u], S[u], u>>
    BY DEF RowsAt
  <2>4. t = u
    BY <2>1, <2>2, <2>3
  <2> QED BY <2>1, <2>2, <2>3, <2>4 DEF MovesBetween
<1>2. ASSUME NEW m \in MovesBetween(T, R, P, Q, S) PROVE m \in Overlap(A, G)
  <2>1. PICK t \in T :
          m = [source |-> R[t], from |-> P[t], dest |-> Q[t], to |-> S[t]]
    BY DEF MovesBetween
  <2>2. <<R[t], P[t], t>> \in A /\ <<Q[t], S[t], t>> \in G
    BY DEF RowsAt
  <2>3. PICK p : p = <<<<R[t], P[t], t>>, <<Q[t], S[t], t>>>>
    OBVIOUS
  <2>4. p \in A \X G /\ p[1][3] = p[2][3]
        /\ m = [source |-> p[1][1], from |-> p[1][2], dest |-> p[2][1], to |-> p[2][2]]
    BY <2>1, <2>2, <2>3
  <2> QED BY <2>4 DEF Overlap
<1> QED BY <1>1, <1>2

\* The inverse plan moves each token back.
LEMMA ReversedMoves ==
  ASSUME NEW T, NEW R, NEW P, NEW Q, NEW S, NEW cross, NEW plan,
         plan = [cross |-> cross, moves |-> MovesBetween(T, R, P, Q, S)]
  PROVE  Reversed(plan) = [cross |-> cross, moves |-> MovesBetween(T, Q, S, R, P)]
<1> DEFINE back == {[source |-> m.dest, from |-> m.to, dest |-> m.source, to |-> m.from] :
                      m \in plan.moves}
<1>1. back = MovesBetween(T, Q, S, R, P)
  <2>1. ASSUME NEW m \in back PROVE m \in MovesBetween(T, Q, S, R, P)
    <3>1. PICK n \in plan.moves :
            m = [source |-> n.dest, from |-> n.to, dest |-> n.source, to |-> n.from]
      OBVIOUS
    <3>2. PICK t \in T : n = [source |-> R[t], from |-> P[t], dest |-> Q[t], to |-> S[t]]
      BY DEF MovesBetween
    <3> QED BY <3>1, <3>2 DEF MovesBetween
  <2>2. ASSUME NEW m \in MovesBetween(T, Q, S, R, P) PROVE m \in back
    <3>1. PICK t \in T : m = [source |-> Q[t], from |-> S[t], dest |-> R[t], to |-> P[t]]
      BY DEF MovesBetween
    <3>2. PICK n : n = [source |-> R[t], from |-> P[t], dest |-> Q[t], to |-> S[t]]
      OBVIOUS
    <3>3. n \in plan.moves
      BY <3>2 DEF MovesBetween
    <3>4. m = [source |-> n.dest, from |-> n.to, dest |-> n.source, to |-> n.from]
      BY <3>1, <3>2
    <3> QED BY <3>3, <3>4
  <2> QED BY <2>1, <2>2
<1>2. Reversed(plan) = [plan EXCEPT !.moves = back]
  BY DEF Reversed
<1> HIDE DEF back
<1> QED BY <1>1, <1>2

\* An exchange brings every row of the one layout to its place in the other.
LEMMA Exchanged ==
  ASSUME NEW T, NEW R, NEW P, NEW Q, NEW S, NEW plan,
         plan.moves = MovesBetween(T, R, P, Q, S),
         plan.cross = 0 => \A t \in T : R[t] = Q[t],
         \A t, u \in T : R[t] = R[u] /\ P[t] = P[u] => t = u
  PROVE  Exchange(plan, RowsAt(T, R, P)) = RowsAt(T, Q, S)
<1> DEFINE held == RowsAt(T, R, P)
           moved == {m \in plan.moves : plan.cross = 0 => m.source = m.dest}
           pairs == {q \in moved \X held : q[2][1] = q[1].source /\ q[2][2] = q[1].from}
<1>1. Exchange(plan, held) = {<<p[1].dest, p[1].to, p[2][3]>> : p \in pairs}
  BY DEF Exchange
<1>2. ASSUME NEW p \in pairs PROVE <<p[1].dest, p[1].to, p[2][3]>> \in RowsAt(T, Q, S)
  <2>1. p \in moved \X held /\ p[2][1] = p[1].source /\ p[2][2] = p[1].from
    OBVIOUS
  <2>2. PICK t \in T :
          p[1] = [source |-> R[t], from |-> P[t], dest |-> Q[t], to |-> S[t]]
    BY <2>1 DEF MovesBetween
  <2>3. PICK u \in T : p[2] = <<R[u], P[u], u>>
    BY <2>1 DEF RowsAt
  <2>4. R[t] = R[u] /\ P[t] = P[u]
    BY <2>1, <2>2, <2>3
  <2>5. t = u
    BY <2>4
  <2>6. <<p[1].dest, p[1].to, p[2][3]>> = <<Q[t], S[t], t>>
    BY <2>2, <2>3, <2>5
  <2> QED BY <2>6 DEF RowsAt
<1>3. ASSUME NEW t \in T
      PROVE  \E p \in pairs : <<Q[t], S[t], t>> = <<p[1].dest, p[1].to, p[2][3]>>
  <2>1. PICK m : m = [source |-> R[t], from |-> P[t], dest |-> Q[t], to |-> S[t]]
    OBVIOUS
  <2>2. PICK h : h = <<R[t], P[t], t>>
    OBVIOUS
  <2>3. m \in moved
    <3>1. m \in plan.moves
      BY <2>1 DEF MovesBetween
    <3>2. m.source = R[t] /\ m.dest = Q[t]
      BY <2>1
    <3> QED BY <3>1, <3>2
  <2>4. h \in held
    BY <2>2 DEF RowsAt
  <2>5. h[1] = m.source /\ h[2] = m.from /\ h[3] = t /\ m.dest = Q[t] /\ m.to = S[t]
    BY <2>1, <2>2
  <2> HIDE DEF moved, held
  <2>6. PICK p : p = <<m, h>>
    OBVIOUS
  <2>7. p \in moved \X held /\ p[1] = m /\ p[2] = h
    BY <2>3, <2>4, <2>6
  <2>8. p \in pairs
    BY <2>5, <2>7
  <2> QED BY <2>5, <2>7, <2>8
<1> HIDE DEF pairs, held
<1>4. Exchange(plan, held) \subseteq RowsAt(T, Q, S)
  BY <1>1, <1>2
<1>5. RowsAt(T, Q, S) \subseteq Exchange(plan, held)
  BY <1>1, <1>3 DEF RowsAt
<1> QED BY <1>4, <1>5 DEF held

\* On a rank the attention layout has the tokens in ascending order: no two of
\* them have one row.
LEMMA AscendingRows ==
  ASSUME NEW T \in SUBSET Nat, IsFiniteSet(T), NEW R, NEW t \in T, NEW u \in T,
         R[t] = R[u],
         Cardinality({v \in T : v < t /\ R[v] = R[t]})
           = Cardinality({v \in T : v < u /\ R[v] = R[u]})
  PROVE  t = u
<1>1. ASSUME NEW a \in T, NEW b \in T, a < b, R[a] = R[b],
             Cardinality({v \in T : v < a /\ R[v] = R[a]})
               = Cardinality({v \in T : v < b /\ R[v] = R[b]})
      PROVE  FALSE
  <2> DEFINE below == {v \in T : v < a /\ R[v] = R[a]}
             above == {v \in T : v < b /\ R[v] = R[b]}
  <2>1. below \in SUBSET above /\ a \in above /\ a \notin below
    <3>1. a \in Nat /\ b \in Nat /\ \A v \in T : v \in Nat
      OBVIOUS
    <3>2. \A v \in T : v < a => v < b
      BY <1>1, <3>1
    <3>3. below \subseteq above
      BY <1>1, <3>2
    <3>4. ~(a < a)
      BY <3>1
    <3> QED BY <1>1, <3>3, <3>4
  <2>2. IsFiniteSet(above)
    <3>1. above \in SUBSET T
      OBVIOUS
    <3> QED BY <3>1, FS_Subset
  <2> HIDE DEF below, above
  <2>3. Cardinality(below) = Cardinality(above)
    BY <1>1 DEF below, above
  <2>4. below = above
    BY <2>1, <2>2, <2>3, FS_Subset
  <2> QED BY <2>1, <2>4
<1>2. t < u \/ u < t \/ t = u
  OBVIOUS
<1> QED BY <1>1, <1>2

\* The exchange of a plan, and its inverse, lead from the one layout to the other.
LEMMA LayoutsMeet ==
  ASSUME FamiliesInv, PlanInv, phase \in {"forward", "layers"}
  PROVE  /\ Exchange(AttentionToGdn, AttentionRows) = GdnRows
         /\ Exchange(Reversed(AttentionToGdn), GdnRows) = AttentionRows
<1>1. RealTokens \in SUBSET Nat /\ IsFiniteSet(RealTokens)
  BY RealTokensFinite
<1>2. RealTokens \subseteq DOMAIN gdn
  <2>1. /\ next = Len(segs) + 1 /\ \A i \in 1..(next - 1) : Tokens(segs[i]) \subseteq DOMAIN gdn
    BY DEF PlanInv, PlacedInv
  <2>2. DOMAIN segs = 1..Len(segs) /\ Len(segs) \in Nat
    BY DEF FamiliesInv
  <2>3. \A i \in DOMAIN segs : i \in 1..(next - 1)
    BY <2>1, <2>2
  <2> QED BY <2>1, <2>3 DEF RealTokens
<1>3. \A t, u \in RealTokens : gdn[t] = gdn[u] /\ position[t] = position[u] => t = u
  BY <1>2 DEF PlanInv, PlacedInv
<1>4. PICK T : T = RealTokens
  OBVIOUS
<1>5. PICK G : G = gdn
  OBVIOUS
<1>6. PICK S : S = position
  OBVIOUS
<1>7. GdnRows = RowsAt(T, G, S)
  BY <1>4, <1>5, <1>6 DEF GdnRows, RowsAt
<1>8. \E R, P : /\ AttentionRows = RowsAt(T, R, P)
                /\ CrossRankTokens = 0 => \A t \in T : R[t] = G[t]
                /\ \A t, u \in T : R[t] = R[u] /\ P[t] = P[u] => t = u
  <2>1. CASE path = "families"
    BY <1>3, <1>4, <1>5, <1>6, <1>7, <2>1 DEF AttentionRows
  <2>2. CASE path # "families"
    <3>1. PICK R : R = attention
      OBVIOUS
    <3>2. PICK P : P = [t \in T |-> Cardinality({u \in T : u < t /\ R[u] = R[t]})]
      OBVIOUS
    <3>3. AttentionRows = RowsAt(T, R, P)
      BY <1>4, <2>2, <3>1, <3>2 DEF AttentionRows, RowsAt
    <3>4. CrossRankTokens = 0 => \A t \in T : R[t] = G[t]
      <4> DEFINE cross == {t \in T : R[t] # G[t]}
      <4>1. CrossRankTokens = Cardinality(cross)
        BY <1>4, <1>5, <2>2, <3>1 DEF CrossRankTokens
      <4>2. IsFiniteSet(cross)
        <5>1. cross \in SUBSET T
          OBVIOUS
        <5> QED BY <1>1, <1>4, <5>1, FS_Subset
      <4>3. CrossRankTokens = 0 => cross = {}
        <5> HIDE DEF cross
        <5> QED BY <4>1, <4>2, FS_EmptySet
      <4> QED BY <4>3
    <3>5. ASSUME NEW t \in T, NEW u \in T, R[t] = R[u], P[t] = P[u] PROVE t = u
      <4>1. Cardinality({v \in T : v < t /\ R[v] = R[t]})
              = Cardinality({v \in T : v < u /\ R[v] = R[u]})
        BY <3>2, <3>5
      <4>2. T \in SUBSET Nat /\ IsFiniteSet(T)
        BY <1>1, <1>4
      <4> QED BY <3>5, <4>1, <4>2, AscendingRows
    <3> QED BY <3>3, <3>4, <3>5
  <2> QED BY <2>1, <2>2
<1>9. PICK R, P : /\ AttentionRows = RowsAt(T, R, P)
                  /\ CrossRankTokens = 0 => \A t \in T : R[t] = G[t]
                  /\ \A t, u \in T : R[t] = R[u] /\ P[t] = P[u] => t = u
  BY <1>8
<1>10. PICK cross : cross = CrossRankTokens
  OBVIOUS
<1>11. PICK plan : plan = [cross |-> cross, moves |-> MovesBetween(T, R, P, G, S)]
  OBVIOUS
<1>12. AttentionToGdn = plan
  BY <1>7, <1>9, <1>10, <1>11, OverlapMoves DEF AttentionToGdn
<1>13. Reversed(plan) = [cross |-> cross, moves |-> MovesBetween(T, G, S, R, P)]
  BY <1>11, ReversedMoves
<1>14. Exchange(plan, RowsAt(T, R, P)) = RowsAt(T, G, S)
  <2>1. plan.cross = cross /\ plan.moves = MovesBetween(T, R, P, G, S)
    BY <1>11
  <2>2. plan.cross = 0 => \A t \in T : R[t] = G[t]
    BY <1>9, <1>10, <2>1
  <2> QED BY <1>9, <2>1, <2>2, Exchanged
<1>15. Exchange(Reversed(plan), RowsAt(T, G, S)) = RowsAt(T, R, P)
  <2>1. PICK back : back = Reversed(plan)
    OBVIOUS
  <2>2. back.cross = cross /\ back.moves = MovesBetween(T, G, S, R, P)
    BY <1>13, <2>1
  <2>3. back.cross = 0 => \A t \in T : G[t] = R[t]
    BY <1>9, <1>10, <2>2
  <2>4. \A t, u \in T : G[t] = G[u] /\ S[t] = S[u] => t = u
    BY <1>3, <1>4, <1>5, <1>6
  <2>5. Exchange(back, RowsAt(T, G, S)) = RowsAt(T, R, P)
    BY <2>2, <2>3, <2>4, Exchanged
  <2> QED BY <2>1, <2>5
<1> QED BY <1>7, <1>9, <1>12, <1>14, <1>15

-----------------------------------------------------------------------------
(* The layers.                                                               *)

\* The rows that the i-th layer runs on.
RowsOf(i) == IF IsGdn(i) THEN GdnRows ELSE AttentionRows

LEMMA DepthIs == Depth \in Nat \ {0} /\ ~IsGdn(0)
<1>1. Stack \in Seq({"gdn", "attention"}) /\ Stack # <<>>
  BY StackAssumption
<1>2. Depth \in Nat \ {0} /\ DOMAIN Stack = 1..Depth
  BY <1>1 DEF Depth
<1> QED BY <1>2 DEF IsGdn

\* A layer enters from and leaves to the layout of its neighbours, forward and
\* backward.
LEMMA LayerKeeps ==
  ASSUME FamiliesInv, PlanInv, phase = "layers", exchange = AttentionToGdn,
         NEW i \in 1..Depth
  PROVE  /\ AsEntered(i, RowsAfter(i - 1)) = RowsOf(i)
         /\ AsLeft(i, RowsOf(i)) = RowsAfter(i)
         /\ (IF Leaves(i) THEN Exchange(exchange, RowsAfter(i)) ELSE RowsAfter(i)) = RowsOf(i)
         /\ (IF Enters(i) THEN Exchange(Reversed(exchange), RowsOf(i)) ELSE RowsOf(i))
              = RowsAfter(i - 1)
<1>1. /\ Exchange(exchange, AttentionRows) = GdnRows
      /\ Exchange(Reversed(exchange), GdnRows) = AttentionRows
  BY LayoutsMeet
<1>2. PICK before, here, after \in BOOLEAN :
        /\ before = IsGdn(i - 1) /\ here = IsGdn(i) /\ after = IsGdn(i + 1)
  BY DEF IsGdn
<1>3. (i - 1) + 1 = i
  OBVIOUS
<1>4. /\ Enters(i) <=> here /\ ~before
      /\ Leaves(i) <=> here /\ ~after
      /\ RowsOf(i) = IF here THEN GdnRows ELSE AttentionRows
      /\ RowsAfter(i - 1) = IF before /\ here THEN GdnRows ELSE AttentionRows
      /\ RowsAfter(i) = IF here /\ after THEN GdnRows ELSE AttentionRows
  BY <1>2, <1>3 DEF Enters, Leaves, RowsOf, RowsAfter
<1> QED BY <1>1, <1>4 DEF AsEntered, AsLeft

\* What the layers read of the plan stays as it is.
LEMMA RowsStay ==
  ASSUME UNCHANGED <<segs, planVars>>
  PROVE  /\ GdnRows' = GdnRows /\ AttentionRows' = AttentionRows
         /\ AttentionToGdn' = AttentionToGdn /\ \A i : RowsAfter(i)' = RowsAfter(i)
<1>1. RealTokens' = RealTokens /\ UNCHANGED <<gdn, position, attention, path>>
  BY DEF RealTokens, planVars, layoutVars, placeVars
<1>2. GdnRows' = GdnRows
  BY <1>1 DEF GdnRows
<1>3. AttentionRows' = AttentionRows
  BY <1>1, <1>2 DEF AttentionRows
<1>4. CrossRankTokens' = CrossRankTokens
  BY <1>1 DEF CrossRankTokens
<1>5. Overlap(AttentionRows, GdnRows)' = Overlap(AttentionRows, GdnRows)
  BY <1>2, <1>3 DEF Overlap
<1> QED BY <1>2, <1>3, <1>4, <1>5 DEF AttentionToGdn, RowsAfter, IsGdn

LEMMA LayersBegin ==
  ASSUME LayersInv, BeginLayers
  PROVE  LayersInv'
<1>1. /\ phase = "forward" /\ phase' = "layers" /\ UNCHANGED <<segs, planVars>>
      /\ called' = called /\ kept' = kept
      /\ exchange' = AttentionToGdn /\ hidden' = AttentionRows
  BY DEF BeginLayers, parseVars
<1>2. called' = 0 /\ kept' = <<>>
  BY <1>1 DEF LayersInv
<1>3. /\ GdnRows' = GdnRows /\ AttentionRows' = AttentionRows
      /\ AttentionToGdn' = AttentionToGdn /\ RowsAfter(0)' = RowsAfter(0)
  BY <1>1, RowsStay
<1>4. Depth \in Nat \ {0} /\ RowsAfter(0) = AttentionRows /\ Depth' = Depth
  BY DepthIs DEF RowsAfter, Depth
<1>5. hidden' = RowsAfter(called)' /\ exchange' = AttentionToGdn'
  BY <1>1, <1>2, <1>3, <1>4 DEF RowsAfter, IsGdn
<1>6. kept' \in Seq({GdnRows, AttentionRows}') /\ Len(kept') = 0 /\ DOMAIN kept' = {}
  BY <1>2
<1>7. 0 \in 0..(2 * Depth) /\ ~(0 >= Depth) /\ 0 <= Depth
  BY <1>4
<1> QED BY <1>1, <1>2, <1>4, <1>5, <1>6, <1>7 DEF LayersInv

LEMMA ForwardKeeps ==
  ASSUME FamiliesInv, PlanInv, LayersInv, LayerForward
  PROVE  LayersInv'
<1>1. /\ phase = "layers" /\ phase' = "layers" /\ UNCHANGED <<segs, planVars, exchange>>
      /\ called < Depth /\ called' = called + 1 /\ kept' = Append(kept, hidden)
  BY DEF LayerForward, parseVars, Depth
<1>2. /\ Depth \in Nat \ {0} /\ called \in 0..(2 * Depth) /\ exchange = AttentionToGdn
      /\ kept \in Seq({GdnRows, AttentionRows}) /\ Len(kept) = called
      /\ \A i \in DOMAIN kept : kept[i] = RowsAfter(i - 1)
      /\ hidden = RowsAfter(called)
  BY <1>1, DepthIs DEF LayersInv
<1>3. PICK i \in 1..Depth : i = called + 1 /\ i - 1 = called
  BY <1>1, <1>2
<1>4. /\ ran' = AsEntered(i, hidden) /\ hidden' = AsLeft(i, AsEntered(i, hidden))
      /\ i = Depth => grad' = AsLeft(i, AsEntered(i, hidden))
  BY <1>3 DEF LayerForward, Depth
<1>5. ran' = RowsOf(i) /\ hidden' = RowsAfter(i) /\ (i = Depth => grad' = RowsAfter(i))
  BY <1>1, <1>2, <1>3, <1>4, LayerKeeps
<1>6. /\ GdnRows' = GdnRows /\ AttentionRows' = AttentionRows
      /\ AttentionToGdn' = AttentionToGdn /\ \A j : RowsAfter(j)' = RowsAfter(j)
  BY <1>1, RowsStay
<1>7. PICK C : C = {GdnRows, AttentionRows} /\ kept \in Seq(C) /\ hidden \in C
  BY <1>2 DEF RowsAfter
<1>8. /\ kept' \in Seq(C) /\ Len(kept') = i /\ DOMAIN kept' = 1..i
      /\ kept'[i] = hidden /\ \A j \in 1..(i - 1) : kept'[j] = kept[j] /\ j \in DOMAIN kept
  BY <1>1, <1>2, <1>3, <1>7
<1>9. ASSUME NEW j \in DOMAIN kept' PROVE kept'[j] = RowsAfter(j - 1)
  <2>1. CASE j = i
    BY <1>2, <1>3, <1>8, <2>1
  <2>2. CASE j # i
    <3>1. j \in 1..(i - 1)
      BY <1>8, <2>2
    <3> QED BY <1>2, <1>8, <3>1
  <2> QED BY <2>1, <2>2
<1>10. /\ Depth' = Depth /\ called' = i /\ called' \in 0..(2 * Depth) /\ called' <= Depth
       /\ called' >= Depth => i = Depth /\ 2 * Depth - called' = i
       /\ Current' = i
  BY <1>1, <1>2, <1>3 DEF Depth, Current
<1>11. ran' = (IF IsGdn(Current) THEN GdnRows ELSE AttentionRows)'
  BY <1>5, <1>6, <1>10 DEF RowsOf, IsGdn
<1>12. /\ hidden' = RowsAfter(called)'
       /\ called' >= Depth => grad' = RowsAfter(2 * Depth - called)'
  BY <1>5, <1>6, <1>10 DEF RowsAfter, IsGdn, Depth
<1>13. \A j \in DOMAIN kept' : kept'[j] = RowsAfter(j - 1)'
  BY <1>6, <1>9
<1>14. kept' \in Seq({GdnRows, AttentionRows}') /\ exchange' = AttentionToGdn'
  BY <1>1, <1>2, <1>6, <1>7, <1>8
<1> QED BY <1>1, <1>8, <1>10, <1>11, <1>12, <1>13, <1>14 DEF LayersInv

LEMMA BackwardKeeps ==
  ASSUME FamiliesInv, PlanInv, LayersInv, LayerBackward
  PROVE  LayersInv'
<1>1. /\ phase = "layers" /\ phase' = "layers"
      /\ UNCHANGED <<segs, planVars, exchange, hidden>>
      /\ called \in Depth..(2 * Depth - 1) /\ called' = called + 1
  BY DEF LayerBackward, parseVars, Depth
<1>2. /\ Depth \in Nat \ {0} /\ exchange = AttentionToGdn
      /\ kept \in Seq({GdnRows, AttentionRows})
      /\ Len(kept) = IF called <= Depth THEN called ELSE 2 * Depth - called
      /\ \A i \in DOMAIN kept : kept[i] = RowsAfter(i - 1)
      /\ called >= Depth => grad = RowsAfter(2 * Depth - called)
  BY <1>1, DepthIs DEF LayersInv
<1>3. PICK i \in 1..Depth : i = 2 * Depth - called
  <2>1. 2 * Depth - called \in 1..Depth
    BY <1>1, <1>2
  <2> QED BY <2>1
<1>4. Len(kept) = i /\ DOMAIN kept = 1..i /\ kept[i] = RowsAfter(i - 1) /\ grad = RowsAfter(i)
  <2>1. Len(kept) = i
    BY <1>1, <1>2, <1>3
  <2>2. DOMAIN kept = 1..i
    BY <1>2, <2>1
  <2> QED BY <1>1, <1>2, <1>3, <2>1, <2>2
<1>5. LET left == IF Leaves(i) THEN Exchange(exchange, grad) ELSE grad
      IN  /\ ran' = AsEntered(i, kept[i])
          /\ grad' = IF Enters(i) THEN Exchange(Reversed(exchange), left) ELSE left
          /\ kept' = SubSeq(kept, 1, i - 1)
  BY <1>3 DEF LayerBackward, Depth
<1>6. ran' = RowsOf(i) /\ grad' = RowsAfter(i - 1)
  <2>1. /\ AsEntered(i, RowsAfter(i - 1)) = RowsOf(i)
        /\ (IF Leaves(i) THEN Exchange(exchange, RowsAfter(i)) ELSE RowsAfter(i)) = RowsOf(i)
        /\ (IF Enters(i) THEN Exchange(Reversed(exchange), RowsOf(i)) ELSE RowsOf(i))
              = RowsAfter(i - 1)
    BY <1>1, <1>2, LayerKeeps
  <2> QED BY <1>4, <1>5, <2>1
<1>7. /\ GdnRows' = GdnRows /\ AttentionRows' = AttentionRows
      /\ AttentionToGdn' = AttentionToGdn /\ \A j : RowsAfter(j)' = RowsAfter(j)
  BY <1>1, RowsStay
<1>8. PICK C : C = {GdnRows, AttentionRows} /\ kept \in Seq(C)
  BY <1>2
<1>9. /\ kept' \in Seq(C) /\ Len(kept') = i - 1 /\ DOMAIN kept' = 1..(i - 1)
      /\ \A j \in 1..(i - 1) : kept'[j] = kept[j] /\ j \in DOMAIN kept
  <2>1. \A j \in 1..(i - 1) : kept[j] \in C /\ j \in DOMAIN kept
    BY <1>4, <1>8
  <2>2. /\ kept' \in Seq(C) /\ Len(kept') = (IF 1 <= i - 1 THEN (i - 1) - 1 + 1 ELSE 0)
        /\ \A j \in 1..((i - 1) - 1 + 1) : kept'[j] = kept[1 + j - 1]
    <3>1. 1 \in Int /\ i - 1 \in Int
      OBVIOUS
    <3> QED BY <1>5, <2>1, <3>1, SubSeqProperties
  <2>3. Len(kept') = i - 1
    BY <2>2
  <2>4. \A j \in 1..(i - 1) : 1 + j - 1 = j /\ j \in 1..((i - 1) - 1 + 1)
    OBVIOUS
  <2>5. DOMAIN kept' = 1..(i - 1)
    BY <2>2, <2>3
  <2> QED BY <2>1, <2>2, <2>3, <2>4, <2>5
<1>10. /\ Depth' = Depth /\ called' \in 0..(2 * Depth) /\ ~(called' <= Depth)
       /\ 2 * Depth - called' = i - 1 /\ Current' = i
  <2>1. called' \in 0..(2 * Depth) /\ ~(called' <= Depth) /\ 2 * Depth - called' = i - 1
        /\ 2 * Depth + 1 - called' = i
    BY <1>1, <1>2, <1>3
  <2> QED BY <2>1 DEF Depth, Current
<1>11. ran' = (IF IsGdn(Current) THEN GdnRows ELSE AttentionRows)'
  BY <1>6, <1>7, <1>10 DEF RowsOf, IsGdn
<1>12. grad' = RowsAfter(2 * Depth - called)'
  BY <1>6, <1>7, <1>10 DEF RowsAfter, IsGdn, Depth
<1>13. \A j \in DOMAIN kept' : kept'[j] = RowsAfter(j - 1)'
  BY <1>2, <1>7, <1>9
<1>14. kept' \in Seq({GdnRows, AttentionRows}') /\ exchange' = AttentionToGdn'
  BY <1>1, <1>2, <1>7, <1>8, <1>9
<1> QED BY <1>1, <1>9, <1>10, <1>11, <1>12, <1>13, <1>14 DEF LayersInv

LEMMA LayersKeep ==
  ASSUME FamiliesInv, PlanInv, LayersInv, LayersStep
  PROVE  LayersInv'
BY LayersBegin, ForwardKeeps, BackwardKeeps DEF LayersStep

\* Away from the layers nothing touches what they keep, or it is forgotten.
LEMMA LayersStay ==
  ASSUME LayersInv,
         \/ UNCHANGED layerVars /\ phase # "layers" /\ phase' # "layers"
         \/ UNCHANGED <<segs, planVars, layerVars, phase>>
         \/ phase' # "layers" /\ called' = 0 /\ kept' = <<>>
  PROVE  LayersInv'
<1>1. CASE UNCHANGED layerVars /\ phase # "layers" /\ phase' # "layers"
  BY <1>1 DEF LayersInv, layerVars
<1>2. CASE UNCHANGED <<segs, planVars, layerVars, phase>>
  <2>1. /\ GdnRows' = GdnRows /\ AttentionRows' = AttentionRows
        /\ AttentionToGdn' = AttentionToGdn /\ \A j : RowsAfter(j)' = RowsAfter(j)
    BY <1>2, RowsStay
  <2>2. Depth' = Depth /\ Current' = Current
    BY <1>2 DEF Depth, Current, layerVars
  <2>3. /\ IsGdn(Current)' = IsGdn(Current) /\ RowsAfter(called)' = RowsAfter(called)
        /\ RowsAfter(2 * Depth - called)' = RowsAfter(2 * Depth - called)
    BY <1>2, <2>1, <2>2 DEF layerVars, RowsAfter, IsGdn
  <2> QED BY <1>2, <2>1, <2>2, <2>3 DEF LayersInv, layerVars
<1>3. CASE phase' # "layers" /\ called' = 0 /\ kept' = <<>>
  BY <1>3 DEF LayersInv
<1> QED BY <1>1, <1>2, <1>3

LEMMA LayersGiven == ASSUME LayersInv PROVE LayersGetTheirRows
<1> SUFFICES ASSUME phase = "layers", called > 0
    PROVE  /\ ran = IF IsGdn(Current) THEN GdnRows ELSE AttentionRows
           /\ called > Len(Stack) =>
                grad = IF IsGdn(Current) /\ IsGdn(Current - 1)
                       THEN GdnRows ELSE AttentionRows
  BY DEF LayersGetTheirRows
<1>1. called \in 0..(2 * Depth) /\ Depth \in Nat \ {0} /\ Depth = Len(Stack)
  BY DepthIs DEF LayersInv, Depth
<1>2. ASSUME called > Len(Stack)
      PROVE  grad = IF IsGdn(Current) /\ IsGdn(Current - 1) THEN GdnRows ELSE AttentionRows
  <2>1. grad = RowsAfter(2 * Depth - called)
    BY <1>1, <1>2 DEF LayersInv
  <2>2. PICK i : i = Current /\ i - 1 = 2 * Depth - called /\ (i - 1) + 1 = i
    BY <1>1, <1>2 DEF Current
  <2> QED BY <2>1, <2>2 DEF RowsAfter
<1> QED BY <1>2 DEF LayersInv

-----------------------------------------------------------------------------
(* The pass over the planned ranks.                                          *)

\* The segments have no token in common, and the completions of a family are
\* numbered from 1.
SegmentsInv ==
  /\ \A i, j \in DOMAIN segs : i # j => Tokens(segs[i]) \cap Tokens(segs[j]) = {}
  /\ \A i \in DOMAIN segs : segs[i].child > 0 =>
       \E j \in DOMAIN segs : segs[j].family = segs[i].family /\ segs[j].child = 1

\* The completions placed on another rank than their prefix.
Parted ==
  {i \in DOMAIN owner :
     /\ segs[i].child > 0 /\ segs[i].family \notin chain
     /\ owner[i] # owner[PrefixOf(segs[i].family)]}

TransferOf(i) ==
  [source |-> owner[PrefixOf(segs[i].family)], dest |-> owner[i],
   family |-> segs[i].family]

\* A chain begins with its prefix; a segment of one rank is there whole; the
\* state of a prefix is sent where it is needed and not computed.
SharedInv ==
  /\ chain \subseteq Families
  /\ \A f \in chain : path = "segments" /\ CanChain(PrefixOf(f))
  /\ \A i \in DOMAIN owner : owner[i] # Chained =>
       \A t \in Tokens(segs[i]) : gdn[t] = owner[i]
  /\ transfers = {TransferOf(i) : i \in Parted}
  /\ phase \notin {"place", "forward", "layers"} => chain = {}

\* The stages by which a rank has run the segments of a kind.
AfterPrefixes == {"chain completions", "ready", "exchange", "remote", "gather", "done"}
AfterChained == {"prefixes"} \cup AfterPrefixes
AfterReady == {"exchange", "remote", "gather", "done"}
AfterExchange == {"remote", "gather", "done"}

\* The stages at which a segment has run.
RanBy(i) ==
  IF owner[i] = Chained
  THEN IF segs[i].child = 0 THEN AfterChained ELSE {"ready"} \cup AfterReady
  ELSE IF segs[i].child = 0 \/ i \in WarmedUp(owner[i]) THEN AfterPrefixes
  ELSE IF i \in Ready(owner[i]) THEN AfterReady
  ELSE {"gather", "done"}

\* What token t should see of segment i and of its prefix.
Before(i, t) == {u \in Tokens(segs[i]) : u <= t}
Sees(i, t) ==
  Before(i, t)
    \cup (IF segs[i].child = 0 THEN {} ELSE PrefixTokens(segs[i].family))

\* A rank's states of the prefixes that are on every rank, of its own and of
\* those it was sent.
TablesInv ==
  /\ tables \in [Ranks -> [Families -> SUBSET RealTokens]]
  /\ \A r \in Ranks :
       /\ stage[r] \in AfterChained =>
            \A f \in PrefixesOn(Chained) : tables[r][f] = PrefixTokens(f)
       /\ stage[r] \in AfterPrefixes =>
            \A f \in PrefixesOn(r) : tables[r][f] = RunAlone(r, f)
       /\ stage[r] \in AfterExchange =>
            \A x \in transfers : x.dest = r =>
              tables[r][x.family] = RunAlone(x.source, x.family)

OutInv ==
  /\ DOMAIN out = RealTokens
  /\ \A i \in DOMAIN segs : ~SplitMidChunk(segs[i].family) =>
       \A t \in Tokens(segs[i]) :
         stage[gdn[t]] \in RanBy(i) => out[t] = Sees(i, t)

ForwardInv ==
  phase = "forward" =>
    /\ stage \in [Ranks -> {"scatter", "chain prefixes"} \cup AfterChained]
    /\ TablesInv /\ OutInv

\* What the steps of the pass rely on.
PlanFacts ==
  /\ Chained \notin Ranks /\ path \in {"families", "segments"}
  /\ DOMAIN owner = DOMAIN segs
  /\ \A f \in Families :
       /\ PrefixOf(f) \in DOMAIN segs
       /\ segs[PrefixOf(f)].child = 0 /\ segs[PrefixOf(f)].family = f
  /\ \A i \in DOMAIN segs :
       /\ segs[i].child \in Nat /\ segs[i].family \in Families
       /\ segs[i].child = 0 => PrefixOf(segs[i].family) = i
       /\ owner[i] \in Ranks \/ owner[i] = Chained
       /\ owner[i] = Chained => owner[PrefixOf(segs[i].family)] = Chained
       /\ owner[i] # Chained => \A t \in Tokens(segs[i]) : gdn[t] = owner[i]
  /\ \A t \in RealTokens : gdn[t] \in Ranks
  /\ \A i \in DOMAIN segs : \A t \in Tokens(segs[i]) : t \in RealTokens /\ SegmentOf(t) = i

TransfersAre ==
  /\ \A x \in transfers :
       /\ x.family \in Families /\ x.source = owner[PrefixOf(x.family)]
       /\ x.source \in Ranks /\ x.dest \in Ranks /\ x.dest # x.source
       /\ \E i \in Completions(x.family) : owner[i] = x.dest
  /\ \A i \in DOMAIN segs :
       LET p == PrefixOf(segs[i].family)
       IN  segs[i].child > 0 /\ owner[i] \in Ranks /\ owner[p] \in Ranks /\ owner[i] # owner[p] =>
             \E x \in transfers : x.dest = owner[i] /\ x.family = segs[i].family

LEMMA SegmentOfIs ==
  ASSUME SegmentsInv, NEW i \in DOMAIN segs, NEW t \in Tokens(segs[i])
  PROVE  SegmentOf(t) = i
<1>1. \A j \in DOMAIN segs : t \in Tokens(segs[j]) => j = i
  BY DEF SegmentsInv
<1> QED BY <1>1 DEF SegmentOf

LEMMA PlanGives ==
  ASSUME FamiliesInv, PlanInv, SegmentsInv, SharedInv,
         phase = "forward" \/ (phase = "place" /\ next > Len(segs))
  PROVE  PlanFacts /\ TransfersAre
<1>1. Chained \notin Ranks /\ \A x \in 0..CpSize : x \in Ranks \/ x = Chained
  BY PlanAssumption DEF Chained, Ranks
<1>2. path \in {"families", "segments"} /\ next = Len(segs) + 1
  <2>1. path \in {"families", "segments"}
    BY DEF PlanInv, OwnersInv, PlannedPhases
  <2>2. PICK n : n = Len(segs) /\ n \in Nat /\ next \in 1..(n + 1)
    BY DEF PlanInv, PlacedInv, FamiliesInv
  <2>3. phase = "forward" => next = n + 1
    BY <2>2 DEF PlanInv
  <2> QED BY <2>1, <2>2, <2>3
<1>3. DOMAIN owner = DOMAIN segs
  <2>1. /\ segs \in Seq(Segment) /\ owner \in Seq(0..CpSize) /\ Len(owner) = next - 1
    BY DEF FamiliesInv, PlanInv, OwnersInv
  <2>2. Len(owner) = Len(segs)
    BY <1>2, <2>1
  <2> QED BY <2>1, <2>2
<1>4. ASSUME NEW i \in DOMAIN segs
      PROVE  /\ segs[i].child \in Nat /\ segs[i].family \in Families
             /\ LET p == PrefixOf(segs[i].family)
                IN  /\ p \in DOMAIN segs /\ segs[p].child = 0 /\ segs[p].family = segs[i].family
                    /\ segs[i].child = 0 => p = i
  <2>1. segs[i].child \in Nat /\ segs[i].family \in Nat
    <3>1. segs[i] \in Segment
      BY DEF FamiliesInv
    <3> QED BY <3>1 DEF Segment
  <2> DEFINE p == PrefixOf(segs[i].family)
  <2>2. p \in DOMAIN segs /\ p <= i /\ segs[p].child = 0 /\ segs[p].family = segs[i].family
    BY PrefixFacts
  <2> HIDE DEF p
  <2>3. segs[i].child = 0 => p = i
    <3>1. SUFFICES ASSUME segs[i].child = 0, p # i PROVE FALSE
      OBVIOUS
    <3>2. p \in 1..(i - 1)
      <4>1. DOMAIN segs = 1..Len(segs) /\ Len(segs) \in Nat
        BY DEF FamiliesInv
      <4> QED BY <2>2, <3>1, <4>1
    <3>3. segs[p].family < segs[i].family
      BY <3>1, <3>2 DEF FamiliesInv
    <3> QED BY <2>1, <2>2, <3>3
  <2> QED BY <2>1, <2>2, <2>3 DEF p, Families
<1>5. \A f \in Families : \E i \in DOMAIN segs : f = segs[i].family
  BY DEF Families
<1>6. ASSUME NEW i \in DOMAIN segs
      PROVE  /\ owner[i] \in Ranks \/ owner[i] = Chained
             /\ owner[i] = Chained <=> IsChained(i)
  <2>1. owner[i] \in 0..CpSize
    <3>1. PICK o, C : o = owner /\ C = 0..CpSize /\ o \in Seq(C)
      BY DEF PlanInv, OwnersInv
    <3>2. i \in DOMAIN o
      BY <1>3, <3>1
    <3>3. o[i] \in C
      <4>1. o \in Seq(C)
        BY <3>1
      <4> QED BY ONLY <4>1, <3>2
    <3> QED BY <3>1, <3>3
  <2> QED BY <1>1, <1>3, <2>1 DEF PlanInv, OwnersInv
<1>7. ASSUME NEW f \in chain PROVE f \in Families /\ owner[PrefixOf(f)] = Chained
  <2>1. f \in Families /\ path = "segments" /\ CanChain(PrefixOf(f))
    BY DEF SharedInv
  <2>2. PrefixOf(f) \in DOMAIN segs /\ segs[PrefixOf(f)].family = f
    BY <1>4, <1>5, <2>1
  <2> QED BY <1>6, <2>1, <2>2 DEF IsChained
<1>8. \A i \in DOMAIN segs : owner[i] = Chained => segs[i].family \in chain
  BY <1>6 DEF IsChained
<1>9. ASSUME NEW t \in RealTokens PROVE gdn[t] \in Ranks
  <2>1. PICK i \in DOMAIN segs : t \in Tokens(segs[i])
    BY DEF RealTokens
  <2>2. i \in 1..(next - 1)
    <3>1. segs \in Seq(Segment)
      BY DEF FamiliesInv
    <3> QED BY <1>2, <3>1
  <2> QED BY <2>1, <2>2 DEF PlanInv, PlacedInv
<1>10. PlanFacts
  <2>1. \A i \in DOMAIN segs : \A t \in Tokens(segs[i]) : t \in RealTokens /\ SegmentOf(t) = i
    BY SegmentOfIs DEF RealTokens
  <2>2. \A i \in DOMAIN segs : owner[i] # Chained => \A t \in Tokens(segs[i]) : gdn[t] = owner[i]
    BY <1>3 DEF SharedInv
  <2>3. \A f \in Families :
          /\ PrefixOf(f) \in DOMAIN segs
          /\ segs[PrefixOf(f)].child = 0 /\ segs[PrefixOf(f)].family = f
    BY <1>4, <1>5
  <2> QED BY <1>1, <1>2, <1>3, <1>4, <1>6, <1>7, <1>8, <1>9, <2>1, <2>2, <2>3 DEF PlanFacts
<1>11. ASSUME NEW x \in transfers
       PROVE  /\ x.family \in Families /\ x.source = owner[PrefixOf(x.family)]
              /\ x.source \in Ranks /\ x.dest \in Ranks /\ x.dest # x.source
              /\ \E i \in Completions(x.family) : owner[i] = x.dest
  <2>1. PICK i \in Parted :
          x = [source |-> owner[PrefixOf(segs[i].family)], dest |-> owner[i],
               family |-> segs[i].family]
    BY DEF SharedInv, TransferOf
  <2>2. /\ i \in DOMAIN segs /\ segs[i].child > 0 /\ segs[i].family \notin chain
        /\ owner[i] # owner[PrefixOf(segs[i].family)]
    BY <1>3 DEF Parted
  <2>3. owner[i] \in Ranks
    BY <1>6, <1>8, <2>2
  <2>4. PrefixOf(segs[i].family) \in DOMAIN segs /\ segs[PrefixOf(segs[i].family)].family = segs[i].family
    BY <1>4, <2>2
  <2>5. owner[PrefixOf(segs[i].family)] \in Ranks
    BY <1>6, <1>8, <2>2, <2>4
  <2>6. i \in Completions(segs[i].family)
    BY <2>2 DEF Completions, FamilySegs
  <2> QED BY <1>4, <2>1, <2>2, <2>3, <2>5, <2>6
<1>12. ASSUME NEW i \in DOMAIN segs, segs[i].child > 0, owner[i] \in Ranks,
              owner[PrefixOf(segs[i].family)] \in Ranks,
              owner[i] # owner[PrefixOf(segs[i].family)]
       PROVE  \E x \in transfers : x.dest = owner[i] /\ x.family = segs[i].family
  <2>1. segs[i].family \notin chain
    BY <1>1, <1>7, <1>12
  <2>2. i \in Parted
    BY <1>3, <1>12, <2>1 DEF Parted
  <2> DEFINE x == [source |-> owner[PrefixOf(segs[i].family)], dest |-> owner[i],
                   family |-> segs[i].family]
  <2>3. x \in transfers
    BY <2>2 DEF SharedInv, TransferOf
  <2>4. x.dest = owner[i] /\ x.family = segs[i].family
    OBVIOUS
  <2> HIDE DEF x
  <2> QED BY <2>3, <2>4
<1>13. TransfersAre
  BY <1>11, <1>12 DEF TransfersAre
<1> QED BY <1>10, <1>13

\* A prefix is its whole chunks and its tail.
LEMMA AloneIs ==
  ASSUME PlanFacts, NEW r, NEW f \in Families
  PROVE  /\ RunAlone(r, f) \cup PrefixTail(f) = PrefixTokens(f)
         /\ RunAlone(r, f) \subseteq PrefixTokens(f) /\ PrefixTail(f) \subseteq PrefixTokens(f)
         /\ PrefixTokens(f) \subseteq RealTokens
         /\ path = "families" \/ PrefixTail(f) = {} => RunAlone(r, f) = PrefixTokens(f)
<1>1. Boundary(f) \subseteq PrefixTokens(f)
  BY DEF Boundary, PrefixTokens
<1>2. PrefixTail(f) = PrefixTokens(f) \ Boundary(f)
  BY DEF PrefixTail
<1>3. RunAlone(r, f) = PrefixTokens(f) \/ (path # "families" /\ RunAlone(r, f) = Boundary(f))
  BY DEF RunAlone
<1>4. PrefixTokens(f) \subseteq RealTokens
  BY DEF PrefixTokens, PlanFacts
<1> QED BY <1>1, <1>2, <1>3, <1>4

\* A rank whose prefix is needed elsewhere runs it whole, unless it ends within
\* a chunk and a completion here follows it.
LEMMA AloneWhole ==
  ASSUME PlanFacts, NEW q \in Ranks, NEW f \in PrefixesOn(q), NEW i \in Completions(f),
         owner[i] # q, ~SplitMidChunk(f)
  PROVE  RunAlone(q, f) = PrefixTokens(f)
<1>1. f \in Families /\ owner[PrefixOf(f)] = q /\ q # Chained
  BY DEF PrefixesOn, PlanFacts
<1>2. CASE path = "families" \/ PrefixTail(f) = {}
  BY <1>1, <1>2, AloneIs
<1>3. CASE path = "segments" /\ PrefixTail(f) # {}
  <2>1. ~ \E j \in Completions(f) : owner[j] = q
    BY <1>1, <1>3 DEF SplitMidChunk
  <2>2. Completions(f) \cap WarmedUp(q) = {}
    BY <2>1 DEF WarmedUp, CompletionsOn, OwnedBy
  <2> QED BY <2>2 DEF RunAlone, TailAlone
<1> QED BY <1>2, <1>3 DEF PlanFacts

\* What a rank does not run of its prefix by itself it runs before the first
\* completion of the family.
LEMMA TailShared ==
  ASSUME PlanFacts, SegmentsInv, NEW r \in Ranks, NEW f \in PrefixesOn(r), ~SplitMidChunk(f)
  PROVE  PrefixTokens(f) \subseteq RunAlone(r, f) \cup Unmasked(r)
<1>1. f \in Families /\ owner[PrefixOf(f)] = r /\ r # Chained
  BY DEF PrefixesOn, PlanFacts
<1>2. CASE path = "families" \/ PrefixTail(f) = {} \/ f \in TailAlone(r)
  <2>1. RunAlone(r, f) = PrefixTokens(f)
    BY <1>1, <1>2, AloneIs DEF RunAlone
  <2> QED BY <2>1
<1>3. CASE path = "segments" /\ PrefixTail(f) # {} /\ f \notin TailAlone(r)
  <2>1. PICK c \in Completions(f) : c \in WarmedUp(r)
    BY <1>3 DEF TailAlone
  <2>2. owner[c] = r /\ c \in DOMAIN segs /\ segs[c].family = f /\ segs[c].child > 0
    BY <2>1, <1>3 DEF WarmedUp, CompletionsOn, OwnedBy, Completions, FamilySegs
  <2>3. PICK j \in DOMAIN segs : segs[j].family = f /\ segs[j].child = 1
    BY <2>2 DEF SegmentsInv
  <2>4. j \in Completions(f) /\ segs[j].child > 0
    BY <2>3 DEF Completions, FamilySegs
  <2>5. owner[j] = r
    BY <1>1, <1>3, <2>1, <2>2, <2>4 DEF SplitMidChunk
  <2>6. j \in WarmedUp(r)
    BY <1>3, <2>3, <2>4, <2>5 DEF WarmedUp, CompletionsOn, OwnedBy
  <2>7. PrefixTail(f) \subseteq Unmasked(r)
    BY <2>3, <2>6 DEF Unmasked
  <2> QED BY <1>1, <2>7, AloneIs
<1> QED BY <1>2, <1>3 DEF PlanFacts

LEMMA RunDomain == ASSUME NEW o, NEW S, NEW table PROVE DOMAIN Run(o, S, table) = DOMAIN o
BY DEF Run

\* A token is among those of some segments if its own is.
LEMMA TokenOf ==
  ASSUME PlanFacts, NEW i \in DOMAIN segs, NEW t \in Tokens(segs[i])
  PROVE  /\ t \in RealTokens /\ gdn[t] \in Ranks
         /\ \A is \in SUBSET DOMAIN segs : t \in TokensOfAll(is) <=> i \in is
         /\ \A f \in Families : t \in PrefixTokens(f) <=>
              segs[i].child = 0 /\ segs[i].family = f
<1>1. \A j \in DOMAIN segs : t \in Tokens(segs[j]) => j = i
  BY DEF PlanFacts
<1>2. \A is \in SUBSET DOMAIN segs : t \in TokensOfAll(is) <=> i \in is
  BY <1>1 DEF TokensOfAll
<1>3. ASSUME NEW f \in Families
      PROVE  t \in PrefixTokens(f) <=> segs[i].child = 0 /\ segs[i].family = f
  <2>1. PrefixOf(f) \in DOMAIN segs /\ segs[PrefixOf(f)].child = 0 /\ segs[PrefixOf(f)].family = f
    BY DEF PlanFacts
  <2>2. segs[i].child = 0 => PrefixOf(segs[i].family) = i
    BY DEF PlanFacts
  <2> QED BY <1>1, <2>1, <2>2 DEF PrefixTokens
<1> QED BY <1>2, <1>3 DEF PlanFacts

\* The buckets hold segments.
LEMMA BucketsAre ==
  ASSUME PlanFacts, NEW r
  PROVE  /\ CompletionsOn(r) \subseteq DOMAIN segs /\ WarmedUp(r) \subseteq CompletionsOn(r)
         /\ Ready(r) \subseteq CompletionsOn(r) /\ Remote(r) \subseteq CompletionsOn(r)
         /\ Ready(r) \cap WarmedUp(r) = {} /\ Remote(r) \cap WarmedUp(r) = {}
         /\ Remote(r) \cap Ready(r) = {}
         /\ CompletionsOn(r) \subseteq WarmedUp(r) \cup Ready(r) \cup Remote(r)
         /\ PrefixesOn(r) \subseteq Families
         /\ \A i \in CompletionsOn(r) : owner[i] = r /\ segs[i].child > 0
         /\ \A i \in WarmedUp(r) : path # "families" /\ segs[i].family \in PrefixesOn(r)
         /\ \A i \in Ready(r) : segs[i].family \in PrefixesOn(Chained) \cup PrefixesOn(r)
         /\ \A i \in Remote(r) : segs[i].family \notin PrefixesOn(Chained) \cup PrefixesOn(r)
         /\ \A i \in DOMAIN segs :
              segs[i].child # 0 /\ owner[i] = r => i \in CompletionsOn(r)
<1>1. \A i \in DOMAIN segs : segs[i].child # 0 => segs[i].child > 0
  BY DEF PlanFacts
<1>2. /\ CompletionsOn(r) \subseteq DOMAIN segs
      /\ \A i \in CompletionsOn(r) : owner[i] = r /\ segs[i].child > 0
      /\ \A i \in DOMAIN segs :
              segs[i].child > 0 /\ owner[i] = r => i \in CompletionsOn(r)
  BY DEF CompletionsOn, OwnedBy
<1>3. /\ WarmedUp(r) \subseteq CompletionsOn(r)
      /\ \A i \in WarmedUp(r) : path # "families" /\ segs[i].family \in PrefixesOn(r)
      /\ path # "families" => \A i \in CompletionsOn(r) :
           segs[i].family \in PrefixesOn(r) => i \in WarmedUp(r)
  BY DEF WarmedUp
<1>4. PrefixesOn(r) \subseteq Families
  BY DEF PrefixesOn
<1> QED BY <1>1, <1>2, <1>3, <1>4 DEF Ready, Remote

\* The plan stays while the ranks compute.
LEMMA PlanFixed ==
  ASSUME UNCHANGED <<segs, planVars>>
  PROVE  /\ Families' = Families /\ RealTokens' = RealTokens
         /\ gdn' = gdn /\ owner' = owner /\ transfers' = transfers /\ path' = path
         /\ \A f : PrefixTokens(f)' = PrefixTokens(f) /\ SplitMidChunk(f)' = SplitMidChunk(f)
         /\ \A i : RanBy(i)' = RanBy(i)
         /\ \A i, t : Sees(i, t)' = Sees(i, t)
         /\ \A r : PrefixesOn(r)' = PrefixesOn(r)
         /\ \A r, f : RunAlone(r, f)' = RunAlone(r, f)
<1>1. /\ segs' = segs /\ gdn' = gdn /\ owner' = owner /\ transfers' = transfers
      /\ path' = path
  BY DEF planVars, placeVars, layoutVars
<1>2. Families' = Families /\ RealTokens' = RealTokens
  BY <1>1 DEF Families, RealTokens
<1>3. \A f : FamilySegs(f)' = FamilySegs(f)
  BY <1>1 DEF FamilySegs
<1>4. \A f : PrefixOf(f)' = PrefixOf(f)
  BY <1>1, <1>3 DEF PrefixOf
<1>5. \A f : Completions(f)' = Completions(f)
  BY <1>1, <1>3 DEF Completions
<1>6. \A f : PrefixTokens(f)' = PrefixTokens(f)
  BY <1>1, <1>4 DEF PrefixTokens
<1>7. \A f : Boundary(f)' = Boundary(f)
  BY <1>1, <1>4 DEF Boundary
<1>8. \A f : PrefixTail(f)' = PrefixTail(f)
  BY <1>6, <1>7 DEF PrefixTail
<1>9. \A r : OwnedBy(r)' = OwnedBy(r)
  BY <1>1 DEF OwnedBy
<1>10. \A r : CompletionsOn(r)' = CompletionsOn(r)
  BY <1>1, <1>9 DEF CompletionsOn
<1>11. \A r : PrefixesOn(r)' = PrefixesOn(r)
  BY <1>1, <1>2, <1>4 DEF PrefixesOn
<1>12. \A r : WarmedUp(r)' = WarmedUp(r)
  BY <1>1, <1>10, <1>11 DEF WarmedUp
<1>13. \A r : TailAlone(r)' = TailAlone(r)
  BY <1>5, <1>11, <1>12 DEF TailAlone
<1>14. \A r : Ready(r)' = Ready(r)
  BY <1>1, <1>10, <1>11, <1>12 DEF Ready
<1>15. \A r, f : RunAlone(r, f)' = RunAlone(r, f)
  BY <1>1, <1>6, <1>7, <1>13 DEF RunAlone
<1>16. \A i : RanBy(i)' = RanBy(i)
  BY <1>1, <1>12, <1>14 DEF RanBy, AfterPrefixes, AfterChained, AfterReady
<1>17. \A f : SplitMidChunk(f)' = SplitMidChunk(f)
  BY <1>1, <1>4, <1>5, <1>8 DEF SplitMidChunk
<1>18. \A i, t : Sees(i, t)' = Sees(i, t)
  BY <1>1, <1>6 DEF Sees, Before
<1> QED BY <1>1, <1>2, <1>6, <1>11, <1>15, <1>16, <1>17, <1>18

\* What is left to show of a step: the tokens that have run see what they should.
LEMMA OutKeeps ==
  ASSUME UNCHANGED <<segs, planVars>>, DOMAIN out' = RealTokens,
         \A i \in DOMAIN segs : \A t \in Tokens(segs[i]) :
           ~SplitMidChunk(segs[i].family) /\ stage'[gdn[t]] \in RanBy(i)
             => out'[t] = Sees(i, t)
  PROVE  OutInv'
<1>1. segs' = segs
  OBVIOUS
<1> QED BY <1>1, PlanFixed DEF OutInv

LEMMA TablesKeep ==
  ASSUME UNCHANGED <<segs, planVars>>,
         tables' \in [Ranks -> [Families -> SUBSET RealTokens]],
         \A r \in Ranks :
           /\ stage'[r] \in AfterChained =>
                \A f \in PrefixesOn(Chained) : tables'[r][f] = PrefixTokens(f)
           /\ stage'[r] \in AfterPrefixes =>
                \A f \in PrefixesOn(r) : tables'[r][f] = RunAlone(r, f)
           /\ stage'[r] \in AfterExchange =>
                \A x \in transfers : x.dest = r =>
                  tables'[r][x.family] = RunAlone(x.source, x.family)
  PROVE  TablesInv'
<1>1. Families' = Families /\ RealTokens' = RealTokens /\ transfers' = transfers
  BY PlanFixed
<1>2. \A f : PrefixTokens(f)' = PrefixTokens(f)
  BY PlanFixed
<1>3. \A r : PrefixesOn(r)' = PrefixesOn(r)
  BY PlanFixed
<1>4. \A r, f : RunAlone(r, f)' = RunAlone(r, f)
  BY PlanFixed
<1>5. PrefixesOn(Chained)' = PrefixesOn(Chained)
  BY <1>3
<1>6. tables' \in [Ranks -> [Families' -> SUBSET RealTokens']]
  BY <1>1
<1> QED BY <1>1, <1>2, <1>3, <1>4, <1>5, <1>6 DEF TablesInv, AfterChained, AfterPrefixes, AfterExchange

\* When the segments run, by their kind.
LEMMA RanByIs ==
  ASSUME PlanFacts, NEW i \in DOMAIN segs
  PROVE  /\ segs[i].child = 0 /\ owner[i] = Chained => RanBy(i) = AfterChained
         /\ segs[i].child = 0 /\ owner[i] # Chained => RanBy(i) = AfterPrefixes
         /\ i \in CompletionsOn(Chained) => RanBy(i) = {"ready"} \cup AfterReady
         /\ \A r \in Ranks :
              /\ i \in WarmedUp(r) => RanBy(i) = AfterPrefixes
              /\ i \in Ready(r) => RanBy(i) = AfterReady
              /\ i \in Remote(r) => RanBy(i) = {"gather", "done"}
         /\ \/ segs[i].child = 0 /\ owner[i] = Chained
            \/ segs[i].child = 0 /\ owner[i] \in Ranks
            \/ i \in CompletionsOn(Chained)
            \/ \E r \in Ranks : i \in WarmedUp(r) \cup Ready(r) \cup Remote(r)
<1>1. Chained \notin Ranks /\ segs[i].child \in Nat /\ (owner[i] \in Ranks \/ owner[i] = Chained)
  BY DEF PlanFacts
<1>2. i \in CompletionsOn(Chained) => RanBy(i) = {"ready"} \cup AfterReady
  BY <1>1 DEF CompletionsOn, OwnedBy, RanBy
<1>3. ASSUME NEW r \in Ranks
      PROVE  /\ i \in WarmedUp(r) => RanBy(i) = AfterPrefixes
             /\ i \in Ready(r) => RanBy(i) = AfterReady
             /\ i \in Remote(r) => RanBy(i) = {"gather", "done"}
  <2>1. i \in CompletionsOn(r) => owner[i] = r /\ owner[i] # Chained /\ segs[i].child # 0
    BY <1>1 DEF CompletionsOn, OwnedBy
  <2> QED BY <2>1, BucketsAre DEF RanBy
<1>4. \/ segs[i].child = 0 /\ owner[i] = Chained
      \/ segs[i].child = 0 /\ owner[i] \in Ranks
      \/ i \in CompletionsOn(Chained)
      \/ \E r \in Ranks : i \in WarmedUp(r) \cup Ready(r) \cup Remote(r)
  BY <1>1, BucketsAre
<1> QED BY <1>1, <1>2, <1>3, <1>4 DEF RanBy

\* The pass is on, over a plan.
Passing == PlanFacts /\ TransfersAre /\ SegmentsInv /\ phase = "forward" /\ ForwardInv

Stages == {"scatter", "chain prefixes"} \cup AfterChained

LEMMA PassingIs ==
  ASSUME Passing
  PROVE  /\ stage \in [Ranks -> Stages] /\ TablesInv
         /\ DOMAIN out = RealTokens
         /\ \A i \in DOMAIN segs : \A t \in Tokens(segs[i]) :
              ~SplitMidChunk(segs[i].family) /\ stage[gdn[t]] \in RanBy(i)
                => out[t] = Sees(i, t)
BY DEF Passing, ForwardInv, OutInv, Stages

LEMMA StillPassing ==
  ASSUME stage' \in [Ranks -> Stages], TablesInv', OutInv'
  PROVE  ForwardInv'
BY DEF ForwardInv, Stages, AfterChained, AfterPrefixes

\* A step of one rank.
LEMMA CollectiveIs ==
  ASSUME NEW from, NEW to \in Stages, Collective(from, to)
  PROVE  /\ stage' \in [Ranks -> Stages]
         /\ \A r \in Ranks : stage[r] = from /\ stage'[r] = to
BY DEF Collective

\* The kinds of segments by their stages.
LEMMA RanByCases ==
  ASSUME PlanFacts, NEW i \in DOMAIN segs
  PROVE  \/ RanBy(i) = AfterChained
         \/ RanBy(i) = AfterPrefixes
         \/ i \in CompletionsOn(Chained) /\ RanBy(i) = {"ready"} \cup AfterReady
         \/ RanBy(i) = AfterReady
         \/ RanBy(i) = {"gather", "done"}
<1>1. owner[i] = Chained /\ segs[i].child # 0 => i \in CompletionsOn(Chained)
  BY BucketsAre
<1> QED BY <1>1 DEF RanBy

\* Segments only run after their prefix could have.
LEMMA NotYet ==
  ASSUME PlanFacts, NEW i \in DOMAIN segs
  PROVE  /\ RanBy(i) \subseteq AfterChained
         /\ "scatter" \notin RanBy(i) /\ "chain prefixes" \notin RanBy(i)
<1>1. \/ RanBy(i) = AfterChained \/ RanBy(i) = AfterPrefixes
      \/ i \in CompletionsOn(Chained) /\ RanBy(i) = {"ready"} \cup AfterReady
      \/ RanBy(i) = AfterReady \/ RanBy(i) = {"gather", "done"}
  BY RanByCases
<1> QED BY <1>1 DEF AfterChained, AfterPrefixes, AfterReady

\* The tables stay and nobody learns of a new row.
LEMMA TablesStay ==
  ASSUME Passing, UNCHANGED <<segs, planVars, tables>>,
         \A r \in Ranks :
           /\ stage'[r] \in AfterChained => stage[r] \in AfterChained
           /\ stage'[r] \in AfterPrefixes => stage[r] \in AfterPrefixes
           /\ stage'[r] \in AfterExchange => transfers = {} \/ stage[r] \in AfterExchange
  PROVE  TablesInv'
<1>1. TablesInv /\ tables' = tables
  BY PassingIs
<1>2. tables \in [Ranks -> [Families -> SUBSET RealTokens]]
  BY <1>1 DEF TablesInv
<1>3. ASSUME NEW r \in Ranks
      PROVE  /\ stage'[r] \in AfterChained =>
                  \A f \in PrefixesOn(Chained) : tables'[r][f] = PrefixTokens(f)
             /\ stage'[r] \in AfterPrefixes =>
                  \A f \in PrefixesOn(r) : tables'[r][f] = RunAlone(r, f)
             /\ stage'[r] \in AfterExchange =>
                  \A x \in transfers : x.dest = r =>
                    tables'[r][x.family] = RunAlone(x.source, x.family)
  <2>1. /\ stage[r] \in AfterChained =>
                  \A f \in PrefixesOn(Chained) : tables[r][f] = PrefixTokens(f)
        /\ stage[r] \in AfterPrefixes =>
                  \A f \in PrefixesOn(r) : tables[r][f] = RunAlone(r, f)
        /\ stage[r] \in AfterExchange =>
                  \A x \in transfers : x.dest = r =>
                    tables[r][x.family] = RunAlone(x.source, x.family)
    BY <1>1 DEF TablesInv
  <2> QED BY <1>1, <2>1
<1> QED BY <1>1, <1>2, <1>3, TablesKeep

\* The outputs stay and no segment has newly run.
LEMMA OutStays ==
  ASSUME Passing, UNCHANGED <<segs, planVars, out>>,
         \A i \in DOMAIN segs : \A q \in Ranks : stage'[q] \in RanBy(i) => stage[q] \in RanBy(i)
  PROVE  OutInv'
<1>1. PlanFacts
  BY DEF Passing
<1>2. \A i \in DOMAIN segs : \A t \in Tokens(segs[i]) : gdn[t] \in Ranks
  BY <1>1, TokenOf
<1>3. DOMAIN out' = RealTokens /\ out' = out
  BY PassingIs
<1>4. \A i \in DOMAIN segs : \A t \in Tokens(segs[i]) :
           ~SplitMidChunk(segs[i].family) /\ stage'[gdn[t]] \in RanBy(i)
             => out'[t] = Sees(i, t)
  BY <1>2, <1>3, PassingIs
<1> QED BY <1>3, <1>4, OutKeeps

LEMMA ScatterKeeps ==
  ASSUME Passing, ScatterTokens
  PROVE  ForwardInv'
<1>1. UNCHANGED <<segs, planVars, tables, out>>
  BY DEF ScatterTokens, parseVars
<1>2. stage' \in [Ranks -> Stages] /\ \A r \in Ranks : stage'[r] = "chain prefixes"
  <2>1. Collective("scatter", "chain prefixes") /\ "chain prefixes" \in Stages
    BY DEF ScatterTokens, Stages
  <2> QED BY <2>1, CollectiveIs
<1>3. TablesInv'
  BY <1>1, <1>2, TablesStay DEF AfterChained, AfterPrefixes, AfterExchange
<1>4. \A i \in DOMAIN segs : \A q \in Ranks : stage'[q] \in RanBy(i) => stage[q] \in RanBy(i)
  BY <1>2, NotYet DEF Passing
<1> QED BY <1>1, <1>2, <1>3, <1>4, OutStays, StillPassing

LEMMA GatherKeeps ==
  ASSUME Passing, GatherOutputs
  PROVE  ForwardInv'
<1>1. UNCHANGED <<segs, planVars, tables, out>>
  BY DEF GatherOutputs, parseVars
<1>2. stage' \in [Ranks -> Stages] /\ \A r \in Ranks : stage[r] = "gather" /\ stage'[r] = "done"
  <2>1. Collective("gather", "done") /\ "done" \in Stages
    BY DEF GatherOutputs, Stages, AfterChained, AfterPrefixes
  <2> QED BY <2>1, CollectiveIs
<1>3. TablesInv'
  BY <1>1, <1>2, TablesStay DEF AfterChained, AfterPrefixes, AfterExchange
<1>4. ASSUME NEW i \in DOMAIN segs PROVE "gather" \in RanBy(i)
  <2>1. PlanFacts
    BY DEF Passing
  <2>2. \/ RanBy(i) = AfterChained \/ RanBy(i) = AfterPrefixes
        \/ i \in CompletionsOn(Chained) /\ RanBy(i) = {"ready"} \cup AfterReady
        \/ RanBy(i) = AfterReady \/ RanBy(i) = {"gather", "done"}
    BY <2>1, RanByCases
  <2> QED BY <2>2 DEF AfterChained, AfterPrefixes, AfterReady
<1> QED BY <1>1, <1>2, <1>3, <1>4, OutStays, StillPassing

\* Without chained completions the ranks go on by themselves.
LEMMA SkipChainKeeps ==
  ASSUME Passing, NEW r \in Ranks, SkipChainCompletions(r)
  PROVE  ForwardInv'
<1>1. UNCHANGED <<segs, planVars, tables, out>> /\ CompletionsOn(Chained) = {} /\ PlanFacts
  BY DEF SkipChainCompletions, parseVars, Passing
<1>2. /\ stage' \in [Ranks -> Stages] /\ stage[r] = "chain completions" /\ stage'[r] = "ready"
      /\ \A q \in Ranks : q # r => stage'[q] = stage[q]
  <2>1. Advance(r, "chain completions", "ready") /\ "ready" \in Stages
    BY DEF SkipChainCompletions, Stages, AfterChained, AfterPrefixes
  <2>2. stage \in [Ranks -> Stages]
    BY PassingIs
  <2> QED BY <2>1, <2>2 DEF Advance
<1>3. TablesInv'
  BY <1>1, <1>2, TablesStay DEF AfterChained, AfterPrefixes, AfterExchange
<1>4. ASSUME NEW i \in DOMAIN segs PROVE "ready" \in RanBy(i) => "chain completions" \in RanBy(i)
  <2>1. \/ RanBy(i) = AfterChained \/ RanBy(i) = AfterPrefixes
        \/ i \in CompletionsOn(Chained) /\ RanBy(i) = {"ready"} \cup AfterReady
        \/ RanBy(i) = AfterReady \/ RanBy(i) = {"gather", "done"}
    BY <1>1, RanByCases
  <2>2. CompletionsOn(Chained) = {} => i \notin CompletionsOn(Chained)
    OBVIOUS
  <2>3. ASSUME NEW S, S = RanBy(i), RanBy(i) = AfterChained \/ RanBy(i) = AfterPrefixes
        PROVE  {"chain completions", "exchange"} \subseteq S
    BY <2>3 DEF AfterChained, AfterPrefixes
  <2>4. ASSUME NEW S, S = AfterReady \/ S = {"gather", "done"}
        PROVE  "ready" \notin S /\ ("remote" \in S => "exchange" \in S)
    BY <2>4 DEF AfterReady
  <2> QED BY <1>1, <2>1, <2>2, <2>3, <2>4
<1>5. \A i \in DOMAIN segs : \A q \in Ranks : stage'[q] \in RanBy(i) => stage[q] \in RanBy(i)
  BY <1>2, <1>4
<1> QED BY <1>1, <1>2, <1>3, <1>5, OutStays, StillPassing

LEMMA SkipExchangeKeeps ==
  ASSUME Passing, NEW r \in Ranks, SkipExchange(r)
  PROVE  ForwardInv'
<1>1. UNCHANGED <<segs, planVars, tables, out>> /\ transfers = {} /\ PlanFacts
  BY DEF SkipExchange, parseVars, Passing
<1>2. /\ stage' \in [Ranks -> Stages] /\ stage[r] = "exchange" /\ stage'[r] = "remote"
      /\ \A q \in Ranks : q # r => stage'[q] = stage[q]
  <2>1. Advance(r, "exchange", "remote") /\ "remote" \in Stages
    BY DEF SkipExchange, Stages, AfterChained, AfterPrefixes
  <2>2. stage \in [Ranks -> Stages]
    BY PassingIs
  <2> QED BY <2>1, <2>2 DEF Advance
<1>3. TablesInv'
  BY <1>1, <1>2, TablesStay DEF AfterChained, AfterPrefixes, AfterExchange
<1>4. ASSUME NEW i \in DOMAIN segs PROVE "remote" \in RanBy(i) => "exchange" \in RanBy(i)
  <2>1. \/ RanBy(i) = AfterChained \/ RanBy(i) = AfterPrefixes
        \/ i \in CompletionsOn(Chained) /\ RanBy(i) = {"ready"} \cup AfterReady
        \/ RanBy(i) = AfterReady \/ RanBy(i) = {"gather", "done"}
    BY <1>1, RanByCases
  <2>2. CompletionsOn(Chained) = {} => i \notin CompletionsOn(Chained)
    OBVIOUS
  <2>3. ASSUME NEW S, S = RanBy(i), RanBy(i) = AfterChained \/ RanBy(i) = AfterPrefixes
        PROVE  {"chain completions", "exchange"} \subseteq S
    BY <2>3 DEF AfterChained, AfterPrefixes
  <2>4. ASSUME NEW S, S = AfterReady \/ S = {"gather", "done"}
        PROVE  "ready" \notin S /\ ("remote" \in S => "exchange" \in S)
    BY <2>4 DEF AfterReady
  <2> QED BY <1>1, <2>1, <2>2, <2>3, <2>4
<1>5. \A i \in DOMAIN segs : \A q \in Ranks : stage'[q] \in RanBy(i) => stage[q] \in RanBy(i)
  BY <1>2, <1>4
<1> QED BY <1>1, <1>2, <1>3, <1>5, OutStays, StillPassing

\* The tokens of a set of prefixes.
LEMMA PrefixSet ==
  ASSUME PlanFacts, NEW F \in SUBSET Families, NEW i \in DOMAIN segs, NEW t \in Tokens(segs[i])
  PROVE  t \in UNION {PrefixTokens(f) : f \in F} <=> segs[i].child = 0 /\ segs[i].family \in F
<1>1. \A f \in F : t \in PrefixTokens(f) <=> segs[i].child = 0 /\ segs[i].family = f
  BY TokenOf
<1> QED BY <1>1

LEMMA PrefixHome ==
  ASSUME PlanFacts, NEW r, NEW i \in DOMAIN segs, segs[i].child = 0
  PROVE  segs[i].family \in PrefixesOn(r) <=> owner[i] = r
BY DEF PlanFacts, PrefixesOn

LEMMA ChainPrefixesKeep ==
  ASSUME Passing, RunChainPrefixes
  PROVE  ForwardInv'
<1> DEFINE chained == PrefixesOn(Chained)
           S == UNION {PrefixTokens(f) : f \in chained}
<1>1. /\ UNCHANGED <<segs, planVars>> /\ PlanFacts
      /\ out' = Run(out, S, ZeroTable)
      /\ tables' = [r \in Ranks |-> [f \in Families |->
                      IF f \in chained THEN PrefixTokens(f) ELSE {}]]
  BY DEF RunChainPrefixes, parseVars, Passing
<1>2. /\ stage' \in [Ranks -> Stages]
      /\ \A r \in Ranks : stage[r] = "chain prefixes" /\ stage'[r] = "prefixes"
  <2>1. Collective("chain prefixes", "prefixes") /\ "prefixes" \in Stages
    BY DEF RunChainPrefixes, Stages, AfterChained
  <2> QED BY <2>1, CollectiveIs
<1>3. chained \subseteq Families
  BY DEF PrefixesOn
<1>4. TablesInv'
  <2>1. \A f \in Families : PrefixTokens(f) \subseteq RealTokens
    BY <1>1, AloneIs
  <2>2. tables' \in [Ranks -> [Families -> SUBSET RealTokens]]
    BY <1>1, <2>1
  <2>3. ASSUME NEW r \in Ranks
        PROVE  /\ stage'[r] \notin AfterPrefixes /\ stage'[r] \notin AfterExchange
               /\ \A f \in chained : tables'[r][f] = PrefixTokens(f)
    <3>1. stage'[r] \notin AfterPrefixes /\ stage'[r] \notin AfterExchange
      BY <1>2 DEF AfterPrefixes, AfterExchange
    <3> QED BY <1>1, <1>3, <3>1
  <2> QED BY <1>1, <2>2, <2>3, TablesKeep
<1>5. \A i \in DOMAIN segs : \A t \in Tokens(segs[i]) :
        ~SplitMidChunk(segs[i].family) /\ stage'[gdn[t]] \in RanBy(i) => out'[t] = Sees(i, t)
  <2> SUFFICES ASSUME NEW i \in DOMAIN segs, NEW t \in Tokens(segs[i]),
                      stage'[gdn[t]] \in RanBy(i)
               PROVE  out'[t] = Sees(i, t)
    OBVIOUS
  <2>1. gdn[t] \in Ranks /\ t \in RealTokens
    BY <1>1, TokenOf
  <2>2. "prefixes" \in RanBy(i)
    BY <1>2, <2>1
  <2>3. owner[i] = Chained /\ segs[i].child = 0
    <3>1. "prefixes" \notin AfterPrefixes /\ "prefixes" \notin {"ready"} \cup AfterReady
          /\ "prefixes" \notin AfterReady /\ "prefixes" \notin {"gather", "done"}
      BY DEF AfterPrefixes, AfterReady
    <3>2. ~(owner[i] = Chained /\ segs[i].child = 0) =>
            \/ RanBy(i) = AfterPrefixes \/ RanBy(i) = {"ready"} \cup AfterReady
            \/ RanBy(i) = AfterReady \/ RanBy(i) = {"gather", "done"}
      BY DEF RanBy
    <3> QED BY <2>2, <3>1, <3>2
  <2>4. t \in S
    BY <1>1, <1>3, <2>3, PrefixSet, PrefixHome
  <2>5. t \in DOMAIN out
    BY <2>1, PassingIs
  <2>6. out'[t] = ZeroTable[segs[i].family] \cup Before(i, t)
    <3>1. SegmentOf(t) = i
      BY <1>1 DEF PlanFacts
    <3>2. out' = Run(out, S, ZeroTable)
      BY <1>1
    <3> QED BY ONLY <2>4, <2>5, <3>1, <3>2 DEF Run, Before
  <2>7. ZeroTable[segs[i].family] = {}
    BY DEF ZeroTable, Families
  <2> QED BY <2>3, <2>6, <2>7 DEF Sees
<1>6. DOMAIN out' = RealTokens
  BY <1>1, PassingIs, RunDomain
<1> QED BY <1>1, <1>2, <1>4, <1>5, <1>6, OutKeeps, StillPassing

\* A rank runs some of its completions, each from the state of its prefix.
LEMMA RankRuns ==
  ASSUME Passing, NEW r \in Ranks, NEW S \in SUBSET CompletionsOn(r),
         UNCHANGED <<segs, planVars>>,
         out' = Run(out, TokensOfAll(S), tables[r]),
         \A q \in Ranks : q # r => stage'[q] = stage[q],
         \A i \in S : ~SplitMidChunk(segs[i].family) =>
           tables[r][segs[i].family] = PrefixTokens(segs[i].family),
         \A i \in DOMAIN segs \ S :
           owner[i] \in {r, Chained} /\ stage'[r] \in RanBy(i) => stage[r] \in RanBy(i)
  PROVE  OutInv'
<1>1. PlanFacts /\ DOMAIN out' = RealTokens
  BY PassingIs, RunDomain DEF Passing
<1>2. \A i \in DOMAIN segs : \A t \in Tokens(segs[i]) :
        ~SplitMidChunk(segs[i].family) /\ stage'[gdn[t]] \in RanBy(i) => out'[t] = Sees(i, t)
  <2> SUFFICES ASSUME NEW i \in DOMAIN segs, NEW t \in Tokens(segs[i]),
                      ~SplitMidChunk(segs[i].family), stage'[gdn[t]] \in RanBy(i)
               PROVE  out'[t] = Sees(i, t)
    OBVIOUS
  <2>1. S \subseteq DOMAIN segs /\ \A j \in S : owner[j] = r /\ segs[j].child > 0
    BY <1>1, BucketsAre
  <2>2. gdn[t] \in Ranks /\ t \in DOMAIN out /\ (t \in TokensOfAll(S) <=> i \in S)
    BY <1>1, <2>1, TokenOf, PassingIs
  <2> PICK table, T, o : table = tables[r] /\ T = TokensOfAll(S) /\ o = out
    OBVIOUS
  <2>7. /\ t \in T => Run(o, T, table)[t] =
                         table[segs[i].family] \cup Before(i, t)
        /\ t \notin T => Run(o, T, table)[t] = o[t]
    <3>1. SegmentOf(t) = i
      BY <1>1 DEF PlanFacts
    <3> QED BY ONLY <2>2, <3>1, o = out DEF Run, Before
  <2>8. out' = Run(o, T, table)
    OBVIOUS
  <2>3. CASE i \in S
    <3>1. out'[t] = tables[r][segs[i].family] \cup Before(i, t)
      BY <2>2, <2>3, <2>7, <2>8
    <3>2. segs[i].child # 0
      BY <2>1, <2>3
    <3> QED BY <2>3, <3>1, <3>2 DEF Sees
  <2>4. CASE i \notin S
    <3>1. out'[t] = out[t]
      BY <2>2, <2>4, <2>7, <2>8
    <3>2. stage[gdn[t]] \in RanBy(i)
      <4>1. owner[i] # Chained => gdn[t] = owner[i]
        BY <1>1 DEF PlanFacts
      <4> QED BY <2>2, <2>4, <4>1
    <3> QED BY <3>1, <3>2, PassingIs
  <2> QED BY <2>3, <2>4
<1> QED BY <1>1, <1>2, OutKeeps

LEMMA ReadyKeeps ==
  ASSUME Passing, NEW r \in Ranks, RunReady(r)
  PROVE  ForwardInv'
<1>1. /\ UNCHANGED <<segs, planVars, tables>> /\ PlanFacts
      /\ out' = Run(out, TokensOfAll(Ready(r)), tables[r])
  BY DEF RunReady, parseVars, Passing
<1>2. /\ stage' \in [Ranks -> Stages] /\ stage[r] = "ready" /\ stage'[r] = "exchange"
      /\ \A q \in Ranks : q # r => stage'[q] = stage[q]
  <2>1. Advance(r, "ready", "exchange") /\ "exchange" \in Stages
    BY DEF RunReady, Stages, AfterChained, AfterPrefixes
  <2>2. stage \in [Ranks -> Stages]
    BY PassingIs
  <2> QED BY <2>1, <2>2 DEF Advance
<1>3. TablesInv'
  BY <1>1, <1>2, TablesStay DEF AfterChained, AfterPrefixes, AfterExchange
<1>4. ASSUME NEW i \in Ready(r)
      PROVE  tables[r][segs[i].family] = PrefixTokens(segs[i].family)
  <2>1. TablesInv /\ segs[i].family \in Families /\ stage[r] \in AfterChained /\ stage[r] \in AfterPrefixes
    <3>1. i \in DOMAIN segs
      BY <1>1, BucketsAre
    <3> QED BY <1>1, <1>2, <3>1, PassingIs DEF PlanFacts, AfterChained, AfterPrefixes
  <2>2. segs[i].family \in PrefixesOn(Chained) \cup PrefixesOn(r)
    BY <1>1, BucketsAre
  <2>3. CASE segs[i].family \in PrefixesOn(Chained)
    BY <2>1, <2>3 DEF TablesInv
  <2>4. CASE segs[i].family \in PrefixesOn(r)
    <3>1. i \in CompletionsOn(r) /\ i \notin WarmedUp(r)
      BY DEF Ready
    <3>2. path = "families"
      BY <2>4, <3>1 DEF WarmedUp
    <3>3. RunAlone(r, segs[i].family) = PrefixTokens(segs[i].family)
      BY <3>2 DEF RunAlone
    <3> QED BY <2>1, <2>4, <3>3 DEF TablesInv
  <2> QED BY <2>2, <2>3, <2>4
<1>5. ASSUME NEW i \in DOMAIN segs \ Ready(r), owner[i] \in {r, Chained}, "exchange" \in RanBy(i)
      PROVE  "ready" \in RanBy(i)
  <2>1. \/ RanBy(i) = AfterChained \/ RanBy(i) = AfterPrefixes
        \/ RanBy(i) = {"ready"} \cup AfterReady
        \/ \E q \in Ranks : i \in Ready(q) /\ RanBy(i) = AfterReady
        \/ RanBy(i) = {"gather", "done"}
    BY <1>1, RanByIs
  <2>2. \A q \in Ranks : i \notin Ready(q)
    <3>1. \A q \in Ranks : i \in Ready(q) => owner[i] = q
      BY <1>1, BucketsAre
    <3> QED BY <1>1, <1>5, <3>1 DEF PlanFacts
  <2>3. RanBy(i) # {"gather", "done"}
    BY <1>5
  <2>4. \A S : S = AfterChained \/ S = AfterPrefixes => "ready" \in S
    BY DEF AfterChained, AfterPrefixes
  <2> QED BY <2>1, <2>2, <2>3, <2>4
<1>6. Ready(r) \in SUBSET CompletionsOn(r)
  BY <1>1, BucketsAre
<1>7. \A i \in DOMAIN segs \ Ready(r) :
        owner[i] \in {r, Chained} /\ stage'[r] \in RanBy(i) => stage[r] \in RanBy(i)
  BY <1>2, <1>5
<1>8. OutInv'
  BY <1>1, <1>2, <1>4, <1>6, <1>7, RankRuns
<1> QED BY <1>2, <1>3, <1>8, StillPassing

\* A completion on another rank than its prefix starts from the row its rank
\* was sent.
LEMMA RemoteKeeps ==
  ASSUME Passing, NEW r \in Ranks, RunRemote(r)
  PROVE  ForwardInv'
<1>1. /\ UNCHANGED <<segs, planVars, tables>> /\ PlanFacts
      /\ out' = Run(out, TokensOfAll(Remote(r)), tables[r])
  BY DEF RunRemote, parseVars, Passing
<1>2. /\ stage' \in [Ranks -> Stages] /\ stage[r] = "remote" /\ stage'[r] = "gather"
      /\ \A q \in Ranks : q # r => stage'[q] = stage[q]
  <2>1. Advance(r, "remote", "gather") /\ "gather" \in Stages
    BY DEF RunRemote, Stages, AfterChained, AfterPrefixes
  <2>2. stage \in [Ranks -> Stages]
    BY PassingIs
  <2> QED BY <2>1, <2>2 DEF Advance
<1>3. TablesInv'
  BY <1>1, <1>2, TablesStay DEF AfterChained, AfterPrefixes, AfterExchange
<1>4. ASSUME NEW i \in Remote(r), ~SplitMidChunk(segs[i].family)
      PROVE  tables[r][segs[i].family] = PrefixTokens(segs[i].family)
  <2> DEFINE f == segs[i].family
  <2>1. /\ i \in DOMAIN segs /\ owner[i] = r /\ segs[i].child > 0
        /\ f \notin PrefixesOn(Chained) \cup PrefixesOn(r)
    BY <1>1, BucketsAre
  <2>2. f \in Families /\ PrefixOf(f) \in DOMAIN segs /\ Chained \notin Ranks
    BY <1>1, <2>1 DEF PlanFacts
  <2>3. owner[PrefixOf(f)] # Chained /\ owner[PrefixOf(f)] # r
    BY <2>1, <2>2 DEF PrefixesOn
  <2>4. owner[PrefixOf(f)] \in Ranks
    BY <1>1, <2>2, <2>3 DEF PlanFacts
  <2>5. PICK x \in transfers : x.dest = r /\ x.family = f
    BY <2>1, <2>3, <2>4 DEF Passing, TransfersAre
  <2>6. x.source = owner[PrefixOf(f)]
    BY <2>5 DEF Passing, TransfersAre
  <2>7. tables[r][f] = RunAlone(x.source, f)
    BY <1>2, <2>5, PassingIs DEF TablesInv, AfterExchange
  <2>8. f \in PrefixesOn(x.source)
    BY <2>2, <2>6 DEF PrefixesOn
  <2>9. i \in Completions(f)
    BY <2>1 DEF Completions, FamilySegs
  <2> HIDE DEF f
  <2>10. PICK q \in Ranks : q = x.source
    BY <2>4, <2>6
  <2>11. owner[i] # q /\ ~SplitMidChunk(f) /\ f \in PrefixesOn(q)
    BY <1>4, <2>1, <2>3, <2>6, <2>8, <2>10 DEF f
  <2>12. RunAlone(q, f) = PrefixTokens(f)
    BY <1>1, <2>9, <2>11, AloneWhole
  <2> QED BY <2>7, <2>10, <2>12 DEF f
<1>5. ASSUME NEW i \in DOMAIN segs \ Remote(r), owner[i] \in {r, Chained}, "gather" \in RanBy(i)
      PROVE  "remote" \in RanBy(i)
  <2>1. \/ RanBy(i) = AfterChained \/ RanBy(i) = AfterPrefixes
        \/ RanBy(i) = {"ready"} \cup AfterReady \/ RanBy(i) = AfterReady
        \/ \E q \in Ranks : i \in Remote(q)
    BY <1>1, RanByIs
  <2>2. \A q \in Ranks : i \notin Remote(q)
    <3>1. \A q \in Ranks : i \in Remote(q) => owner[i] = q
      BY <1>1, BucketsAre
    <3> QED BY <1>1, <1>5, <3>1 DEF PlanFacts
  <2>3. "remote" \in AfterReady
    BY DEF AfterReady
  <2>4. \A S : S = AfterChained \/ S = AfterPrefixes => "remote" \in S
    BY DEF AfterChained, AfterPrefixes
  <2> QED BY <2>1, <2>2, <2>3, <2>4
<1>6. Remote(r) \in SUBSET CompletionsOn(r)
  BY <1>1, BucketsAre
<1>7. \A i \in DOMAIN segs \ Remote(r) :
        owner[i] \in {r, Chained} /\ stage'[r] \in RanBy(i) => stage[r] \in RanBy(i)
  BY <1>2, <1>5
<1>8. OutInv'
  BY <1>1, <1>2, <1>4, <1>6, <1>7, RankRuns
<1> QED BY <1>2, <1>3, <1>8, StillPassing

\* Every rank starts its shard of a chained completion from the same state.
LEMMA ChainCompletionsKeep ==
  ASSUME Passing, RunChainCompletions
  PROVE  ForwardInv'
<1> DEFINE S == CompletionsOn(Chained)
<1>1. /\ UNCHANGED <<segs, planVars, tables>> /\ PlanFacts
      /\ out' = [t \in DOMAIN out |-> Run(out, TokensOfAll(S), tables[gdn[t]])[t]]
  BY DEF RunChainCompletions, parseVars, Passing
<1>2. /\ stage' \in [Ranks -> Stages]
      /\ \A r \in Ranks : stage[r] = "chain completions" /\ stage'[r] = "ready"
  <2>1. Collective("chain completions", "ready") /\ "ready" \in Stages
    BY DEF RunChainCompletions, Stages, AfterChained, AfterPrefixes
  <2> QED BY <2>1, CollectiveIs
<1>3. TablesInv'
  BY <1>1, <1>2, TablesStay DEF AfterChained, AfterPrefixes, AfterExchange
<1>4. S \subseteq DOMAIN segs
  BY <1>1, BucketsAre
<1>5. \A i \in DOMAIN segs : \A t \in Tokens(segs[i]) :
        ~SplitMidChunk(segs[i].family) /\ stage'[gdn[t]] \in RanBy(i) => out'[t] = Sees(i, t)
  <2> SUFFICES ASSUME NEW i \in DOMAIN segs, NEW t \in Tokens(segs[i]),
                      ~SplitMidChunk(segs[i].family), stage'[gdn[t]] \in RanBy(i)
               PROVE  out'[t] = Sees(i, t)
    OBVIOUS
  <2>1. gdn[t] \in Ranks /\ t \in DOMAIN out /\ (t \in TokensOfAll(S) <=> i \in S)
    BY <1>1, <1>4, TokenOf, PassingIs
  <2>2. SegmentOf(t) = i
    BY <1>1 DEF PlanFacts
  <2>3. PICK table : table = tables[gdn[t]]
    OBVIOUS
  <2>4. out'[t] = Run(out, TokensOfAll(S), table)[t]
    BY <1>1, <2>1, <2>3
  <2> HIDE DEF S
  <2>5. CASE i \in S
    <3>1. out'[t] = table[segs[i].family] \cup Before(i, t)
      BY ONLY <2>1, <2>2, <2>4, <2>5 DEF Run, Before
    <3>2. segs[i].child # 0 /\ owner[i] = Chained /\ segs[i].family \in Families
      <4>1. owner[i] = Chained /\ segs[i].child > 0
        BY <1>1, <2>5, BucketsAre DEF S
      <4> QED BY <1>1, <4>1 DEF PlanFacts
    <3>3. segs[i].family \in PrefixesOn(Chained)
      BY <1>1, <3>2 DEF PlanFacts, PrefixesOn
    <3>4. stage[gdn[t]] \in AfterChained
      BY <1>2, <2>1 DEF AfterChained, AfterPrefixes
    <3>5. table[segs[i].family] = PrefixTokens(segs[i].family)
      BY <2>1, <2>3, <3>3, <3>4, PassingIs DEF TablesInv
    <3> QED BY <3>1, <3>2, <3>5 DEF Sees
  <2>6. CASE i \notin S
    <3>1. out'[t] = out[t]
      BY ONLY <2>1, <2>4, <2>6 DEF Run
    <3>2. "ready" \in RanBy(i)
      BY <1>2, <2>1
    <3>3. \/ RanBy(i) = AfterChained \/ RanBy(i) = AfterPrefixes
          \/ RanBy(i) = AfterReady \/ RanBy(i) = {"gather", "done"}
      BY <1>1, <2>6, RanByCases DEF S
    <3>4. "ready" \notin AfterReady /\ "ready" \notin {"gather", "done"}
      BY DEF AfterReady
    <3>5. \A R : R = AfterChained \/ R = AfterPrefixes => "chain completions" \in R
      BY DEF AfterChained, AfterPrefixes
    <3>6. stage[gdn[t]] \in RanBy(i)
      BY <1>2, <2>1, <3>2, <3>3, <3>4, <3>5
    <3> QED BY <3>1, <3>6, PassingIs
  <2> QED BY <2>5, <2>6
<1>6. DOMAIN out' = RealTokens
  BY <1>1, PassingIs
<1> QED BY <1>1, <1>2, <1>3, <1>5, <1>6, OutKeeps, StillPassing

\* A rank gets the row of a prefix from the rank that ran it.
LEMMA ExchangeKeeps ==
  ASSUME Passing, ExchangeStates
  PROVE  ForwardInv'
<1>1. /\ UNCHANGED <<segs, planVars, out>> /\ PlanFacts /\ TransfersAre
      /\ tables' = [r \in Ranks |-> [f \in Families |->
           IF \E x \in transfers : x.dest = r /\ x.family = f
           THEN tables[(CHOOSE x \in transfers : x.dest = r /\ x.family = f).source][f]
           ELSE tables[r][f]]]
  BY DEF ExchangeStates, parseVars, Passing
<1>2. /\ stage' \in [Ranks -> Stages]
      /\ \A r \in Ranks : stage[r] = "exchange" /\ stage'[r] = "remote"
  <2>1. Collective("exchange", "remote") /\ "remote" \in Stages
    BY DEF ExchangeStates, Stages, AfterChained, AfterPrefixes
  <2> QED BY <2>1, CollectiveIs
<1>3. tables \in [Ranks -> [Families -> SUBSET RealTokens]]
  BY PassingIs DEF TablesInv
<1>4. ASSUME NEW r \in Ranks, NEW f \in Families, \E x \in transfers : x.dest = r /\ x.family = f
      PROVE  owner[PrefixOf(f)] \in Ranks /\ tables'[r][f] = tables[owner[PrefixOf(f)]][f]
  <2>1. PICK y : y = CHOOSE x \in transfers : x.dest = r /\ x.family = f
    OBVIOUS
  <2>2. y \in transfers /\ y.dest = r /\ y.family = f
    BY <1>4, <2>1
  <2>3. y.source = owner[PrefixOf(f)] /\ y.source \in Ranks
    BY <1>1, <2>2 DEF TransfersAre
  <2>4. tables'[r][f] = tables[y.source][f]
    BY <1>1, <1>4, <2>1
  <2> QED BY <2>3, <2>4
<1>5. ASSUME NEW r \in Ranks, NEW f \in Families,
             ~ \E x \in transfers : x.dest = r /\ x.family = f
      PROVE  tables'[r][f] = tables[r][f]
  BY <1>1, <1>5
<1>6. tables' \in [Ranks -> [Families -> SUBSET RealTokens]]
  <2>1. ASSUME NEW r \in Ranks, NEW f \in Families
        PROVE  tables'[r][f] \in SUBSET RealTokens
    <3>1. \A q \in Ranks : tables[q][f] \in SUBSET RealTokens
      BY <1>3
    <3> QED BY <1>4, <1>5, <3>1
  <2>2. \A r \in Ranks : tables'[r] = [f \in Families |-> tables'[r][f]]
    BY <1>1
  <2>3. \A r \in Ranks : tables'[r] \in [Families -> SUBSET RealTokens]
    BY <2>1, <2>2
  <2>4. tables' = [r \in Ranks |-> tables'[r]]
    BY <1>1
  <2> QED BY <2>3, <2>4
<1>7. ASSUME NEW r \in Ranks
      PROVE  /\ \A f \in PrefixesOn(Chained) : tables'[r][f] = PrefixTokens(f)
             /\ \A f \in PrefixesOn(r) : tables'[r][f] = RunAlone(r, f)
             /\ \A x \in transfers : x.dest = r => tables'[r][x.family] = RunAlone(x.source, x.family)
  <2>1. \A q \in Ranks : /\ \A f \in PrefixesOn(Chained) : tables[q][f] = PrefixTokens(f)
                         /\ \A f \in PrefixesOn(q) : tables[q][f] = RunAlone(q, f)
    BY <1>2, PassingIs DEF TablesInv, AfterChained, AfterPrefixes
  <2>2. ASSUME NEW f \in PrefixesOn(Chained) \cup PrefixesOn(r)
        PROVE  f \in Families /\ tables'[r][f] = tables[r][f]
    <3>1. f \in Families /\ owner[PrefixOf(f)] \in {Chained, r} /\ Chained \notin Ranks
      BY <1>1 DEF PrefixesOn, PlanFacts
    <3>2. ~ \E x \in transfers : x.dest = r /\ x.family = f
      BY <1>1, <3>1 DEF TransfersAre
    <3> QED BY <1>5, <3>1, <3>2
  <2>3. ASSUME NEW x \in transfers, x.dest = r
        PROVE  tables'[r][x.family] = RunAlone(x.source, x.family)
    <3>1. x.family \in Families /\ x.source = owner[PrefixOf(x.family)] /\ x.source \in Ranks
      BY <1>1 DEF TransfersAre
    <3>2. PICK f \in Families : f = x.family
      BY <3>1
    <3>3. tables'[r][f] = tables[x.source][f]
      BY <1>4, <2>3, <3>1, <3>2
    <3>4. f \in PrefixesOn(x.source)
      BY <3>1, <3>2 DEF PrefixesOn
    <3> QED BY <2>1, <3>1, <3>2, <3>3, <3>4
  <2> QED BY <2>1, <2>2, <2>3
<1>8. TablesInv'
  BY <1>1, <1>6, <1>7, TablesKeep
<1>9. ASSUME NEW i \in DOMAIN segs PROVE "remote" \in RanBy(i) => "exchange" \in RanBy(i)
  <2>1. \/ RanBy(i) = AfterChained \/ RanBy(i) = AfterPrefixes
        \/ RanBy(i) = {"ready"} \cup AfterReady
        \/ RanBy(i) = AfterReady \/ RanBy(i) = {"gather", "done"}
    BY <1>1, RanByCases
  <2>2. "exchange" \in AfterReady /\ "remote" \notin {"gather", "done"}
    BY DEF AfterReady
  <2>3. \A S : S = AfterChained \/ S = AfterPrefixes => "exchange" \in S
    BY DEF AfterChained, AfterPrefixes
  <2> QED BY <2>1, <2>2, <2>3
<1>10. \A i \in DOMAIN segs : \A q \in Ranks : stage'[q] \in RanBy(i) => stage[q] \in RanBy(i)
  BY <1>2, <1>9
<1> QED BY <1>1, <1>2, <1>8, <1>10, OutStays, StillPassing

\* A rank runs its prefixes and, with what is left of them, the completions
\* that follow.
LEMMA PrefixesKeep ==
  ASSUME Passing, NEW r \in Ranks, RunPrefixes(r)
  PROVE  ForwardInv'
<1> DEFINE mine == PrefixesOn(r)
           table == [f \in Families |-> IF f \in mine THEN RunAlone(r, f) ELSE tables[r][f]]
           alone == (UNION {RunAlone(r, f) : f \in mine}) \cup Unmasked(r)
           warm == TokensOfAll(WarmedUp(r))
           after == [f \in Families |-> table[f] \cup PrefixTail(f)]
<1>1. /\ UNCHANGED <<segs, planVars>> /\ PlanFacts /\ TransfersAre /\ SegmentsInv
      /\ tables' = [tables EXCEPT ![r] = table]
      /\ out' = Run(Run(out, alone, ZeroTable), warm, after)
  <2>1. UNCHANGED <<segs, planVars>> /\ PlanFacts /\ TransfersAre /\ SegmentsInv
    BY DEF RunPrefixes, parseVars, Passing
  <2>2. tables' = [tables EXCEPT ![r] = table]
    BY DEF RunPrefixes
  <2>3. out' = Run(Run(out, alone, ZeroTable), warm, after)
    BY DEF RunPrefixes
  <2> QED BY <2>1, <2>2, <2>3
<1>2. /\ stage' \in [Ranks -> Stages] /\ stage[r] = "prefixes"
      /\ \A q \in Ranks : q # r => stage'[q] = stage[q]
      /\ stage'[r] = "chain completions" \/ (stage'[r] = "gather" /\ NothingLeft(r))
  <2>1. PICK to : to = IF NothingLeft(r) THEN "gather" ELSE "chain completions"
    OBVIOUS
  <2>2. Advance(r, "prefixes", to) /\ to \in Stages
    BY <2>1 DEF RunPrefixes, Stages, AfterChained, AfterPrefixes
  <2>3. stage \in [Ranks -> Stages]
    BY PassingIs
  <2> QED BY <2>1, <2>2, <2>3 DEF Advance
<1>3. /\ tables \in [Ranks -> [Families -> SUBSET RealTokens]] /\ TablesInv
      /\ mine \subseteq Families /\ Chained \notin Ranks
  BY <1>1, PassingIs DEF TablesInv, PrefixesOn, PlanFacts
<1>4. table \in [Families -> SUBSET RealTokens]
  <2>1. \A f \in Families : RunAlone(r, f) \subseteq RealTokens
    BY <1>1, AloneIs
  <2> QED BY <1>3, <2>1
<1>5. TablesInv'
  <2>1. tables' \in [Ranks -> [Families -> SUBSET RealTokens]] /\ tables'[r] = table
        /\ \A q \in Ranks : q # r => tables'[q] = tables[q]
    BY <1>1, <1>3, <1>4
  <2>2. \A f \in PrefixesOn(Chained) : f \in Families /\ f \notin mine
    BY <1>3 DEF PrefixesOn
  <2>3. ASSUME NEW q \in Ranks
        PROVE  /\ stage'[q] \in AfterChained =>
                    \A f \in PrefixesOn(Chained) : tables'[q][f] = PrefixTokens(f)
               /\ stage'[q] \in AfterPrefixes =>
                    \A f \in PrefixesOn(q) : tables'[q][f] = RunAlone(q, f)
               /\ stage'[q] \in AfterExchange =>
                    \A x \in transfers : x.dest = q =>
                      tables'[q][x.family] = RunAlone(x.source, x.family)
    <3>1. CASE q # r
      <4>1. /\ stage[q] \in AfterChained =>
                    \A f \in PrefixesOn(Chained) : tables[q][f] = PrefixTokens(f)
            /\ stage[q] \in AfterPrefixes =>
                    \A f \in PrefixesOn(q) : tables[q][f] = RunAlone(q, f)
            /\ stage[q] \in AfterExchange =>
                    \A x \in transfers : x.dest = q =>
                      tables[q][x.family] = RunAlone(x.source, x.family)
        BY <1>3 DEF TablesInv
      <4>2. stage'[q] = stage[q] /\ tables'[q] = tables[q]
        BY <1>2, <2>1, <3>1
      <4> QED BY <4>1, <4>2
    <3>2. CASE q = r
      <4>1. \A f \in PrefixesOn(Chained) : tables'[r][f] = PrefixTokens(f)
        <5>1. \A f \in PrefixesOn(Chained) : tables[r][f] = PrefixTokens(f)
          BY <1>2, <1>3 DEF TablesInv, AfterChained
        <5> QED BY <2>1, <2>2, <5>1
      <4>2. \A f \in PrefixesOn(r) : tables'[r][f] = RunAlone(r, f)
        BY <1>3, <2>1
      <4>3. stage'[r] \in AfterExchange => transfers = {}
        <5>1. "chain completions" \notin AfterExchange
          BY DEF AfterExchange
        <5> QED BY <1>2, <5>1 DEF NothingLeft
      <4> QED BY <3>2, <4>1, <4>2, <4>3
    <3> QED BY <3>1, <3>2
  <2> QED BY <1>1, <2>1, <2>3, TablesKeep
<1>12. \A u : u \in alone <=> (\E f \in mine : u \in RunAlone(r, f)) \/ u \in Unmasked(r)
  OBVIOUS
<1> HIDE DEF alone
<1>6. alone \subseteq UNION {PrefixTokens(f) : f \in mine}
  <2>1. \A f \in mine : RunAlone(r, f) \subseteq PrefixTokens(f) /\ PrefixTail(f) \subseteq PrefixTokens(f)
    BY <1>1, <1>3, AloneIs
  <2>2. \A i \in WarmedUp(r) : segs[i].family \in mine
    BY <1>1, BucketsAre
  <2> HIDE DEF mine
  <2>4. Unmasked(r) \subseteq UNION {PrefixTokens(f) : f \in mine}
    BY ONLY <2>1, <2>2 DEF Unmasked
  <2> QED BY ONLY <1>12, <2>1, <2>4
<1>7. ASSUME NEW f \in mine, ~SplitMidChunk(f) PROVE PrefixTokens(f) \subseteq alone
  <2>1. PrefixTokens(f) \subseteq RunAlone(r, f) \cup Unmasked(r)
    BY <1>1, <1>7, TailShared
  <2> HIDE DEF mine
  <2> QED BY <1>12, <2>1
<1>8. WarmedUp(r) \subseteq DOMAIN segs
  BY <1>1, BucketsAre
<1>9. ASSUME NEW i \in DOMAIN segs, NEW t \in Tokens(segs[i]),
             ~SplitMidChunk(segs[i].family), stage'[gdn[t]] \in RanBy(i)
      PROVE  out'[t] = Sees(i, t)
  <2> DEFINE f == segs[i].family
  <2>1. /\ gdn[t] \in Ranks /\ t \in DOMAIN out /\ (t \in warm <=> i \in WarmedUp(r))
        /\ f \in Families /\ segs[i].child \in Nat
        /\ t \in UNION {PrefixTokens(g) : g \in mine} <=> segs[i].child = 0 /\ f \in mine
    <3>1. gdn[t] \in Ranks /\ t \in DOMAIN out /\ (t \in warm <=> i \in WarmedUp(r))
      BY <1>1, <1>8, TokenOf, PassingIs
    <3>2. t \in UNION {PrefixTokens(g) : g \in mine} <=> segs[i].child = 0 /\ f \in mine
      BY <1>1, <1>3, PrefixSet
    <3> QED BY <1>1, <3>1, <3>2 DEF PlanFacts
  <2>2. SegmentOf(t) = i
    BY <1>1 DEF PlanFacts
  <2> HIDE DEF warm, after
  <2>3. t \in warm => out'[t] = after[f] \cup Before(i, t)
    <3>1. t \in DOMAIN Run(out, alone, ZeroTable)
      BY ONLY <2>1 DEF Run
    <3>2. out' = Run(Run(out, alone, ZeroTable), warm, after)
      BY <1>1
    <3> QED BY ONLY <2>2, <3>1, <3>2 DEF Run, Before, f
  <2>4. t \notin warm => out'[t] = Run(out, alone, ZeroTable)[t]
    <3>1. t \in DOMAIN Run(out, alone, ZeroTable)
      BY ONLY <2>1 DEF Run
    <3>2. out' = Run(Run(out, alone, ZeroTable), warm, after)
      BY <1>1
    <3>3. PICK o : o = Run(out, alone, ZeroTable)
      OBVIOUS
    <3> QED BY ONLY <3>1, <3>2, <3>3 DEF Run
  <2>5. CASE i \in WarmedUp(r)
    <3>1. owner[i] = r /\ segs[i].child # 0 /\ f \in mine
      BY <1>1, <2>5, BucketsAre
    <3>2. after[f] = RunAlone(r, f) \cup PrefixTail(f)
      BY <2>1, <3>1 DEF after
    <3>3. after[f] = PrefixTokens(f)
      BY <1>1, <2>1, <3>2, AloneIs
    <3> QED BY <2>1, <2>3, <2>5, <3>1, <3>3 DEF Sees
  <2>6. CASE segs[i].child = 0 /\ owner[i] = r
    <3>1. f \in mine
      BY <1>1, <2>6, PrefixHome
    <3>2. t \in alone
      <4>1. t \in PrefixTokens(f)
        BY <1>1, <2>1, <2>6, TokenOf
      <4> QED BY <1>7, <1>9, <3>1, <4>1
    <3>3. t \notin warm
      BY <1>1, <2>1, <2>6, BucketsAre
    <3>4. Run(out, alone, ZeroTable)[t] = ZeroTable[f] \cup Before(i, t)
      BY ONLY <2>1, <2>2, <3>2 DEF Run, Before, f
    <3>5. ZeroTable[f] = {}
      BY <2>1 DEF ZeroTable
    <3> QED BY <2>4, <2>6, <3>3, <3>4, <3>5 DEF Sees
  <2>7. CASE i \notin WarmedUp(r) /\ ~(segs[i].child = 0 /\ owner[i] = r)
    <3>1. t \notin warm /\ t \notin alone
      <4>1. segs[i].child = 0 => f \notin mine
        BY <1>1, <2>7, PrefixHome
      <4> QED BY <1>6, <2>1, <2>7, <4>1
    <3>2. Run(out, alone, ZeroTable)[t] = out[t]
      BY ONLY <2>1, <3>1 DEF Run
    <3>3. stage[gdn[t]] \in RanBy(i)
      <4>1. CASE gdn[t] # r
        BY <1>2, <1>9, <2>1, <4>1
      <4>2. CASE gdn[t] = r
        <5>1. owner[i] = Chained \/ owner[i] = r
          BY <1>1, <4>2 DEF PlanFacts
        <5>2. CASE segs[i].child = 0 /\ owner[i] = Chained
          BY <1>1, <1>2, <4>2, <5>2, RanByIs DEF AfterChained
        <5>3. CASE segs[i].child # 0 /\ owner[i] = Chained
          <6>1. i \in CompletionsOn(Chained)
            BY <1>1, <5>3, BucketsAre
          <6>2. RanBy(i) = {"ready"} \cup AfterReady
            BY <1>1, <6>1, RanByIs
          <6>3. "chain completions" \notin {"ready"} \cup AfterReady
            BY DEF AfterReady
          <6>4. NothingLeft(r)
            BY <1>2, <1>9, <4>2, <6>2, <6>3
          <6>5. f \in PrefixesOn(Chained)
            BY <1>1, <2>1, <5>3 DEF PlanFacts, PrefixesOn
          <6> QED BY <6>4, <6>5 DEF NothingLeft
        <5>4. CASE segs[i].child # 0 /\ owner[i] = r
          <6>1. i \in Ready(r) \cup Remote(r)
            BY <1>1, <2>7, <5>4, BucketsAre
          <6>2. RanBy(i) = AfterReady \/ RanBy(i) = {"gather", "done"}
            BY <1>1, <6>1, RanByIs
          <6>3. "chain completions" \notin AfterReady /\ "chain completions" \notin {"gather", "done"}
            BY DEF AfterReady
          <6>4. NothingLeft(r)
            BY <1>2, <1>9, <4>2, <6>2, <6>3
          <6>5. PrefixesOn(r) = {} /\ PrefixesOn(Chained) = {} /\ transfers = {}
            BY <6>4 DEF NothingLeft
          <6>6. owner[PrefixOf(f)] # r /\ owner[PrefixOf(f)] # Chained
            BY <2>1, <6>5 DEF PrefixesOn
          <6>7. owner[PrefixOf(f)] \in Ranks
            BY <1>1, <2>1, <6>6 DEF PlanFacts
          <6>8. segs[i].child > 0
            BY <2>1, <5>4
          <6>9. \E x \in transfers : x.dest = owner[i] /\ x.family = segs[i].family
            BY <1>1, <5>4, <6>6, <6>7, <6>8 DEF TransfersAre
          <6> QED BY <6>5, <6>9
        <5> QED BY <2>7, <5>1, <5>2, <5>3, <5>4
      <4> QED BY <4>1, <4>2
    <3> QED BY <1>9, <2>4, <3>1, <3>2, <3>3, PassingIs
  <2> QED BY <2>5, <2>6, <2>7
<1>10. DOMAIN out' = RealTokens
  <2>1. DOMAIN out' = DOMAIN out
    BY <1>1, RunDomain
  <2> QED BY <2>1, PassingIs
<1> QED BY <1>1, <1>2, <1>5, <1>9, <1>10, OutKeeps, StillPassing

\* Nothing has run yet.
LEMMA BeginGives ==
  ASSUME PlanFacts, Begin
  PROVE  ForwardInv'
<1>1. /\ stage' = [r \in Ranks |-> "scatter"]
      /\ tables' = [r \in Ranks |-> [f \in Families |-> {}]]
      /\ out' = [t \in RealTokens |-> {}] /\ UNCHANGED <<segs, planVars>>
  BY DEF Begin, parseVars
<1>2. \A r \in Ranks : stage'[r] = "scatter"
  BY <1>1
<1>3. "scatter" \notin AfterChained /\ "scatter" \notin AfterPrefixes /\ "scatter" \notin AfterReady
      /\ "scatter" \notin AfterExchange
  BY DEF AfterChained, AfterPrefixes, AfterReady, AfterExchange
<1>4. TablesInv'
  <2>1. tables' \in [Ranks -> [Families -> SUBSET RealTokens]]
    BY <1>1
  <2> QED BY <1>1, <1>2, <1>3, <2>1, TablesKeep
<1>5. gdn' = gdn /\ segs' = segs
  BY <1>1, PlanFixed
<1>6. \A i \in DOMAIN segs : \A t \in Tokens(segs[i]) : gdn[t] \in Ranks
  BY DEF PlanFacts
<1>7. \A i : "scatter" \notin RanBy(i)
  BY <1>3 DEF RanBy
<1>8. OutInv'
  <2>1. DOMAIN out' = RealTokens
    BY <1>1
  <2> QED BY <1>1, <1>2, <1>6, <1>7, <2>1, OutKeeps
<1>9. stage' \in [Ranks -> Stages]
  BY <1>1 DEF Stages
<1> QED BY <1>4, <1>8, <1>9, StillPassing

LEMMA ForwardGoesOn ==
  ASSUME Passing, Forward
  PROVE  ForwardInv'
<1>1. ~Begin
  BY DEF Begin, Passing
<1>2. CASE ScatterTokens BY <1>2, ScatterKeeps
<1>3. CASE RunChainPrefixes BY <1>3, ChainPrefixesKeep
<1>4. CASE RunChainCompletions BY <1>4, ChainCompletionsKeep
<1>5. CASE ExchangeStates BY <1>5, ExchangeKeeps
<1>6. CASE GatherOutputs BY <1>6, GatherKeeps
<1>7. ASSUME NEW r \in Ranks, RunPrefixes(r) PROVE ForwardInv'
  BY <1>7, PrefixesKeep
<1>8. ASSUME NEW r \in Ranks, SkipChainCompletions(r) PROVE ForwardInv'
  BY <1>8, SkipChainKeeps
<1>9. ASSUME NEW r \in Ranks, RunReady(r) PROVE ForwardInv'
  BY <1>9, ReadyKeeps
<1>10. ASSUME NEW r \in Ranks, SkipExchange(r) PROVE ForwardInv'
  BY <1>10, SkipExchangeKeeps
<1>11. ASSUME NEW r \in Ranks, RunRemote(r) PROVE ForwardInv'
  BY <1>11, RemoteKeeps
<1> QED BY <1>1, <1>2, <1>3, <1>4, <1>5, <1>6, <1>7, <1>8, <1>9, <1>10, <1>11 DEF Forward

\* Where a rank hands its outputs back, all it ran are as they should be.
LEMMA OutputsGiven ==
  ASSUME Passing
  PROVE  OutputsRight
<1>1. ASSUME NEW t \in DOMAIN out, stage[gdn[t]] \in {"gather", "done"},
             ~SplitMidChunk(segs[SegmentOf(t)].family)
      PROVE  out[t] = Context(t)
  <2>1. PICK i \in DOMAIN segs : t \in Tokens(segs[i])
    BY PassingIs DEF RealTokens
  <2>2. SegmentOf(t) = i /\ PlanFacts
    BY <2>1 DEF Passing, PlanFacts
  <2>3. \/ RanBy(i) = AfterChained \/ RanBy(i) = AfterPrefixes
        \/ RanBy(i) = {"ready"} \cup AfterReady
        \/ RanBy(i) = AfterReady \/ RanBy(i) = {"gather", "done"}
    BY <2>2, RanByCases
  <2>4. {"gather", "done"} \subseteq RanBy(i)
    <3>1. \A S : S = AfterChained \/ S = AfterPrefixes \/ S = AfterReady => {"gather", "done"} \subseteq S
      BY DEF AfterChained, AfterPrefixes, AfterReady
    <3>2. {"gather", "done"} \subseteq {"ready"} \cup AfterReady
      BY <3>1
    <3> QED BY ONLY <2>3, <3>1, <3>2
  <2>5. out[t] = Sees(i, t)
    <3>1. stage[gdn[t]] \in RanBy(i)
      BY <1>1, <2>4
    <3>2. ~SplitMidChunk(segs[i].family)
      BY <1>1, <2>2
    <3> QED BY <2>1, <3>1, <3>2, PassingIs
  <2> QED BY <2>2, <2>5 DEF Sees, Before, Context
<1> QED BY <1>1 DEF OutputsRight

-----------------------------------------------------------------------------
(* The segments and the plan that a pass starts from.                        *)

PassInv == SegmentsInv /\ SharedInv /\ ForwardInv

OwnGroups(ss, line) ==
  /\ ss \in Seq(Segment)
  /\ \A i \in DOMAIN ss : \A q \in 1..ss[i].length : line[ss[i].start + q].group = ss[i].group
  /\ \A i, j \in DOMAIN ss : ss[i].group = ss[j].group => i = j

\* A token has one group, and no other segment has that.
LEMMA GroupsApart ==
  ASSUME NEW ss, NEW line, OwnGroups(ss, line)
  PROVE  \A i, j \in DOMAIN ss : i # j => Tokens(ss[i]) \cap Tokens(ss[j]) = {}
<1>1. ASSUME NEW i \in DOMAIN ss, NEW t \in Tokens(ss[i])
      PROVE  line[t + 1].group = ss[i].group
  <2>1. ss[i] \in Segment
    BY DEF OwnGroups
  <2>2. PICK a \in Nat, n \in Nat : a = ss[i].start /\ n = ss[i].length
    BY <2>1 DEF Segment
  <2>3. t \in a..(a + n - 1)
    BY <2>2 DEF Tokens
  <2>4. t - a + 1 \in 1..n /\ a + (t - a + 1) = t + 1
    BY <2>3
  <2> QED BY <2>2, <2>4 DEF OwnGroups
<1>2. ASSUME NEW i \in DOMAIN ss, NEW j \in DOMAIN ss, NEW t \in Tokens(ss[i]), t \in Tokens(ss[j])
      PROVE  i = j
  <2>1. line[t + 1].group = ss[i].group /\ line[t + 1].group = ss[j].group
    BY <1>1, <1>2
  <2> QED BY <2>1 DEF OwnGroups
<1> QED BY <1>2

\* parse_gdn_shared_prefix_segments
LEMMA ParseKeepsSegments ==
  ASSUME FamiliesInv, SegmentsInv, Parse, phase' \in {"parse", "rejected"}, ParseInv'
  PROVE  SegmentsInv'
<1>1. \A i, j \in DOMAIN segs' : i # j => Tokens(segs'[i]) \cap Tokens(segs'[j]) = {}
  <2>1. PICK ss, line : ss = segs' /\ line = Line'
    OBVIOUS
  <2>2. OwnGroups(ss, line)
    BY <2>1 DEF ParseInv, SegsOf, OwnGroups
  <2> QED BY <2>1, <2>2, GroupsApart
<1>2. segs \in Seq(Segment) /\ DOMAIN segs = 1..Len(segs) /\ Len(segs) \in Nat
  BY DEF FamiliesInv
<1>3. \A i \in DOMAIN segs : segs[i].child \in Nat
  <2>1. \A i \in DOMAIN segs : segs[i] \in Segment
    BY <1>2
  <2> QED BY <2>1 DEF Segment
<1>4. CASE UNCHANGED segs
  BY <1>1, <1>4 DEF SegmentsInv
<1>5. CASE ReadPrefix \/ ReadCompletion
  <2>1. PICK s : /\ segs' = Append(segs, s)
                 /\ \/ s.child = 0
                    \/ /\ segs # <<>> /\ s.family = segs[Len(segs)].family
                       /\ s.child = segs[Len(segs)].child + 1
    <3>1. CASE ReadPrefix
      BY <3>1 DEF ReadPrefix, Read
    <3>2. CASE ReadCompletion
      <4>1. segs # <<>>
        BY <3>2 DEF ReadCompletion, ActivePrefix
      <4> QED BY <3>2, <4>1 DEF ReadCompletion, Read, LastFamily
    <3> QED BY <1>5, <3>1, <3>2
  <2>2. PICK n \in Nat : n = Len(segs)
    BY <1>2
  <2>3. /\ DOMAIN segs' = 1..(n + 1) /\ segs'[n + 1] = s /\ DOMAIN segs = 1..n
        /\ \A i \in 1..n : segs'[i] = segs[i]
    BY <1>2, <2>1, <2>2
  <2>4. \A i \in 1..n : segs[i].child > 0 =>
          \E j \in 1..n : segs[j].family = segs[i].family /\ segs[j].child = 1
    BY <2>3 DEF SegmentsInv
  <2>5. s.child > 0 => \E j \in 1..(n + 1) : segs'[j].family = s.family /\ segs'[j].child = 1
    <3>1. SUFFICES ASSUME s.child > 0
                   PROVE  \E j \in 1..(n + 1) : segs'[j].family = s.family /\ segs'[j].child = 1
      OBVIOUS
    <3>2. /\ n \in 1..n /\ s.family = segs[n].family
          /\ s.child = segs[n].child + 1 /\ segs[n].child \in Nat
      <4>1. segs # <<>> => n \in 1..n
        BY <1>2, <2>2
      <4> QED BY <1>3, <2>1, <2>2, <2>3, <3>1, <4>1
    <3>3. CASE segs[n].child = 0
      <4>1. s.child = 1 /\ n + 1 \in 1..(n + 1)
        BY <3>2, <3>3
      <4> QED BY <2>3, <4>1
    <3>4. CASE segs[n].child > 0
      <4>1. PICK j \in 1..n : segs[j].family = segs[n].family /\ segs[j].child = 1
        BY <2>4, <3>2, <3>4
      <4>2. j \in 1..(n + 1) /\ segs'[j] = segs[j]
        BY <2>3
      <4> QED BY <3>2, <4>1, <4>2
    <3> QED BY <3>2, <3>3, <3>4
  <2>6. ASSUME NEW i \in DOMAIN segs', segs'[i].child > 0
        PROVE  \E j \in DOMAIN segs' : segs'[j].family = segs'[i].family /\ segs'[j].child = 1
    <3>1. CASE i = n + 1
      BY <2>3, <2>5, <2>6, <3>1
    <3>2. CASE i \in 1..n
      <4>1. PICK j \in 1..n : segs[j].family = segs[i].family /\ segs[j].child = 1
        BY <2>3, <2>4, <2>6, <3>2
      <4>2. j \in DOMAIN segs' /\ segs'[j] = segs[j] /\ segs'[i] = segs[i]
        BY <2>3, <3>2
      <4> QED BY <4>1, <4>2
    <3> QED BY <2>3, <3>1, <3>2
  <2> QED BY <1>1, <2>6 DEF SegmentsInv
<1> QED BY <1>4, <1>5 DEF Parse, RowRejected, RowRead, parseVars

\* Where nothing is placed nothing is shared.
LEMMA SharedFresh ==
  ASSUME owner' = <<>>, transfers' = {}, chain' = {}
  PROVE  SharedInv'
<1>1. DOMAIN owner' = {}
  OBVIOUS
<1>2. Parted' = {}
  BY <1>1 DEF Parted
<1> QED BY <1>1, <1>2 DEF SharedInv

LEMMA SharedStays ==
  ASSUME SharedInv, UNCHANGED <<segs, gdn, owner, chain, transfers>>,
         path' = path \/ chain = {},
         phase' \in {"place", "forward", "layers"} \/ chain = {}
  PROVE  SharedInv'
<1>1. Families' = Families /\ \A f : PrefixOf(f)' = PrefixOf(f)
  BY DEF Families, PrefixOf, FamilySegs
<1>2. \A i : CanChain(i)' <=> CanChain(i)
  BY DEF CanChain
<1>3. Parted' = Parted
  BY <1>1 DEF Parted
<1>4. \A i : TransferOf(i)' = TransferOf(i)
  BY <1>1 DEF TransferOf
<1>5. transfers' = {TransferOf(i)' : i \in Parted'}
  BY <1>3, <1>4 DEF SharedInv
<1> QED BY <1>1, <1>2, <1>5 DEF SharedInv

\* Outside the plan's phases nothing is chained and nothing sent.
LEMMA NothingShared ==
  ASSUME PlanInv, SharedInv, phase \notin PlannedPhases
  PROVE  owner = <<>> /\ chain = {} /\ transfers = {}
<1>1. owner = <<>> /\ DOMAIN owner = {}
  BY DEF PlanInv, PlanFresh
<1>2. Parted = {}
  BY <1>1 DEF Parted
<1> QED BY <1>1, <1>2 DEF SharedInv, PlannedPhases

\* A segment is placed: what it needs of its prefix is added to the transfers.
LEMMA PlacingShares ==
  ASSUME FamiliesInv, PlanInv, SegmentsInv, SharedInv, PlaceChained \/ PlaceLocal
  PROVE  SharedInv'
<1>1. /\ phase = "place" /\ phase' = "place" /\ next <= Len(segs)
      /\ UNCHANGED <<segs, path, chain>>
  BY DEF PlaceChained, PlaceLocal, Placing, Place, layoutVars, parseVars
<1>2. PICK n \in Nat : n = next /\ n \in 1..Len(segs) /\ n \in DOMAIN segs
  <2>1. next \in 1..(Len(segs) + 1) /\ DOMAIN segs = 1..Len(segs) /\ Len(segs) \in Nat
    BY DEF PlanInv, PlacedInv, FamiliesInv
  <2> QED BY <1>1, <2>1
<1> DEFINE fam(i) == segs[i].family
           pre(i) == PrefixOf(fam(i))
<1>3. PICK own : /\ Place(own) /\ (own = Chained <=> IsChained(n))
                 /\ own # Chained => own \in Ranks /\ transfers' = transfers \cup NewTransfers(n, own)
                 /\ own = Chained => transfers' = transfers
  <2>1. CASE PlaceChained
    BY <1>2, <2>1 DEF PlaceChained
  <2>2. CASE PlaceLocal
    <3>1. PICK r : r = LocalOwner(next)
      OBVIOUS
    <3>2. Place(r) /\ ~IsChained(next) /\ transfers' = transfers \cup NewTransfers(next, r)
      BY <2>2, <3>1 DEF PlaceLocal
    <3>3. r \in Ranks
      BY <1>1, <1>2, <3>1, <3>2, LocalOwnerIs DEF PlanInv
    <3>4. r # Chained
      BY <3>3, PlanAssumption DEF Ranks, Chained
    <3> QED BY <1>2, <3>2, <3>3, <3>4
  <2> QED BY <2>1, <2>2
<1>4. /\ DOMAIN owner = 1..(n - 1) /\ DOMAIN owner' = 1..n /\ owner'[n] = own
      /\ \A i \in 1..(n - 1) : owner'[i] = owner[i]
  <2>1. PICK o, C : o = owner /\ C = 0..CpSize /\ o \in Seq(C) /\ Len(o) = n - 1
    BY <1>2 DEF PlanInv, OwnersInv
  <2>2. owner' = Append(o, own)
    BY <1>3, <2>1 DEF Place
  <2>3. DOMAIN Append(o, own) = 1..n /\ Append(o, own)[n] = own /\ DOMAIN o = 1..(n - 1)
        /\ \A i \in 1..(n - 1) : Append(o, own)[i] = o[i]
    <3>1. o \in Seq(C) /\ Len(o) = n - 1
      BY <2>1
    <3> QED BY ONLY <3>1, n \in Nat
  <2> QED BY <2>1, <2>2, <2>3
<1>5. /\ DOMAIN segs = 1..Len(segs) /\ Len(segs) \in Nat
      /\ \A i \in DOMAIN segs : segs[i].child \in Nat
  <2>1. segs \in Seq(Segment)
    BY DEF FamiliesInv
  <2>2. \A i \in DOMAIN segs : segs[i] \in Segment
    BY <2>1
  <2> QED BY <2>1, <2>2 DEF Segment
<1>6. /\ Families' = Families /\ \A f : PrefixOf(f)' = PrefixOf(f)
      /\ \A i : CanChain(i)' <=> CanChain(i)
  BY <1>1 DEF Families, PrefixOf, FamilySegs, CanChain
\* The tokens of a segment on one rank.
<1>7. ASSUME NEW i \in 1..n, owner'[i] # Chained, NEW t \in Tokens(segs[i])
      PROVE  gdn'[t] = owner'[i]
  <2>1. gdn' = [u \in DOMAIN gdn \cup Tokens(segs[n]) |->
                   IF u \in Tokens(segs[n])
                   THEN CHOOSE r \in Ranks : u \in Shard(n, own, r) ELSE gdn[u]]
    BY <1>2, <1>3 DEF Place
  <2>2. CASE i = n
    <3>1. own \in Ranks /\ own # Chained /\ owner'[i] = own
      BY <1>3, <1>4, <1>7, <2>2
    <3>2. \A r \in Ranks : t \in Shard(n, own, r) <=> r = own
      BY <1>7, <2>2, <3>1 DEF Shard
    <3>3. (CHOOSE r \in Ranks : t \in Shard(n, own, r)) = own
      BY <3>1, <3>2
    <3> QED BY <2>1, <2>2, <3>1, <3>3
  <2>3. CASE i # n
    <3>1. i \in 1..(n - 1) /\ i \in DOMAIN segs
      BY <1>2, <1>5, <2>3
    <3>2. t \notin Tokens(segs[n])
      BY <1>2, <2>3, <3>1 DEF SegmentsInv
    <3>3. t \in DOMAIN gdn
      BY <1>2, <3>1 DEF PlanInv, PlacedInv
    <3>4. gdn'[t] = gdn[t] /\ owner'[i] = owner[i] /\ i \in DOMAIN owner
      BY <1>4, <2>1, <3>1, <3>2, <3>3
    <3> QED BY <1>7, <3>4 DEF SharedInv
  <2> QED BY <2>2, <2>3
\* The segments away from their prefix.
<1>8. \A i \in 1..n : segs[i].child > 0 => pre(i) \in 1..(n - 1) /\ pre(i) < i
  <2>1. \A i \in 1..n : i \in DOMAIN segs
    BY <1>2, <1>5
  <2>2. \A i \in 1..n : segs[i].child > 0 => pre(i) \in DOMAIN segs /\ pre(i) < i
    BY <2>1, PrefixFacts
  <2> QED BY <1>5, <2>2
<1>9. ASSUME NEW i \in 1..(n - 1)
      PROVE  /\ i \in Parted' <=> i \in Parted
             /\ i \in Parted => TransferOf(i)' = TransferOf(i)
  <2>1. i \in 1..n /\ i \in DOMAIN owner /\ i \in DOMAIN owner'
    BY <1>4
  <2>2. owner'[i] = owner[i] /\ (segs[i].child > 0 => owner'[pre(i)] = owner[pre(i)])
    BY <1>4, <1>8, <2>1
  <2>3. i \in Parted => segs[i].child > 0
    BY DEF Parted
  <2> QED BY <1>1, <1>6, <2>1, <2>2, <2>3 DEF Parted, TransferOf
<1>10. n \in Parted' <=> segs[n].child > 0 /\ fam(n) \notin chain /\ own # owner[pre(n)]
  <2>1. n \in 1..n /\ n \in DOMAIN owner' /\ owner'[n] = own
    BY <1>2, <1>4
  <2>2. segs[n].child > 0 => owner'[pre(n)] = owner[pre(n)]
    BY <1>4, <1>8, <2>1
  <2> QED BY <1>1, <1>6, <2>1, <2>2 DEF Parted
<1>11. Parted' \subseteq 1..n /\ Parted \subseteq 1..(n - 1)
  BY <1>4 DEF Parted
<1>12. ASSUME n \in Parted'
       PROVE  NewTransfers(n, own) = {TransferOf(n)'}
  <2>1. segs[n].child > 0 /\ fam(n) \notin chain /\ own # owner[pre(n)]
    BY <1>10, <1>12
  <2>2. owner'[pre(n)] = owner[pre(n)] /\ owner'[n] = own
    BY <1>2, <1>4, <1>8, <2>1
  <2>3. TransferOf(n)' = [source |-> owner[pre(n)], dest |-> own, family |-> fam(n)]
    BY <1>1, <1>6, <2>2 DEF TransferOf
  <2> QED BY <2>1, <2>3 DEF NewTransfers
<1>13. n \notin Parted' /\ own # Chained => NewTransfers(n, own) = {}
  BY <1>10 DEF NewTransfers
<1>14. n \in Parted' => own # Chained
  <2>1. own = Chained => fam(n) \in chain
    BY <1>3 DEF IsChained
  <2> QED BY <1>10, <2>1
<1>15. transfers' = {TransferOf(i)' : i \in Parted'}
  <2>1. transfers = {TransferOf(i) : i \in Parted}
    BY DEF SharedInv
  <2>2. ASSUME NEW x \in transfers' PROVE \E i \in Parted' : x = TransferOf(i)'
    <3>1. CASE x \in transfers
      <4>1. PICK i \in Parted : x = TransferOf(i)
        BY <2>1, <3>1
      <4> QED BY <1>9, <1>11, <4>1
    <3>2. CASE x \notin transfers
      <4>1. own # Chained /\ x \in NewTransfers(n, own)
        BY <1>3, <3>2
      <4> QED BY <1>12, <1>13, <4>1
    <3> QED BY <3>1, <3>2
  <2>3. ASSUME NEW i \in Parted' PROVE TransferOf(i)' \in transfers'
    <3>1. CASE i = n
      BY <1>3, <1>12, <1>14, <3>1
    <3>2. CASE i # n
      <4>1. i \in 1..(n - 1)
        BY <1>2, <1>11, <3>2
      <4>2. i \in Parted /\ TransferOf(i)' = TransferOf(i)
        BY <1>9, <4>1
      <4>3. TransferOf(i) \in transfers
        BY <2>1, <4>2
      <4> QED BY <1>3, <4>2, <4>3
    <3> QED BY <3>1, <3>2
  <2> QED BY <2>2, <2>3
<1>16. \A i \in DOMAIN owner' : owner'[i] # Chained =>
         \A t \in Tokens(segs'[i]) : gdn'[t] = owner'[i]
  BY <1>1, <1>4, <1>7
<1> QED BY <1>1, <1>6, <1>15, <1>16 DEF SharedInv

\* The planner.
LEMMA PlanKeepsShared ==
  ASSUME FamiliesInv, PlanInv, SegmentsInv, SharedInv, Plan
  PROVE  SharedInv'
<1>1. CASE BeginFamilies \/ AssignFamily \/ MoveBundle \/ BundlesSettled
  <2>1. /\ UNCHANGED <<segs, gdn, owner, chain, transfers>> /\ phase \in {"parse", "bundle"}
    BY <1>1 DEF BeginFamilies, AssignFamily, MoveBundle, BundlesSettled, parseVars, layoutVars,
      placeVars, AllRowsRead, FamiliesAssigned
  <2>2. chain = {}
    BY <2>1 DEF SharedInv
  <2> QED BY <2>1, <2>2, SharedStays
<1>2. CASE BeginSegments
  <2>1. /\ phase = "parse" /\ phase' = "place" /\ path' = "segments"
        /\ UNCHANGED <<segs, owner, transfers>> /\ chain' \in SUBSET LegalChains
    BY <1>2 DEF BeginSegments, AllRowsRead, parseVars, placeVars
  <2>2. owner' = <<>> /\ transfers' = {}
    BY <2>1, NothingShared DEF PlannedPhases
  <2>3. DOMAIN owner' = {}
    BY <2>2
  <2>4. Parted' = {}
    BY <2>3 DEF Parted
  <2>5. /\ Families' = Families /\ \A f : PrefixOf(f)' = PrefixOf(f)
        /\ \A i : CanChain(i)' <=> CanChain(i)
    BY <2>1 DEF Families, PrefixOf, FamilySegs, CanChain
  <2>6. chain' \subseteq Families' /\ \A f \in chain' : CanChain(PrefixOf(f))'
    BY <2>1, <2>5 DEF LegalChains
  <2>7. transfers' = {TransferOf(i)' : i \in Parted'}
    BY <2>2, <2>4
  <2> QED BY <2>1, <2>3, <2>6, <2>7 DEF SharedInv
<1>3. CASE PlaceChained \/ PlaceLocal
  BY <1>3, PlacingShares
<1> QED BY <1>1, <1>2, <1>3 DEF Plan

=============================================================================
