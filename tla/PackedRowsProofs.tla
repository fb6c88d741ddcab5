-------------------------- MODULE PackedRowsProofs --------------------------
(* Lemmas about PackedRows, for every batch of groups of trajectories and    *)
(* every length of a row: what the packer lays out, what the parser makes of *)
(* it, and that the two agree.  Every step of packing and of reading keeps   *)
(* ResultsInv, LaidInv and ParseInv; LocalTrainingProofs puts them together  *)
(* with the steps of the services and the ranks around them.                 *)
EXTENDS PackedRows, FiniteSetTheorems, SequenceTheorems, WellFoundedInduction, TLAPS

-----------------------------------------------------------------------------
(* What holds of the results and of the rows they are packed in.             *)

\* The group ids of the k-th result: its prompt's, and that of its own tokens.
Prompt(k) == <<results[k].prompt, 0>>
OwnGroup(k) == <<results[k].prompt, k>>
OwnLength(k) == Len(results[k].tokens) - results[k].promptLength

Result == [prompt : Nat, promptLength : Nat, tokens : Seq(Nat), trained : BOOLEAN]
PackedToken == [group : Nat \X Nat, parent : Nat \X Nat, token : Nat]

\* The results of the groups so far, in the order of their groups; those of one
\* group share a prompt, and each has a token after it if it has tokens at all.
ResultsInv ==
  /\ groups \in Seq(Seq(Trajectory)) /\ results \in Seq(Result)
  /\ \A k \in DOMAIN results :
       /\ results[k].prompt > Len(groups)
       /\ results[k].promptLength = 0 \/ results[k].promptLength < Len(results[k].tokens)
       /\ results[k].trained => results[k].tokens # <<>>
  /\ \A j, k \in DOMAIN results :
       /\ j < k => results[j].prompt >= results[k].prompt
       /\ results[j].prompt = results[k].prompt =>
            /\ results[j].promptLength = results[k].promptLength
            /\ \A i \in 1..results[k].promptLength : results[j].tokens[i] = results[k].tokens[i]

\* The tokens of a group are the n after the s-th, and no others.
Block(tokens, group, s, n) ==
  /\ s + n <= Len(tokens)
  /\ \A i \in DOMAIN tokens : tokens[i].group = group <=> i \in (s + 1)..(s + n)

HoldsOwn(tokens, k) == \E i \in DOMAIN tokens : tokens[i].group = OwnGroup(k)

\* What a row is made of after `upto` results.
RowShape(tokens, upto) ==
  /\ tokens \in Seq(PackedToken)
  /\ \A i \in DOMAIN tokens : \E k \in 1..upto :
       /\ results[k].trained /\ HoldsOwn(tokens, k)
       /\ tokens[i].parent = Prompt(k) /\ tokens[i].group \in {Prompt(k), OwnGroup(k)}
  /\ \A i, j \in DOMAIN tokens : i < j => tokens[i].parent[1] >= tokens[j].parent[1]

\* The k-th result in a row: its prompt after a tokens, its own after s.
ReadsBack(tokens, k, a, s) ==
  LET m == results[k].promptLength
      n == OwnLength(k)
  IN  /\ Block(tokens, Prompt(k), a, m) /\ Block(tokens, OwnGroup(k), s, n) /\ a + m <= s
      /\ \A i \in 1..m : tokens[a + i].token = results[k].tokens[i]
      /\ \A i \in 1..n : tokens[s + i].token = results[k].tokens[m + i]
      /\ \A i \in (a + 1)..(s + n) : tokens[i].parent = Prompt(k)

CanReadBack(tokens, k) == \E a, s \in Nat : ReadsBack(tokens, k, a, s)

\* Each of the first `upto` results that is trained on is in one row, whole.
Laid(rs, upto) ==
  /\ rs \in Seq(Seq(PackedToken)) /\ Len(rs) > 0
  /\ \A x \in DOMAIN rs : RowShape(rs[x], upto)
  /\ \A k \in 1..upto : results[k].trained =>
       \E x \in DOMAIN rs :
         /\ CanReadBack(rs[x], k)
         /\ \A y \in DOMAIN rs : HoldsOwn(rs[y], k) => y = x

LaidInv ==
  /\ packed \in 0..Len(results) /\ Laid(rows, packed)
  /\ phase = "tokenize" => packed = 0 /\ rows = << <<>> >>
  /\ phase \notin {"tokenize", "pack"} => packed = Len(results)

\* The row being read, and how much of it was.
Line == input[1]
Reached == IF row = 1 THEN cursor ELSE Len(Line)

\* What was read of a row, up to its R-th token: segments without a gap, one for
\* each group, each completion after its prefix.
SegsOf(R) ==
  /\ segs \in Seq(Segment)
  /\ \A i \in DOMAIN segs :
       /\ segs[i].row = 1 /\ segs[i].length > 0 /\ segs[i].start + segs[i].length <= R
       /\ \A q \in 1..segs[i].length : Line[segs[i].start + q].group = segs[i].group
       /\ segs[i].child = 0 <=> segs[i].group[2] = 0
       /\ segs[i].child > 0 => \E j \in 1..(i - 1) :
            /\ segs[j].family = segs[i].family /\ segs[j].child = 0
            /\ segs[j].group = <<segs[i].group[1], 0>>
  /\ \A i, j \in DOMAIN segs : segs[i].group = segs[j].group => i = j
  /\ \A q \in 1..R : \E i \in DOMAIN segs :
       q \in (segs[i].start + 1)..(segs[i].start + segs[i].length)
  /\ R > 0 => segs # <<>> /\ segs[Len(segs)].start + segs[Len(segs)].length = R
  /\ R > 0 /\ R < Len(Line) => Line[R].group # Line[R + 1].group

\* The parser is in the one row it was given, or has not started.
ParseInv ==
  /\ phase \notin {"parse", "rejected", "bundle", "place", "forward", "layers"} =>
       row = 1 /\ cursor = 0 /\ segs = <<>>
  /\ phase \in {"parse", "rejected"} =>
       /\ \E x \in DOMAIN rows : input = << rows[x] >>
       /\ row \in {1, 2} /\ cursor \in 0..Len(Line) /\ (row = 2 => cursor = 0)
       /\ SegsOf(Reached)

-----------------------------------------------------------------------------
(* Facts about numbers and sequences.                                        *)

Less == {ss \in Nat \X Nat : ss[1] < ss[2]}

LEMMA NatOrdered == IsWellFoundedOn(Less, Nat)
BY NatLessThanWellFounded DEF OpToRel, Less

\* A set of numbers has a least one: induction is done with sets, not operators.
LEMMA LeastOf ==
  ASSUME NEW T \in SUBSET Nat, T # {}
  PROVE  \E n \in T : \A m \in T : n <= m
<1>1. PICK n \in T : \A m \in T : ~ (<<m, n>> \in Less)
  BY NatOrdered, WFMin
<1>2. ASSUME NEW m \in T, m < n PROVE FALSE
  BY <1>1, <1>2 DEF Less
<1> QED BY <1>2

LEMMA Whole ==
  ASSUME NEW a \in Nat, NEW n \in Nat \ {0}
  PROVE  /\ a \div n \in Nat /\ a % n \in 0..(n - 1) /\ a = (a \div n) * n + (a % n)
<1> DEFINE q == a \div n
           r == a % n
<1>1. r = a - n * q
  OBVIOUS
<1>2. q >= 0 /\ q \in Int /\ r \in 0..(n - 1)
  OBVIOUS
<1> HIDE DEF q, r
<1>3. n * q = q * n
  BY <1>2
<1>4. q \in Nat /\ r \in 0..(n - 1) /\ a = q * n + r
  BY <1>1, <1>2, <1>3
<1> QED BY <1>4 DEF q, r

LEMMA WholeOf ==
  ASSUME NEW k \in Nat, NEW n \in Nat \ {0}
  PROVE  (k * n) \div n = k
<1>1. PICK a \in Nat : a = k * n
  OBVIOUS
<1>2. PICK q \in Nat, r \in 0..(n - 1) : q = a \div n /\ a = q * n + r
  BY Whole
<1>3. ~(q < k)
  <2> SUFFICES ASSUME q < k PROVE FALSE
    OBVIOUS
  <2>1. (k - q - 1) * n >= 0
    OBVIOUS
  <2>2. (k - q - 1) * n = k * n - q * n - n
    OBVIOUS
  <2> QED BY <1>1, <1>2, <2>1, <2>2
<1>4. ~(k < q)
  <2> SUFFICES ASSUME k < q PROVE FALSE
    OBVIOUS
  <2>1. (q - k - 1) * n >= 0
    OBVIOUS
  <2>2. (q - k - 1) * n = q * n - k * n - n
    OBVIOUS
  <2> QED BY <1>1, <1>2, <2>1, <2>2
<1> QED BY <1>1, <1>2, <1>3, <1>4

-----------------------------------------------------------------------------
(* Tokenizing: what the results of a group share.                            *)

LEMMA KeptIn == \A g : Kept(g) \subseteq DOMAIN g
BY DEF Kept

LEMMA SubOf ==
  ASSUME NEW S, NEW s \in Seq(S), NEW n \in 0..Len(s)
  PROVE  /\ SubSeq(s, 1, n) \in Seq(S) /\ Len(SubSeq(s, 1, n)) = n
         /\ \A i \in 1..n : SubSeq(s, 1, n)[i] = s[i]
OBVIOUS

LEMMA SubFrom ==
  ASSUME NEW S, NEW s \in Seq(S), NEW n \in 0..Len(s)
  PROVE  /\ SubSeq(s, n + 1, Len(s)) \in Seq(S) /\ Len(SubSeq(s, n + 1, Len(s))) = Len(s) - n
         /\ \A i \in 1..(Len(s) - n) : SubSeq(s, n + 1, Len(s))[i] = s[n + i]
OBVIOUS

LEMMA NothingOf == ASSUME NEW s PROVE SubSeq(s, 1, 0) = <<>>
OBVIOUS

\* The last of the numbers up to L that are in P in a run from 0.
LEMMA Longest ==
  ASSUME NEW L \in Nat, NEW P, 0 \in P, L + 1 \notin P
  PROVE  \E n \in 0..L : n \in P /\ n + 1 \notin P
<1> DEFINE T == {n \in Nat : n + 1 \notin P}
<1>1. PICK n \in T : \A m \in T : n <= m
  <2>1. T \in SUBSET Nat /\ T # {}
    OBVIOUS
  <2> QED BY <2>1, LeastOf
<1>2. CASE n = 0
  BY <1>1, <1>2
<1>3. CASE n # 0
  <2>1. n - 1 \in Nat /\ n - 1 \notin T
    BY <1>1, <1>3
  <2>2. (n - 1) + 1 = n /\ n <= L
    BY <1>1
  <2> QED BY <1>1, <2>1, <2>2
<1> QED BY <1>2, <1>3

\* PromptLength: the kept trajectories share that many tokens,
\* and each has one more.
LEMMA SharedPrompt ==
  ASSUME NEW g \in Seq(Trajectory), Kept(g) # {}
  PROVE  /\ PromptLength(g) \in Nat
         /\ \A i \in Kept(g) : PromptLength(g) = 0 \/ PromptLength(g) < Len(g[i].tokens)
         /\ \A i, j \in Kept(g) : \A q \in 1..PromptLength(g) : g[i].tokens[q] = g[j].tokens[q]
<1> DEFINE one == CHOOSE i \in Kept(g) : TRUE
           L == Len(g[one].tokens)
           longest == CHOOSE n \in 0..L : SharedLength(g, n) /\ ~SharedLength(g, n + 1)
<1>1. \A i \in Kept(g) : g[i].tokens \in Seq(Nat) /\ g[i].first \in Nat
  <2>1. \A i \in Kept(g) : g[i] \in Trajectory
    BY KeptIn
  <2> QED BY <2>1 DEF Trajectory
<1>2. \E n \in 0..L : SharedLength(g, n) /\ ~SharedLength(g, n + 1)
  <2> DEFINE P == {n \in Nat : SharedLength(g, n)}
  <2>1. 0 \in P
    BY <1>1, NothingOf DEF SharedLength
  <2>2. one \in Kept(g)
    OBVIOUS
  <2>3. L \in Nat /\ ~SharedLength(g, L + 1)
    <3> HIDE DEF one
    <3>1. L \in Nat
      BY <1>1, <2>2
    <3> QED BY <2>2, <3>1 DEF SharedLength
  <2>4. L + 1 \notin P
    BY <2>3
  <2>5. \E n \in 0..L : n \in P /\ n + 1 \notin P
    <3> HIDE DEF L, P
    <3> QED BY <2>1, <2>3, <2>4, Longest
  <2>6. L \in Nat
    BY <2>3
  <2> HIDE DEF L
  <2> QED BY <2>5, <2>6
<1>3. longest \in Nat /\ SharedLength(g, longest)
  <2> DEFINE good(n) == SharedLength(g, n) /\ ~SharedLength(g, n + 1)
  <2>1. longest \in 0..L /\ good(longest)
    <3>1. \E n \in 0..L : good(n)
      BY <1>2
    <3>2. longest = CHOOSE n \in 0..L : good(n)
      OBVIOUS
    <3> HIDE DEF L, good, longest
    <3> QED BY <3>1, <3>2
  <2> HIDE DEF L, longest
  <2> QED BY <2>1
<1>4. PromptLength(g) = IF longest = 0 THEN 0 ELSE longest - 1
  BY DEF PromptLength
<1> HIDE DEF longest
<1>5. PromptLength(g) \in Nat /\ (PromptLength(g) = 0 \/ PromptLength(g) = longest - 1)
  BY <1>3, <1>4
<1>6. ASSUME NEW i \in Kept(g) PROVE PromptLength(g) = 0 \/ PromptLength(g) < Len(g[i].tokens)
  BY <1>1, <1>3, <1>5 DEF SharedLength
<1>7. ASSUME NEW i \in Kept(g), NEW j \in Kept(g), NEW q \in 1..PromptLength(g)
      PROVE  g[i].tokens[q] = g[j].tokens[q]
  <2>1. /\ SubSeq(g[i].tokens, 1, longest) = SubSeq(g[j].tokens, 1, longest)
        /\ longest \in 0..Len(g[i].tokens) /\ longest \in 0..Len(g[j].tokens)
    BY <1>1, <1>3 DEF SharedLength
  <2>2. q \in 1..longest
    BY <1>3, <1>5
  <2> QED BY <1>1, <2>1, <2>2, SubOf
<1> QED BY <1>5, <1>6, <1>7

\* What a concatenation has where.
LEMMA Joined2 ==
  ASSUME NEW S, NEW s \in Seq(S), NEW t \in Seq(S)
  PROVE  /\ s \o t \in Seq(S) /\ Len(s \o t) = Len(s) + Len(t)
         /\ \A i \in 1..Len(s) : (s \o t)[i] = s[i]
         /\ \A i \in 1..Len(t) : (s \o t)[Len(s) + i] = t[i]
         /\ \A i \in DOMAIN (s \o t) :
              \/ i \in 1..Len(s) /\ (s \o t)[i] = s[i]
              \/ \E j \in 1..Len(t) : i = Len(s) + j /\ (s \o t)[i] = t[j]
<1>1. /\ s \o t \in Seq(S) /\ Len(s \o t) = Len(s) + Len(t)
      /\ \A i \in 1..Len(s) : (s \o t)[i] = s[i]
      /\ \A i \in 1..Len(t) : (s \o t)[Len(s) + i] = t[i]
  OBVIOUS
<1>2. ASSUME NEW i \in DOMAIN (s \o t), i \notin 1..Len(s)
      PROVE  \E j \in 1..Len(t) : i = Len(s) + j /\ (s \o t)[i] = t[j]
  <2>1. PICK j : j = i - Len(s)
    OBVIOUS
  <2>2. j \in 1..Len(t) /\ i = Len(s) + j
    BY <1>1, <1>2, <2>1
  <2>3. (s \o t)[Len(s) + j] = t[j]
    BY <1>1, <2>2
  <2> QED BY <2>2, <2>3
<1> QED BY <1>1, <1>2

\* A sequence is its first m elements and the n after them.
LEMMA TwoParts ==
  ASSUME NEW T \in Seq(Nat), NEW m \in Nat, NEW n \in Nat, Len(T) = m + n
  PROVE  [h \in 1..m |-> T[h]] \o [h \in 1..n |-> T[m + h]] = T
<1>1. PICK u, w : u = [h \in 1..m |-> T[h]] /\ w = [h \in 1..n |-> T[m + h]]
  OBVIOUS
<1>2. /\ \A h \in 1..m : h \in 1..(m + n)
      /\ \A h \in 1..n : m + h \in 1..(m + n)
  OBVIOUS
<1>3. \A h \in 1..(m + n) : T[h] \in Nat
  OBVIOUS
<1>4. u \in [1..m -> Nat] /\ w \in [1..n -> Nat]
  BY <1>1, <1>2, <1>3
<1>5. /\ u \in Seq(Nat) /\ w \in Seq(Nat) /\ Len(u) = m /\ Len(w) = n
  BY <1>4
<1>6. /\ \A h \in 1..m : u[h] = T[h]
      /\ \A h \in 1..n : w[h] = T[m + h]
  BY <1>1
<1>7. PICK v : v = u \o w
  OBVIOUS
<1>8. /\ v \in Seq(Nat) /\ Len(v) = m + n
      /\ \A h \in 1..m : v[h] = u[h]
      /\ \A h \in 1..n : v[m + h] = w[h]
  <2>1. u \in Seq(Nat) /\ w \in Seq(Nat)
    BY <1>5
  <2>2. /\ u \o w \in Seq(Nat) /\ Len(u \o w) = Len(u) + Len(w)
        /\ \A h \in 1..Len(u) : (u \o w)[h] = u[h]
        /\ \A h \in 1..Len(w) : (u \o w)[Len(u) + h] = w[h]
    BY ONLY <2>1, Joined2
  <2> QED BY <1>5, <1>7, <2>2
<1>9. ASSUME NEW h \in 1..(m + n) PROVE v[h] = T[h]
  <2>1. CASE h <= m
    BY <1>6, <1>8, <2>1
  <2>2. CASE m < h
    <3>1. PICK q : q = h - m
      OBVIOUS
    <3>2. q \in 1..n /\ h = m + q
      BY <2>2, <3>1
    <3> QED BY <1>6, <1>8, <3>2
  <2> QED BY <2>1, <2>2
<1>10. v = T
  BY <1>8, <1>9, SeqEqual
<1> QED BY <1>1, <1>7, <1>10

\* The results of a group go behind those of the groups before it.
LEMMA TokenizeKeeps ==
  ASSUME ResultsInv, TokenizeGroup
  PROVE  ResultsInv'
<1> DEFINE g == Head(groups)
           n == Cardinality(Kept(g))
           p == Len(groups)
           pl == PromptLength(g)
<1>0. /\ groups # <<>> /\ groups' = Tail(groups) /\ g \in Seq(Trajectory)
      /\ groups \in Seq(Seq(Trajectory)) /\ Tail(groups) \in Seq(Seq(Trajectory))
      /\ p \in Nat \ {0} /\ Len(groups') = p - 1
  BY DEF TokenizeGroup, ResultsInv
<1>1. PICK order \in [1..n -> Kept(g)] :
        results' = results \o [i \in 1..n |->
           [prompt |-> p, promptLength |-> pl, tokens |-> g[order[i]].tokens,
            trained |-> g[order[i]].trained]]
  BY DEF TokenizeGroup
<1>12. p \in Nat \ {0} /\ Len(groups') = p - 1
  BY <1>0
<1>2. n \in Nat
  <2>1. Kept(g) \subseteq 1..Len(g) /\ Len(g) \in Nat
    BY <1>0, KeptIn
  <2>2. IsFiniteSet(1..Len(g))
    BY <2>1, FS_Interval
  <2>3. IsFiniteSet(Kept(g))
    BY <2>1, <2>2, FS_Subset
  <2> QED BY <2>3, FS_CardinalityType
<1>3. n = 0 \/ Kept(g) # {}
  BY <1>1, <1>2
<1> DEFINE new == [i \in 1..n |->
           [prompt |-> p, promptLength |-> pl, tokens |-> g[order[i]].tokens,
            trained |-> g[order[i]].trained]]
<1> HIDE DEF n, p, pl, g
<1>4. ASSUME NEW i \in 1..n
      PROVE  /\ order[i] \in Kept(g) /\ g[order[i]] \in Trajectory /\ pl \in Nat
             /\ pl = 0 \/ pl < Len(g[order[i]].tokens)
             /\ new[i] = [prompt |-> p, promptLength |-> pl, tokens |-> g[order[i]].tokens,
                          trained |-> g[order[i]].trained]
             /\ new[i] \in Result
  <2>1. order[i] \in Kept(g)
    BY <1>1
  <2>5. g[order[i]] \in Trajectory
    BY <1>0, <2>1, KeptIn
  <2>2. pl \in Nat /\ (pl = 0 \/ pl < Len(g[order[i]].tokens))
    BY <1>0, <2>1, SharedPrompt DEF pl
  <2>3. new[i] = [prompt |-> p, promptLength |-> pl, tokens |-> g[order[i]].tokens,
                          trained |-> g[order[i]].trained]
    OBVIOUS
  <2>4. new[i] \in Result
    BY <1>0, <2>2, <2>3, <2>5 DEF Trajectory, Result
  <2> QED BY <2>1, <2>2, <2>3, <2>4, <2>5
<1>5. new \in Seq(Result) /\ Len(new) = n
  BY <1>2, <1>4
<1>6. \A i, j \in 1..n : \A q \in 1..pl : new[i].tokens[q] = new[j].tokens[q]
  <2> SUFFICES ASSUME NEW i \in 1..n, NEW j \in 1..n, NEW q \in 1..pl
               PROVE  new[i].tokens[q] = new[j].tokens[q]
    OBVIOUS
  <2>1. g[order[i]].tokens[q] = g[order[j]].tokens[q]
    BY <1>0, <1>4, SharedPrompt DEF pl
  <2> QED BY <1>4, <2>1
<1>7. \A i \in 1..n : new[i].prompt = p /\ new[i].promptLength = pl
  BY <1>4
<1>13. \A i \in 1..n : /\ pl = 0 \/ pl < Len(new[i].tokens)
                       /\ new[i].trained => new[i].tokens # <<>>
  BY <1>4 DEF Trajectory
<1>8. results' = results \o new /\ results \in Seq(Result)
  BY <1>1 DEF ResultsInv
<1> HIDE DEF new
<1> DEFINE m == Len(results)
<1>9. /\ results' \in Seq(Result) /\ m \in Nat /\ DOMAIN results = 1..m
      /\ \A k \in DOMAIN results' :
           \/ k \in 1..m /\ results'[k] = results[k]
           \/ \E j \in 1..n : k = m + j /\ results'[k] = new[j]
  <2>1. m \in Nat /\ DOMAIN results = 1..m
    BY <1>8
  <2>2. /\ results \o new \in Seq(Result)
        /\ \A k \in DOMAIN (results \o new) :
             \/ k \in 1..Len(results) /\ (results \o new)[k] = results[k]
             \/ \E j \in 1..Len(new) : k = Len(results) + j /\ (results \o new)[k] = new[j]
    BY ONLY <1>5, <1>8, Joined2
  <2> QED BY ONLY <1>5, <1>8, <2>1, <2>2
<1> HIDE DEF m
<1>10. ASSUME NEW k \in DOMAIN results'
       PROVE  /\ results'[k].prompt > Len(groups')
              /\ results'[k].promptLength = 0 \/ results'[k].promptLength < Len(results'[k].tokens)
              /\ results'[k].trained => results'[k].tokens # <<>>
  <2>1. CASE k \in 1..m /\ results'[k] = results[k]
    <3>1. results[k].prompt > p /\ results[k].prompt \in Nat
      <4>1. results[k] \in Result
        BY <1>8, <1>9, <2>1
      <4> QED BY <1>9, <2>1, <4>1 DEF ResultsInv, p, Result
    <3> QED BY <1>0, <1>9, <2>1, <3>1 DEF ResultsInv
  <2>2. CASE \E j \in 1..n : k = m + j /\ results'[k] = new[j]
    <3>1. PICK j \in 1..n : results'[k] = new[j]
      BY <2>2
    <3>2. results'[k].prompt = p /\ results'[k].promptLength = pl
      BY <1>7, <3>1
    <3>3. /\ pl = 0 \/ pl < Len(results'[k].tokens)
          /\ results'[k].trained => results'[k].tokens # <<>>
      BY <1>13, <3>1, Zenon
    <3> QED BY <1>12, <3>2, <3>3
  <2> QED BY <1>9, <2>1, <2>2
<1>11. ASSUME NEW j \in DOMAIN results', NEW k \in DOMAIN results'
       PROVE  /\ j < k => results'[j].prompt >= results'[k].prompt
              /\ results'[j].prompt = results'[k].prompt =>
                   /\ results'[j].promptLength = results'[k].promptLength
                   /\ \A i \in 1..results'[k].promptLength :
                        results'[j].tokens[i] = results'[k].tokens[i]
  <2>1. \A l \in 1..m : results[l].prompt \in Nat /\ results[l].prompt > p
    <3>1. \A l \in 1..m : results[l] \in Result
      BY <1>8, <1>9
    <3> QED BY <1>9, <3>1 DEF ResultsInv, p, Result
  <2>2. CASE /\ j \in 1..m /\ results'[j] = results[j]
             /\ k \in 1..m /\ results'[k] = results[k]
    BY <1>9, <2>2 DEF ResultsInv
  <2>3. CASE /\ j \in 1..m /\ results'[j] = results[j]
             /\ \E h \in 1..n : k = m + h /\ results'[k] = new[h]
    BY <1>7, <1>12, <2>1, <2>3
  <2>4. CASE /\ \E l \in 1..n : j = m + l /\ results'[j] = new[l]
             /\ k \in 1..m /\ results'[k] = results[k]
    BY <1>7, <1>9, <1>12, <2>1, <2>4
  <2>5. CASE /\ \E l \in 1..n : j = m + l /\ results'[j] = new[l]
             /\ \E h \in 1..n : k = m + h /\ results'[k] = new[h]
    BY <1>6, <1>7, <1>12, <2>5
  <2> QED BY <1>9, <2>2, <2>3, <2>4, <2>5
<1> QED BY <1>0, <1>9, <1>10, <1>11 DEF ResultsInv

-----------------------------------------------------------------------------
(* Packing: what a result adds to a row.                                     *)

LEMMA ResultFacts ==
  ASSUME ResultsInv, NEW k \in DOMAIN results
  PROVE  /\ results[k].prompt \in Nat /\ results[k].promptLength \in Nat /\ k \in Nat /\ k > 0
         /\ results[k].tokens \in Seq(Nat) /\ Len(results[k].tokens) \in Nat
         /\ OwnLength(k) \in Nat /\ results[k].promptLength <= Len(results[k].tokens)
         /\ results[k].trained => OwnLength(k) > 0
         /\ Prompt(k) \in Nat \X Nat /\ OwnGroup(k) \in Nat \X Nat
         /\ results \in Seq(Result) /\ DOMAIN results = 1..Len(results)
<1>1. results \in Seq(Result)
  BY DEF ResultsInv
<1>2. results[k] \in Result /\ k \in Nat /\ k > 0 /\ DOMAIN results = 1..Len(results)
  BY <1>1
<1>3. /\ results[k].prompt \in Nat /\ results[k].promptLength \in Nat
      /\ results[k].tokens \in Seq(Nat)
  BY <1>2 DEF Result
<1>4. Len(results[k].tokens) \in Nat /\ (results[k].tokens # <<>> => Len(results[k].tokens) > 0)
  BY <1>3
<1>5. /\ results[k].promptLength = 0 \/ results[k].promptLength < Len(results[k].tokens)
      /\ results[k].trained => results[k].tokens # <<>>
  BY DEF ResultsInv
<1> QED BY <1>1, <1>2, <1>3, <1>4, <1>5 DEF OwnLength, Prompt, OwnGroup

LEMMA ResultsOrdered ==
  ASSUME ResultsInv, NEW j \in DOMAIN results, NEW k \in DOMAIN results
  PROVE  /\ j < k => results[j].prompt >= results[k].prompt
         /\ results[j].prompt = results[k].prompt =>
              /\ results[j].promptLength = results[k].promptLength
              /\ \A i \in 1..results[k].promptLength : results[j].tokens[i] = results[k].tokens[i]
BY DEF ResultsInv

\* The marks of the tokens.
LEMMA Marked ==
  ASSUME NEW s \in Seq(Nat), NEW group \in Nat \X Nat, NEW prompt \in Nat
  PROVE  /\ Mark(s, group, prompt) \in Seq(PackedToken) /\ Len(Mark(s, group, prompt)) = Len(s)
         /\ \A i \in 1..Len(s) : Mark(s, group, prompt)[i]
                  = [group |-> group, parent |-> <<prompt, 0>>, token |-> s[i]]
<1> DEFINE n == Len(s)
           e(i) == [group |-> group, parent |-> <<prompt, 0>>, token |-> s[i]]
<1>1. n \in Nat /\ DOMAIN s = 1..n /\ \A i \in 1..n : s[i] \in Nat
  OBVIOUS
<1>2. \A i \in 1..n : e(i) \in PackedToken
  BY <1>1 DEF PackedToken
<1>3. Mark(s, group, prompt) = [i \in 1..n |-> e(i)]
  BY <1>1 DEF Mark
<1> HIDE DEF e, n
<1>4. [i \in 1..n |-> e(i)] \in [1..n -> PackedToken]
  BY <1>2
<1>5. /\ Mark(s, group, prompt) \in Seq(PackedToken) /\ Len(Mark(s, group, prompt)) = n
      /\ \A i \in 1..n : Mark(s, group, prompt)[i] = e(i)
  BY <1>1, <1>3, <1>4
<1> QED BY <1>5 DEF e, n

\* q is the row with m tokens of the prompt of the k-th result, and its own.
Extended(q, tokens, k, m) ==
  LET T == Len(tokens)
      r == results[k]
  IN  /\ q \in Seq(PackedToken) /\ Len(q) = T + m + OwnLength(k)
      /\ \A i \in 1..T : q[i] = tokens[i]
      /\ \A i \in 1..m : q[T + i] =
           [group |-> Prompt(k), parent |-> Prompt(k), token |-> r.tokens[i]]
      /\ \A i \in 1..OwnLength(k) : q[T + m + i] =
           [group |-> OwnGroup(k), parent |-> Prompt(k), token |-> r.tokens[r.promptLength + i]]

\* The fields of the tokens that were added.
LEMMA ExtendedFields ==
  ASSUME NEW tokens, NEW q, NEW k, NEW m, Extended(q, tokens, k, m)
  PROVE  /\ \A i \in 1..Len(tokens) : q[i] = tokens[i]
         /\ \A i \in 1..m :
              /\ q[Len(tokens) + i].group = Prompt(k) /\ q[Len(tokens) + i].parent = Prompt(k)
              /\ q[Len(tokens) + i].token = results[k].tokens[i]
         /\ \A i \in 1..OwnLength(k) :
              /\ q[Len(tokens) + m + i].group = OwnGroup(k)
              /\ q[Len(tokens) + m + i].parent = Prompt(k)
              /\ q[Len(tokens) + m + i].token = results[k].tokens[results[k].promptLength + i]
<1>1. ASSUME NEW i \in 1..m
      PROVE  /\ q[Len(tokens) + i].group = Prompt(k) /\ q[Len(tokens) + i].parent = Prompt(k)
             /\ q[Len(tokens) + i].token = results[k].tokens[i]
  <2>1. q[Len(tokens) + i] =
           [group |-> Prompt(k), parent |-> Prompt(k), token |-> results[k].tokens[i]]
    BY DEF Extended
  <2> QED BY <2>1
<1>2. ASSUME NEW i \in 1..OwnLength(k)
      PROVE  /\ q[Len(tokens) + m + i].group = OwnGroup(k)
             /\ q[Len(tokens) + m + i].parent = Prompt(k)
             /\ q[Len(tokens) + m + i].token = results[k].tokens[results[k].promptLength + i]
  <2>1. q[Len(tokens) + m + i] =
          [group |-> OwnGroup(k), parent |-> Prompt(k),
           token |-> results[k].tokens[results[k].promptLength + i]]
    BY DEF Extended
  <2> QED BY <2>1
<1> QED BY <1>1, <1>2 DEF Extended

\* The tokens of the result go behind those of the row.
LEMMA RowIsExtended ==
  ASSUME ResultsInv, NEW k \in DOMAIN results, NEW tokens \in Seq(PackedToken), NEW shared \in BOOLEAN,
         NEW q, q = tokens \o TokensOf(results[k], k, shared)
  PROVE  Extended(q, tokens, k, IF shared THEN 0 ELSE results[k].promptLength)
<1> DEFINE r == results[k]
           pl == r.promptLength
           T == Len(tokens)
           o == OwnLength(k)
           m == IF shared THEN 0 ELSE pl
           head == IF shared THEN <<>> ELSE Mark(SubSeq(r.tokens, 1, pl), Prompt(k), r.prompt)
           own == Mark(Own(r), OwnGroup(k), r.prompt)
<1>0. /\ pl \in Nat /\ o \in Nat /\ r.tokens \in Seq(Nat) /\ pl \in 0..Len(r.tokens)
      /\ o = Len(r.tokens) - pl /\ r.prompt \in Nat
      /\ Prompt(k) \in Nat \X Nat /\ OwnGroup(k) \in Nat \X Nat
  BY ResultFacts DEF OwnLength
<1>9. T \in Nat
  OBVIOUS
<1>1. /\ head \in Seq(PackedToken) /\ Len(head) = m
      /\ \A i \in 1..m : head[i] = [group |-> Prompt(k), parent |-> Prompt(k), token |-> r.tokens[i]]
  <2>1. CASE shared
    BY <2>1
  <2>2. CASE ~shared
    <3> DEFINE s == SubSeq(r.tokens, 1, pl)
    <3>1. s \in Seq(Nat) /\ Len(s) = pl /\ \A i \in 1..pl : s[i] = r.tokens[i]
      BY <1>0, SubOf
    <3> HIDE DEF s
    <3>2. /\ Mark(s, Prompt(k), r.prompt) \in Seq(PackedToken)
          /\ Len(Mark(s, Prompt(k), r.prompt)) = pl
          /\ \A i \in 1..pl : Mark(s, Prompt(k), r.prompt)[i]
                  = [group |-> Prompt(k), parent |-> <<r.prompt, 0>>, token |-> s[i]]
      BY <1>0, <3>1, Marked
    <3>3. head = Mark(s, Prompt(k), r.prompt) /\ m = pl
      BY <2>2 DEF s
    <3> HIDE DEF head, m
    <3> QED BY <3>1, <3>2, <3>3 DEF Prompt
  <2> QED BY <2>1, <2>2
<1>2. /\ own \in Seq(PackedToken) /\ Len(own) = o
      /\ \A i \in 1..o : own[i] = [group |-> OwnGroup(k), parent |-> Prompt(k),
                                   token |-> r.tokens[pl + i]]
  <2> DEFINE s == Own(r)
  <2>1. s \in Seq(Nat) /\ Len(s) = o /\ \A i \in 1..o : s[i] = r.tokens[pl + i]
    BY <1>0, SubFrom DEF Own
  <2> HIDE DEF s
  <2>2. /\ Mark(s, OwnGroup(k), r.prompt) \in Seq(PackedToken)
        /\ Len(Mark(s, OwnGroup(k), r.prompt)) = o
        /\ \A i \in 1..o : Mark(s, OwnGroup(k), r.prompt)[i]
                  = [group |-> OwnGroup(k), parent |-> <<r.prompt, 0>>, token |-> s[i]]
    <3>1. s \in Seq(Nat) /\ OwnGroup(k) \in Nat \X Nat /\ r.prompt \in Nat /\ Len(s) = o
      BY <1>0, <2>1
    <3> HIDE DEF o
    <3> QED BY <3>1, Marked
  <2>3. own = Mark(s, OwnGroup(k), r.prompt)
    BY DEF s
  <2> HIDE DEF own
  <2> QED BY <2>1, <2>2, <2>3 DEF Prompt
<1>3. q = tokens \o (head \o own)
  BY DEF TokensOf, Prompt, OwnGroup
<1>4. m \in Nat /\ o \in Nat
  BY <1>0
<1> HIDE DEF head, own, m, o, T, pl
<1> DEFINE more == head \o own
<1>5. /\ more \in Seq(PackedToken) /\ Len(more) = m + o
      /\ \A i \in 1..m : more[i] = head[i]
      /\ \A i \in 1..o : more[m + i] = own[i]
  <2>1. head \in Seq(PackedToken) /\ own \in Seq(PackedToken) /\ Len(head) = m /\ Len(own) = o
    BY <1>1, <1>2
  <2>2. /\ head \o own \in Seq(PackedToken) /\ Len(head \o own) = Len(head) + Len(own)
        /\ \A i \in 1..Len(head) : (head \o own)[i] = head[i]
        /\ \A i \in 1..Len(own) : (head \o own)[Len(head) + i] = own[i]
    <3>1. PICK h, w : h = head /\ w = own
      OBVIOUS
    <3>2. h \in Seq(PackedToken) /\ w \in Seq(PackedToken)
      BY <2>1, <3>1
    <3>3. /\ h \o w \in Seq(PackedToken) /\ Len(h \o w) = Len(h) + Len(w)
          /\ \A i \in 1..Len(h) : (h \o w)[i] = h[i]
          /\ \A i \in 1..Len(w) : (h \o w)[Len(h) + i] = w[i]
      BY ONLY <3>2, Joined2
    <3> QED BY ONLY <3>1, <3>3
  <2> QED BY <2>1, <2>2
<1> HIDE DEF more
<1>6. /\ q \in Seq(PackedToken) /\ Len(q) = T + (m + o)
      /\ \A i \in 1..T : q[i] = tokens[i]
      /\ \A i \in 1..(m + o) : q[T + i] = more[i]
  <2>1. /\ tokens \o more \in Seq(PackedToken) /\ Len(tokens \o more) = Len(tokens) + Len(more)
        /\ \A i \in 1..Len(tokens) : (tokens \o more)[i] = tokens[i]
        /\ \A i \in 1..Len(more) : (tokens \o more)[Len(tokens) + i] = more[i]
    <3>1. more \in Seq(PackedToken) /\ tokens \in Seq(PackedToken)
      BY <1>5
    <3> QED BY ONLY <3>1, Joined2
  <2>2. q = tokens \o more /\ T = Len(tokens) /\ Len(more) = m + o
    BY <1>3, <1>5 DEF more, T
  <2> QED BY <2>1, <2>2
<1>7. ASSUME NEW i \in 1..m
      PROVE  q[T + i] = [group |-> Prompt(k), parent |-> Prompt(k), token |-> r.tokens[i]]
  <2>1. i \in 1..(m + o)
    BY <1>4
  <2> QED BY <1>1, <1>5, <1>6, <2>1
<1>8. ASSUME NEW i \in 1..o
      PROVE  q[T + m + i] = [group |-> OwnGroup(k), parent |-> Prompt(k), token |-> r.tokens[pl + i]]
  <2>1. m + i \in 1..(m + o) /\ T + (m + i) = T + m + i
    BY <1>4, <1>9
  <2>2. q[T + (m + i)] = own[i]
    BY <1>5, <1>6, <2>1
  <2> QED BY <1>2, <2>1, <2>2
<1>10. Len(q) = T + m + o
  <2>1. T + (m + o) = T + m + o
    BY <1>4, <1>9
  <2> QED BY <1>6, <2>1
<1> QED BY <1>6, <1>7, <1>8, <1>10 DEF Extended, T, o, pl, m

\* A run of tokens stays one if others are added behind the row.
LEMMA BlockExtends ==
  ASSUME NEW tokens \in Seq(PackedToken), NEW q \in Seq(PackedToken), Len(tokens) <= Len(q),
         \A i \in 1..Len(tokens) : q[i] = tokens[i], NEW group,
         \A i \in 1..Len(q) : i > Len(tokens) => q[i].group # group,
         NEW s \in Nat, NEW n \in Nat, Block(tokens, group, s, n)
  PROVE  Block(q, group, s, n)
<1>1. /\ DOMAIN tokens = 1..Len(tokens) /\ DOMAIN q = 1..Len(q)
      /\ Len(tokens) \in Nat /\ Len(q) \in Nat
  OBVIOUS
<1>2. s + n <= Len(tokens) /\ s + n <= Len(q)
  BY <1>1 DEF Block
<1>3. ASSUME NEW i \in 1..Len(q) PROVE q[i].group = group <=> i \in (s + 1)..(s + n)
  <2>1. CASE i \in 1..Len(tokens)
    BY <1>1, <2>1 DEF Block
  <2>2. CASE i > Len(tokens)
    BY <1>1, <1>2, <2>2
  <2> QED BY <1>1, <2>1, <2>2
<1> QED BY <1>1, <1>2, <1>3 DEF Block

\* The groups of a row are those of the results that were packed.
LEMMA GroupsOfRow ==
  ASSUME ResultsInv, NEW n \in 0..Len(results), NEW tokens, RowShape(tokens, n),
         NEW i \in DOMAIN tokens
  PROVE  \E k \in 1..n :
           /\ k \in DOMAIN results /\ results[k].trained /\ HoldsOwn(tokens, k)
           /\ tokens[i].parent = Prompt(k)
           /\ \/ tokens[i].group = Prompt(k) /\ tokens[i].group[2] = 0
              \/ tokens[i].group = OwnGroup(k) /\ tokens[i].group[2] = k
<1>1. PICK k \in 1..n :
        /\ results[k].trained /\ HoldsOwn(tokens, k)
        /\ tokens[i].parent = Prompt(k) /\ tokens[i].group \in {Prompt(k), OwnGroup(k)}
  BY DEF RowShape
<1>2. results \in Seq(Result)
  BY DEF ResultsInv
<1>3. k \in DOMAIN results
  BY <1>2
<1> QED BY <1>1, <1>3 DEF Prompt, OwnGroup

\* Only results with something to train on are in a row.
LEMMA OwnIsTrained ==
  ASSUME ResultsInv, NEW n \in 0..Len(results), NEW tokens, RowShape(tokens, n),
         NEW k \in Nat, k > 0, HoldsOwn(tokens, k)
  PROVE  k \in 1..n /\ results[k].trained
<1>1. PICK i \in DOMAIN tokens : tokens[i].group = OwnGroup(k)
  BY DEF HoldsOwn
<1>2. tokens[i].group[2] = k
  BY <1>1 DEF OwnGroup
<1>3. PICK j \in 1..n : /\ results[j].trained
                        /\ tokens[i].group[2] = 0 \/ tokens[i].group[2] = j
  BY GroupsOfRow
<1> QED BY <1>2, <1>3

\* The k-th result is added to a row of results before it.
LEMMA RowGrows ==
  ASSUME ResultsInv, NEW n \in Nat, NEW k, k = n + 1, k \in DOMAIN results, results[k].trained,
         NEW tokens, RowShape(tokens, n), NEW q, NEW m \in Nat, Extended(q, tokens, k, m),
         m = results[k].promptLength \/ m = 0
  PROVE  /\ RowShape(q, k) /\ HoldsOwn(q, k)
         /\ Block(q, OwnGroup(k), Len(tokens) + m, OwnLength(k))
         /\ \A j \in 1..n : HoldsOwn(q, j) <=> HoldsOwn(tokens, j)
<1> DEFINE T == Len(tokens)
           o == OwnLength(k)
<1>0. /\ results[k].prompt \in Nat /\ o \in Nat /\ o > 0 /\ k \in Nat /\ k > 0
      /\ n \in 0..Len(results)
  BY ResultFacts
<1>1. /\ tokens \in Seq(PackedToken) /\ T \in Nat /\ DOMAIN tokens = 1..T
      /\ q \in Seq(PackedToken) /\ Len(q) = T + m + o
  BY DEF RowShape, Extended
<1>11. DOMAIN q = 1..(T + m + o) /\ T \in Nat /\ DOMAIN tokens = 1..T
  BY <1>1
<1>2. /\ \A i \in 1..T : q[i] = tokens[i]
      /\ \A i \in 1..m : q[T + i].group = Prompt(k) /\ q[T + i].parent = Prompt(k)
      /\ \A i \in 1..o : q[T + m + i].group = OwnGroup(k) /\ q[T + m + i].parent = Prompt(k)
  <2>1. /\ \A i \in 1..T : q[i] = tokens[i]
        /\ \A i \in 1..m : /\ q[T + i].group = Prompt(k) /\ q[T + i].parent = Prompt(k)
                           /\ q[T + i].token = results[k].tokens[i]
        /\ \A i \in 1..o : /\ q[T + m + i].group = OwnGroup(k) /\ q[T + m + i].parent = Prompt(k)
                           /\ q[T + m + i].token = results[k].tokens[results[k].promptLength + i]
    <3>1. Extended(q, tokens, k, m)
      OBVIOUS
    <3> QED BY ONLY <3>1, ExtendedFields
  <2> HIDE DEF T, o
  <2> QED BY <2>1
<1> HIDE DEF T, o
<1>3. ASSUME NEW i \in DOMAIN q
      PROVE  \/ i \in 1..T /\ q[i] = tokens[i]
             \/ /\ T < i /\ i <= T + m
                /\ q[i].group = Prompt(k) /\ q[i].parent = Prompt(k)
             \/ /\ T + m < i
                /\ q[i].group = OwnGroup(k) /\ q[i].parent = Prompt(k)
  <2>0. i \in 1..(T + m + o) /\ T \in Nat
    BY <1>11
  <2>1. CASE i \in 1..T
    BY <1>2, <2>1
  <2>2. CASE T < i /\ i <= T + m
    <3>1. i - T \in 1..m /\ T + (i - T) = i
      BY <2>0, <2>2
    <3> QED BY <1>2, <2>2, <3>1
  <2>3. CASE T + m < i
    <3>1. i - T - m \in 1..o /\ T + m + (i - T - m) = i
      BY <1>0, <2>0, <2>3
    <3> QED BY <1>2, <2>3, <3>1
  <2> QED BY <2>0, <2>1, <2>2, <2>3
<1>4. \A i \in 1..T : i \in DOMAIN q /\ i \in DOMAIN tokens
  BY <1>0, <1>11
<1>5. \A i \in DOMAIN tokens : tokens[i].group # OwnGroup(k)
  <2> SUFFICES ASSUME NEW i \in DOMAIN tokens PROVE tokens[i].group # OwnGroup(k)
    OBVIOUS
  <2>1. \E j \in 1..n : tokens[i].group[2] = 0 \/ tokens[i].group[2] = j
    BY <1>0, GroupsOfRow
  <2>2. OwnGroup(k)[2] = k
    BY DEF OwnGroup
  <2> QED BY <1>0, <2>1, <2>2
<1>6. Prompt(k) # OwnGroup(k)
  BY <1>0 DEF Prompt, OwnGroup
<1>7. Block(q, OwnGroup(k), T + m, o)
  <2>1. ASSUME NEW i \in DOMAIN q PROVE q[i].group = OwnGroup(k) <=> i \in (T + m + 1)..(T + m + o)
    <3>1. CASE i \in 1..T /\ q[i] = tokens[i]
      BY <1>4, <1>5, <1>11, <3>1
    <3>2. CASE T < i /\ i <= T + m /\ q[i].group = Prompt(k)
      BY <1>6, <1>11, <3>2
    <3>3. CASE T + m < i /\ q[i].group = OwnGroup(k)
      BY <1>0, <1>11, <3>3
    <3> QED BY <1>3, <3>1, <3>2, <3>3
  <2> QED BY <1>0, <1>1, <2>1 DEF Block
<1>8. HoldsOwn(q, k)
  <2>1. T + m + 1 \in DOMAIN q /\ q[T + m + 1].group = OwnGroup(k)
    BY <1>0, <1>2, <1>11
  <2> QED BY <2>1 DEF HoldsOwn
<1>9. ASSUME NEW j \in 1..n PROVE HoldsOwn(q, j) <=> HoldsOwn(tokens, j)
  <2>1. HoldsOwn(tokens, j) => HoldsOwn(q, j)
    BY <1>2, <1>4, <1>11 DEF HoldsOwn
  <2>2. ASSUME HoldsOwn(q, j) PROVE HoldsOwn(tokens, j)
    <3>1. PICK i \in DOMAIN q : q[i].group = OwnGroup(j)
      BY <2>2 DEF HoldsOwn
    <3>2. OwnGroup(j) # OwnGroup(k) /\ OwnGroup(j) # Prompt(k)
      BY <1>0 DEF OwnGroup, Prompt
    <3>3. i \in 1..T /\ q[i] = tokens[i]
      BY <1>3, <3>1, <3>2
    <3> QED BY <1>4, <3>1, <3>3 DEF HoldsOwn
  <2> QED BY <2>1, <2>2
<1>10. RowShape(q, k)
  <2>1. ASSUME NEW i \in DOMAIN q
        PROVE  \E j \in 1..k :
                 /\ results[j].trained /\ HoldsOwn(q, j)
                 /\ q[i].parent = Prompt(j) /\ q[i].group \in {Prompt(j), OwnGroup(j)}
    <3>1. CASE i \in 1..T /\ q[i] = tokens[i]
      <4>1. PICK j \in 1..n : /\ results[j].trained /\ HoldsOwn(tokens, j)
                              /\ tokens[i].parent = Prompt(j)
                              /\ tokens[i].group \in {Prompt(j), OwnGroup(j)}
        BY <1>4, <3>1 DEF RowShape
      <4>2. j \in 1..k
        BY <1>0
      <4> QED BY <1>9, <3>1, <4>1, <4>2
    <3>2. CASE q[i].parent = Prompt(k) /\ q[i].group \in {Prompt(k), OwnGroup(k)}
      <4>1. k \in 1..k
        BY <1>0
      <4> QED BY <1>8, <3>2, <4>1
    <3> QED BY <1>3, <3>1, <3>2
  <2>2. ASSUME NEW i \in DOMAIN q, NEW j \in DOMAIN q, i < j
        PROVE  q[i].parent[1] >= q[j].parent[1]
    <3>0. Prompt(k)[1] = results[k].prompt
      BY DEF Prompt
    <3>1. CASE i \in 1..T /\ q[i] = tokens[i] /\ j \in 1..T /\ q[j] = tokens[j]
      BY <1>4, <2>2, <3>1 DEF RowShape
    <3>2. CASE i \in 1..T /\ q[i] = tokens[i] /\ q[j].parent = Prompt(k)
      <4>1. PICK l \in 1..n : l \in DOMAIN results /\ tokens[i].parent = Prompt(l)
        BY <1>0, <1>4, <3>2, GroupsOfRow
      <4>2. results[l].prompt >= results[k].prompt
        <5>1. l < k
          BY <1>0
        <5> QED BY <4>1, <5>1, ResultsOrdered
      <4> QED BY <3>0, <3>2, <4>1, <4>2 DEF Prompt
    <3>3. CASE T < i /\ q[i].parent = Prompt(k) /\ j \in 1..T
      BY <1>11, <2>2, <3>3
    <3>4. CASE q[i].parent = Prompt(k) /\ q[j].parent = Prompt(k)
      BY <1>0, <3>0, <3>4
    <3>5. T + m >= T
      BY <1>11
    <3>6. \/ i \in 1..T /\ q[i] = tokens[i]
          \/ T < i /\ q[i].parent = Prompt(k)
      BY <1>3, <1>11
    <3>7. \/ j \in 1..T /\ q[j] = tokens[j]
          \/ T < j /\ q[j].parent = Prompt(k)
      BY <1>3, <1>11
    <3> QED BY <3>1, <3>2, <3>3, <3>4, <3>6, <3>7
  <2> QED BY <1>1, <2>1, <2>2 DEF RowShape
<1> QED BY <1>7, <1>8, <1>9, <1>10 DEF T, o

\* A result of a row can still be read back after another was added.
LEMMA StaysReadable ==
  ASSUME ResultsInv, NEW n \in Nat, NEW k, k = n + 1, k \in DOMAIN results, results[k].trained,
         NEW tokens, RowShape(tokens, n), NEW q, NEW m \in Nat, Extended(q, tokens, k, m),
         m > 0 => m = results[k].promptLength /\ ~HoldsPrompt(tokens, results[k]),
         NEW j \in 1..n, NEW a \in Nat, NEW s \in Nat, ReadsBack(tokens, j, a, s)
  PROVE  ReadsBack(q, j, a, s)
<1> DEFINE T == Len(tokens)
           o == OwnLength(k)
           mj == results[j].promptLength
           oj == OwnLength(j)
<1>0. /\ o \in Nat /\ o > 0 /\ k \in Nat /\ k > 0 /\ n \in 0..Len(results) /\ n < Len(results)
      /\ DOMAIN results = 1..Len(results) /\ Len(results) \in Nat
  BY ResultFacts
<1>1. j \in DOMAIN results /\ j < k /\ j # k /\ j > 0
  BY <1>0
<1>2. mj \in Nat /\ oj \in Nat
  BY <1>1, ResultFacts
<1>3. /\ tokens \in Seq(PackedToken) /\ q \in Seq(PackedToken) /\ T \in Nat
      /\ Len(q) = T + m + o /\ DOMAIN tokens = 1..T
  BY DEF RowShape, Extended
<1>4. \A i \in 1..T : q[i] = tokens[i]
  BY DEF Extended
<1>5. /\ Block(tokens, Prompt(j), a, mj) /\ Block(tokens, OwnGroup(j), s, oj) /\ a + mj <= s
      /\ \A i \in 1..mj : tokens[a + i].token = results[j].tokens[i]
      /\ \A i \in 1..oj : tokens[s + i].token = results[j].tokens[mj + i]
      /\ \A i \in (a + 1)..(s + oj) : tokens[i].parent = Prompt(j)
  BY DEF ReadsBack
<1>6. s + oj <= T /\ a + mj <= T
  BY <1>5 DEF Block
<1>7. /\ \A i \in 1..m : q[T + i].group = Prompt(k)
      /\ \A i \in 1..o : q[T + m + i].group = OwnGroup(k)
  <2>1. /\ \A i \in 1..T : q[i] = tokens[i]
        /\ \A i \in 1..m : /\ q[T + i].group = Prompt(k) /\ q[T + i].parent = Prompt(k)
                           /\ q[T + i].token = results[k].tokens[i]
        /\ \A i \in 1..o : /\ q[T + m + i].group = OwnGroup(k) /\ q[T + m + i].parent = Prompt(k)
                           /\ q[T + m + i].token = results[k].tokens[results[k].promptLength + i]
    <3>1. Extended(q, tokens, k, m)
      OBVIOUS
    <3> QED BY ONLY <3>1, ExtendedFields
  <2> HIDE DEF T, o
  <2> QED BY <2>1
<1> HIDE DEF T, o, mj, oj
<1>8. ASSUME NEW i \in 1..Len(q), i > T
      PROVE  \/ i <= T + m /\ q[i].group = Prompt(k)
             \/ q[i].group = OwnGroup(k)
  <2>1. i \in 1..(T + m + o)
    BY <1>3
  <2>2. CASE i <= T + m
    <3>1. i - T \in 1..m /\ T + (i - T) = i
      BY <1>3, <1>8, <2>2
    <3> QED BY <1>7, <2>2, <3>1
  <2>3. CASE T + m < i
    <3>1. i - T - m \in 1..o /\ T + m + (i - T - m) = i
      BY <1>0, <1>3, <2>1, <2>3
    <3> QED BY <1>7, <3>1
  <2> QED BY <1>3, <2>1, <2>2, <2>3
<1>9. OwnGroup(k) # OwnGroup(j) /\ OwnGroup(k) # Prompt(j) /\ Prompt(k) # OwnGroup(j)
  BY <1>0, <1>1 DEF OwnGroup, Prompt
<1>10. Block(q, OwnGroup(j), s, oj)
  <2>1. \A i \in 1..Len(q) : i > T => q[i].group # OwnGroup(j)
    BY <1>8, <1>9
  <2>2. T <= Len(q)
    BY <1>0, <1>3
  <2> QED BY <1>2, <1>3, <1>4, <1>5, <2>1, <2>2, BlockExtends DEF T
<1>11. Block(q, Prompt(j), a, mj)
  <2>1. ASSUME NEW i \in 1..Len(q), i > T, q[i].group = Prompt(j) PROVE FALSE
    <3>1. i <= T + m /\ Prompt(k) = Prompt(j)
      BY <1>8, <1>9, <2>1
    <3>2. m > 0
      BY <1>3, <2>1, <3>1
    <3>3. results[j].prompt = results[k].prompt
      BY <3>1 DEF Prompt
    <3>4. mj = results[k].promptLength
      BY <1>1, <3>3, ResultsOrdered DEF mj
    <3>5. mj > 0
      BY <3>2, <3>4
    <3>6. a + 1 \in (a + 1)..(a + mj) /\ a + 1 \in 1..T
      BY <1>2, <1>3, <1>6, <3>5
    <3>7. tokens[a + 1].group = Prompt(j) /\ a + 1 \in DOMAIN tokens
      BY <1>3, <1>5, <3>6 DEF Block
    <3>8. HoldsPrompt(tokens, results[k])
      BY <3>1, <3>7 DEF HoldsPrompt, Prompt
    <3> QED BY <3>2, <3>8
  <2>2. T <= Len(q)
    BY <1>0, <1>3
  <2> QED BY <1>2, <1>3, <1>4, <1>5, <2>1, <2>2, BlockExtends DEF T
<1>12. /\ \A i \in 1..mj : a + i \in 1..T
       /\ \A i \in 1..oj : s + i \in 1..T
       /\ \A i \in (a + 1)..(s + oj) : i \in 1..T
  BY <1>2, <1>3, <1>6
<1>13. /\ \A i \in 1..mj : q[a + i].token = results[j].tokens[i]
       /\ \A i \in 1..oj : q[s + i].token = results[j].tokens[mj + i]
       /\ \A i \in (a + 1)..(s + oj) : q[i].parent = Prompt(j)
  BY <1>4, <1>5, <1>12
<1> QED BY <1>5, <1>10, <1>11, <1>13 DEF ReadsBack, mj, oj

\* The result that is added can be read back: its prompt is the one before it, or
\* the one an earlier result of its group brought.
LEMMA AddedIsReadable ==
  ASSUME ResultsInv, NEW n \in Nat, NEW k, k = n + 1, k \in DOMAIN results, results[k].trained,
         NEW tokens, RowShape(tokens, n), NEW q,
         \A j \in 1..n : HoldsOwn(tokens, j) => CanReadBack(tokens, j),
         Extended(q, tokens, k, IF HoldsPrompt(tokens, results[k]) THEN 0
                                ELSE results[k].promptLength)
  PROVE  CanReadBack(q, k)
<1> DEFINE T == Len(tokens)
           o == OwnLength(k)
           M == results[k].promptLength
           m == IF HoldsPrompt(tokens, results[k]) THEN 0 ELSE M
<1>0. /\ o \in Nat /\ o > 0 /\ k \in Nat /\ k > 0 /\ n \in 0..Len(results) /\ n < Len(results)
      /\ DOMAIN results = 1..Len(results) /\ Len(results) \in Nat /\ M \in Nat /\ m \in Nat
  BY ResultFacts
<1>1. /\ tokens \in Seq(PackedToken) /\ q \in Seq(PackedToken) /\ T \in Nat
      /\ Len(q) = T + m + o /\ DOMAIN tokens = 1..T /\ DOMAIN q = 1..Len(q)
  BY DEF RowShape, Extended
<1>2. \A i \in 1..T : q[i] = tokens[i]
  BY DEF Extended
<1>3. /\ \A i \in 1..m : /\ q[T + i].group = Prompt(k) /\ q[T + i].parent = Prompt(k)
                         /\ q[T + i].token = results[k].tokens[i]
      /\ \A i \in 1..o : /\ q[T + m + i].group = OwnGroup(k) /\ q[T + m + i].parent = Prompt(k)
                         /\ q[T + m + i].token = results[k].tokens[M + i]
  BY ExtendedFields
<1>4. Extended(q, tokens, k, m) /\ (m = M \/ m = 0)
  OBVIOUS
<1>5. Block(q, OwnGroup(k), T + m, o)
  <2> HIDE DEF m
  <2> QED BY <1>0, <1>4, RowGrows DEF M
<1>6. CASE ~HoldsPrompt(tokens, results[k])
  <2>0. m = M
    BY <1>6
  <2> HIDE DEF m, T, o, M
  <2>1. Block(q, Prompt(k), T, M)
    <3>1. ASSUME NEW i \in 1..Len(q) PROVE q[i].group = Prompt(k) <=> i \in (T + 1)..(T + M)
      <4>1. CASE i \in 1..T
        <5>1. q[i].group # Prompt(k)
          BY <1>1, <1>2, <1>6, <4>1 DEF HoldsPrompt, Prompt
        <5> QED BY <1>1, <4>1, <5>1
      <4>2. CASE i > T /\ i <= T + m
        <5>1. i - T \in 1..m /\ T + (i - T) = i
          BY <1>0, <1>1, <4>2
        <5>2. q[i].group = Prompt(k)
          BY <1>3, <5>1
        <5> QED BY <1>1, <2>0, <4>2, <5>2
      <4>3. CASE T + m < i
        <5>1. i - T - m \in 1..o /\ T + m + (i - T - m) = i
          BY <1>0, <1>1, <4>3
        <5>2. q[i].group = OwnGroup(k) /\ OwnGroup(k) # Prompt(k)
          BY <1>0, <1>3, <5>1 DEF OwnGroup, Prompt
        <5> QED BY <1>0, <1>1, <2>0, <4>3, <5>2
      <4> QED BY <1>0, <1>1, <4>1, <4>2, <4>3
    <3>2. T + M <= Len(q)
      BY <1>0, <1>1, <2>0
    <3> QED BY <1>1, <3>1, <3>2 DEF Block
  <2>2. ASSUME NEW i \in (T + 1)..((T + M) + o) PROVE q[i].parent = Prompt(k)
    <3>1. CASE i <= T + M
      <4>1. i - T \in 1..m /\ T + (i - T) = i
        BY <1>0, <1>1, <2>0, <3>1
      <4> QED BY <1>3, <4>1
    <3>2. CASE T + M < i
      <4>1. i - T - m \in 1..o /\ T + m + (i - T - m) = i
        BY <1>0, <1>1, <2>0, <3>2
      <4> QED BY <1>3, <4>1
    <3> QED BY <1>0, <1>1, <3>1, <3>2
  <2>3. ReadsBack(q, k, T, T + M)
    <3>1. T + M <= T + M
      BY <1>0, <1>1
    <3>2. /\ \A i \in 1..M : q[T + i].token = results[k].tokens[i]
          /\ \A i \in 1..o : q[(T + M) + i].token = results[k].tokens[M + i]
      BY <1>3, <2>0
    <3> QED BY <1>5, <2>0, <2>1, <2>2, <3>1, <3>2 DEF ReadsBack, M, o
  <2> QED BY <1>0, <1>1, <2>3 DEF CanReadBack
<1>7. CASE HoldsPrompt(tokens, results[k])
  <2>0. m = 0
    BY <1>7
  <2> HIDE DEF m, T, o, M
  <2>1. PICK h \in DOMAIN tokens : tokens[h].group = Prompt(k)
    BY <1>7 DEF HoldsPrompt, Prompt
  <2>2. PICK j \in 1..n : /\ j \in DOMAIN results /\ HoldsOwn(tokens, j)
                          /\ \/ tokens[h].group = Prompt(j)
                             \/ tokens[h].group[2] = j
    BY <1>0, GroupsOfRow
  <2>3. Prompt(j) = Prompt(k) /\ results[j].prompt = results[k].prompt
    <3>1. tokens[h].group[2] = 0
      BY <2>1 DEF Prompt
    <3>2. Prompt(j) = Prompt(k)
      BY <2>1, <2>2, <3>1
    <3> QED BY <3>2 DEF Prompt
  <2>4. PICK a \in Nat, s \in Nat : ReadsBack(tokens, j, a, s)
    BY <2>2 DEF CanReadBack
  <2>5. /\ results[j].promptLength = M
        /\ \A i \in 1..M : results[j].tokens[i] = results[k].tokens[i]
    BY <2>2, <2>3, ResultsOrdered DEF M
  <2>6. /\ Block(tokens, Prompt(k), a, M) /\ a + M <= s
        /\ \A i \in 1..M : tokens[a + i].token = results[k].tokens[i]
        /\ \A i \in (a + 1)..(s + OwnLength(j)) : tokens[i].parent = Prompt(k)
        /\ s + OwnLength(j) <= T /\ OwnLength(j) \in Nat
    <3>1. OwnLength(j) \in Nat
      BY <2>2, ResultFacts
    <3> QED BY <2>3, <2>4, <2>5, <3>1 DEF ReadsBack, Block, T
  <2>7. h \in (a + 1)..(a + M) /\ h \in 1..T
    BY <1>1, <2>1, <2>6 DEF Block
  <2>8. a + 1 \in 1..T /\ tokens[a + 1].parent = Prompt(k)
    <3>1. a + 1 \in (a + 1)..(s + OwnLength(j)) /\ a + 1 \in 1..T
      BY <1>0, <1>1, <2>6, <2>7
    <3> QED BY <2>6, <3>1
  <2>9. ASSUME NEW i \in (a + 1)..T PROVE tokens[i].parent = Prompt(k)
    <3>1. i \in DOMAIN tokens /\ a + 1 \in DOMAIN tokens
      BY <1>1, <2>8
    <3>2. PICK l \in 1..n : l \in DOMAIN results /\ tokens[i].parent = Prompt(l)
      BY <1>0, <3>1, GroupsOfRow
    <3>3. results[l].prompt >= results[k].prompt
      <4>1. l < k
        BY <1>0
      <4> QED BY <3>2, <4>1, ResultsOrdered
    <3>4. CASE i = a + 1
      BY <2>8, <3>4
    <3>5. CASE a + 1 < i
      <4>1. tokens[a + 1].parent[1] >= tokens[i].parent[1]
        BY <3>1, <3>5 DEF RowShape
      <4>2. results[k].prompt >= results[l].prompt
        BY <2>8, <3>2, <4>1 DEF Prompt
      <4>3. results[l].prompt \in Nat /\ results[k].prompt \in Nat
        BY <3>2, ResultFacts
      <4>4. results[l].prompt = results[k].prompt
        BY <3>3, <4>2, <4>3
      <4> QED BY <3>2, <4>4 DEF Prompt
    <3> QED BY <3>4, <3>5
  <2>10. Block(q, Prompt(k), a, M)
    <3>1. ASSUME NEW i \in 1..Len(q), i > T PROVE q[i].group # Prompt(k)
      <4>1. i - T - m \in 1..o /\ T + m + (i - T - m) = i
        BY <1>0, <1>1, <2>0, <3>1
      <4>2. q[i].group = OwnGroup(k) /\ OwnGroup(k) # Prompt(k)
        BY <1>0, <1>3, <4>1 DEF OwnGroup, Prompt
      <4> QED BY <4>2
    <3>2. T <= Len(q)
      BY <1>0, <1>1
    <3> QED BY <1>0, <1>1, <1>2, <2>6, <3>1, <3>2, BlockExtends DEF T
  <2>11. ReadsBack(q, k, a, T)
    <3>1. a + M <= T
      BY <1>0, <1>1, <2>6
    <3>2. ASSUME NEW i \in 1..M PROVE q[a + i].token = results[k].tokens[i]
      <4>0. M \in Nat /\ T \in Nat /\ a \in Nat /\ i \in Nat /\ 1 <= i /\ i <= M
        BY <1>0, <1>1
      <4>1. a + i \in 1..T
        BY <3>1, <4>0
      <4> QED BY <1>2, <2>6, <4>1
    <3>3. ASSUME NEW i \in 1..o PROVE q[T + i].token = results[k].tokens[M + i]
      <4>1. T + m + i = T + i
        BY <1>1, <2>0
      <4> QED BY <1>3, <4>1
    <3>4. ASSUME NEW i \in (a + 1)..(T + o) PROVE q[i].parent = Prompt(k)
      <4>1. CASE i <= T
        <5>1. i \in (a + 1)..T /\ i \in 1..T
          BY <1>1, <4>1
        <5> QED BY <1>2, <2>9, <5>1
      <4>2. CASE T < i
        <5>1. i - T - m \in 1..o /\ T + m + (i - T - m) = i
          BY <1>0, <1>1, <2>0, <4>2
        <5> QED BY <1>3, <5>1
      <4> QED BY <1>1, <4>1, <4>2
    <3>5. Block(q, OwnGroup(k), T, o)
      <4>1. T + m = T
        BY <1>1, <2>0
      <4> QED BY <1>5, <4>1
    <3> QED BY <2>10, <3>1, <3>2, <3>3, <3>4, <3>5 DEF ReadsBack, M, o
  <2> QED BY <1>1, <2>11 DEF CanReadBack
<1> QED BY <1>6, <1>7

-----------------------------------------------------------------------------
(* The rows.                                                                 *)

\* A row of results that are packed already is one of more results, too.
LEMMA ShapeOfMore ==
  ASSUME NEW n \in Nat, NEW tokens, RowShape(tokens, n)
  PROVE  RowShape(tokens, n + 1)
<1>1. \A k \in 1..n : k \in 1..(n + 1)
  OBVIOUS
<1> QED BY <1>1 DEF RowShape

\* A result without a token to train on is left out.
LEMMA LaidMore ==
  ASSUME NEW rs, NEW n \in Nat, Laid(rs, n), ~results[n + 1].trained
  PROVE  Laid(rs, n + 1)
<1>1. \A k \in 1..(n + 1) : results[k].trained => k \in 1..n
  OBVIOUS
<1> QED BY <1>1, ShapeOfMore DEF Laid

\* A new row has nothing yet.
LEMMA LaidAppend ==
  ASSUME NEW rs, NEW n \in Nat, Laid(rs, n)
  PROVE  Laid(Append(rs, <<>>), n)
<1> DEFINE more == Append(rs, <<>>)
           last == Len(rs) + 1
<1>1. /\ rs \in Seq(Seq(PackedToken)) /\ Len(rs) \in Nat /\ DOMAIN rs = 1..Len(rs)
  BY DEF Laid
<1>2. /\ more \in Seq(Seq(PackedToken)) /\ Len(more) = last /\ more[last] = <<>>
      /\ DOMAIN more = 1..last /\ \A x \in 1..Len(rs) : more[x] = rs[x]
  BY <1>1
<1> HIDE DEF more
<1>3. RowShape(<<>>, n) /\ \A k : ~HoldsOwn(<<>>, k)
  BY DEF RowShape, HoldsOwn
<1>4. \A x \in DOMAIN more : (x \in DOMAIN rs /\ more[x] = rs[x]) \/ more[x] = <<>>
  BY <1>1, <1>2
<1>5. \A x \in DOMAIN more : RowShape(more[x], n)
  BY <1>3, <1>4 DEF Laid
<1>6. ASSUME NEW k \in 1..n, results[k].trained
      PROVE  \E x \in DOMAIN more :
               /\ CanReadBack(more[x], k)
               /\ \A y \in DOMAIN more : HoldsOwn(more[y], k) => y = x
  <2>1. PICK x \in DOMAIN rs : /\ CanReadBack(rs[x], k)
                               /\ \A y \in DOMAIN rs : HoldsOwn(rs[y], k) => y = x
    BY <1>6 DEF Laid
  <2>2. x \in DOMAIN more /\ more[x] = rs[x]
    BY <1>1, <1>2
  <2> QED BY <1>3, <1>4, <2>1, <2>2
<1>7. Len(more) > 0
  BY <1>1, <1>2
<1> QED BY <1>2, <1>5, <1>6, <1>7 DEF Laid, more

\* What a row holds of its own can be read back from it.
LEMMA LaidReadable ==
  ASSUME ResultsInv, NEW rs, NEW n \in 0..Len(results), Laid(rs, n), NEW x \in DOMAIN rs,
         NEW k \in 1..n, HoldsOwn(rs[x], k)
  PROVE  CanReadBack(rs[x], k)
<1>1. RowShape(rs[x], n) /\ k \in Nat /\ k > 0
  BY DEF Laid
<1>2. results[k].trained
  BY <1>1, OwnIsTrained
<1> QED BY <1>2 DEF Laid

\* The next result is added to the last row.
LEMMA LaidExtended ==
  ASSUME ResultsInv, NEW rs, NEW n \in Nat, NEW k, k = n + 1, k \in DOMAIN results,
         results[k].trained, Laid(rs, n), NEW q,
         q = rs[Len(rs)] \o TokensOf(results[k], k, HoldsPrompt(rs[Len(rs)], results[k]))
  PROVE  Laid([rs EXCEPT ![Len(rs)] = q], k)
<1> DEFINE last == Len(rs)
           tokens == rs[last]
           new == [rs EXCEPT ![last] = q]
           m == IF HoldsPrompt(tokens, results[k]) THEN 0 ELSE results[k].promptLength
<1>0. /\ n \in 0..Len(results) /\ results[k].promptLength \in Nat /\ OwnLength(k) \in Nat
      /\ OwnLength(k) > 0 /\ k \in Nat /\ k > 0
  BY ResultFacts
<1>1. /\ rs \in Seq(Seq(PackedToken)) /\ last \in Nat /\ last > 0 /\ DOMAIN rs = 1..last
      /\ last \in DOMAIN rs /\ tokens \in Seq(PackedToken)
  BY DEF Laid
<1>2. RowShape(tokens, n)
  BY <1>1 DEF Laid
<1>3. \A j \in 1..n : HoldsOwn(tokens, j) => CanReadBack(tokens, j)
  BY <1>0, <1>1, LaidReadable
<1>4. Extended(q, tokens, k, m)
  <2>1. HoldsPrompt(tokens, results[k]) \in BOOLEAN
    BY DEF HoldsPrompt
  <2> HIDE DEF tokens
  <2> QED BY <1>1, <2>1, RowIsExtended DEF tokens, last
<1>5. m \in Nat /\ (m = results[k].promptLength \/ m = 0)
      /\ (m > 0 => m = results[k].promptLength /\ ~HoldsPrompt(tokens, results[k]))
  BY <1>0
<1>6. CanReadBack(q, k)
  <2> HIDE DEF tokens
  <2> QED BY <1>2, <1>3, <1>4, AddedIsReadable
<1> HIDE DEF m, tokens
<1>7. RowShape(q, k) /\ HoldsOwn(q, k) /\ \A j \in 1..n : HoldsOwn(q, j) <=> HoldsOwn(tokens, j)
  BY <1>2, <1>4, <1>5, RowGrows
<1>8. ASSUME NEW j \in 1..n, CanReadBack(tokens, j) PROVE CanReadBack(q, j)
  <2>1. PICK a \in Nat, s \in Nat : ReadsBack(tokens, j, a, s)
    BY <1>8 DEF CanReadBack
  <2>2. ReadsBack(q, j, a, s)
    BY <1>2, <1>4, <1>5, <2>1, StaysReadable
  <2> QED BY <2>2 DEF CanReadBack
<1>9. /\ new \in Seq(Seq(PackedToken)) /\ Len(new) = last /\ DOMAIN new = DOMAIN rs
      /\ new[last] = q /\ \A x \in DOMAIN rs : x # last => new[x] = rs[x]
  <2>1. q \in Seq(PackedToken)
    BY <1>7 DEF RowShape
  <2> QED BY <1>1, <2>1
<1> HIDE DEF new, last
<1>10. ASSUME NEW x \in DOMAIN new PROVE RowShape(new[x], k)
  <2>1. CASE x = last
    BY <1>7, <1>9, <2>1
  <2>2. CASE x # last
    <3>1. RowShape(rs[x], n)
      BY <1>9 DEF Laid
    <3> QED BY <1>9, <2>2, <3>1, ShapeOfMore
  <2> QED BY <2>1, <2>2
<1>11. ASSUME NEW j \in 1..k, results[j].trained
       PROVE  \E x \in DOMAIN new :
                /\ CanReadBack(new[x], j)
                /\ \A y \in DOMAIN new : HoldsOwn(new[y], j) => y = x
  <2>1. CASE j = k
    <3>1. ASSUME NEW y \in DOMAIN new, HoldsOwn(new[y], k), y # last PROVE FALSE
      <4>1. HoldsOwn(rs[y], k) /\ RowShape(rs[y], n)
        BY <1>9, <3>1 DEF Laid
      <4>2. k \in 1..n
        BY <1>0, <4>1, OwnIsTrained
      <4> QED BY <1>0, <4>2
    <3>2. last \in DOMAIN new /\ CanReadBack(new[last], j)
      BY <1>1, <1>6, <1>9, <2>1
    <3> QED BY <2>1, <3>1, <3>2
  <2>2. CASE j \in 1..n
    <3>1. PICK x \in DOMAIN rs : /\ CanReadBack(rs[x], j)
                                 /\ \A y \in DOMAIN rs : HoldsOwn(rs[y], j) => y = x
      BY <1>11, <2>2 DEF Laid
    <3>2. CanReadBack(new[x], j)
      <4>1. CASE x = last
        BY <1>8, <1>9, <2>2, <3>1, <4>1 DEF tokens
      <4>2. CASE x # last
        BY <1>9, <3>1, <4>2
      <4> QED BY <4>1, <4>2
    <3>3. ASSUME NEW y \in DOMAIN new, HoldsOwn(new[y], j) PROVE y = x
      <4>1. HoldsOwn(rs[y], j)
        <5>1. CASE y = last
          BY <1>7, <1>9, <2>2, <3>3, <5>1 DEF tokens
        <5>2. CASE y # last
          BY <1>9, <3>3, <5>2
        <5> QED BY <5>1, <5>2
      <4> QED BY <1>9, <3>1, <4>1
    <3> QED BY <1>9, <3>1, <3>2, <3>3
  <2>3. j = k \/ j \in 1..n
    BY <1>0
  <2> QED BY <2>1, <2>2, <2>3
<1>12. Len(new) > 0
  BY <1>1, <1>9
<1> QED BY <1>9, <1>10, <1>11, <1>12 DEF Laid, new, last

\* The order of the rows does not matter.
LEMMA LaidShuffled ==
  ASSUME NEW rs, NEW n, Laid(rs, n), NEW p \in [DOMAIN rs -> DOMAIN rs],
         \A i, j \in DOMAIN rs : p[i] = p[j] => i = j
  PROVE  Laid([i \in DOMAIN rs |-> rs[p[i]]], n)
<1> DEFINE new == [i \in DOMAIN rs |-> rs[p[i]]]
           D == DOMAIN rs
<1>1. /\ rs \in Seq(Seq(PackedToken)) /\ Len(rs) \in Nat /\ Len(rs) > 0 /\ D = 1..Len(rs)
  BY DEF Laid
<1>2. \A i \in D : rs[i] \in Seq(PackedToken)
  BY <1>1
<1>3. new \in [1..Len(rs) -> Seq(PackedToken)] /\ DOMAIN new = D
  BY <1>1, <1>2
<1>4. new \in Seq(Seq(PackedToken)) /\ Len(new) = Len(rs)
  <2> HIDE DEF new, D
  <2>1. Len(rs) \in Nat /\ new \in [1..Len(rs) -> Seq(PackedToken)]
    BY <1>1, <1>3
  <2> HIDE DEF PackedToken
  <2> QED BY ONLY <2>1
<1>5. \A x \in D : \E y \in D : p[y] = x
  <2>1. p \in Surjection(D, D)
    <3>1. IsFiniteSet(D)
      BY <1>1, FS_Interval
    <3>2. p \in Injection(D, D)
      BY DEF Injection, IsInjective
    <3> HIDE DEF D
    <3> QED BY <3>1, <3>2, FS_Injection
  <2> QED BY <2>1 DEF Surjection
<1>6. \A x \in DOMAIN new : new[x] = rs[p[x]] /\ p[x] \in D
  BY <1>3
<1> HIDE DEF new, D
<1>7. \A x \in DOMAIN new : RowShape(new[x], n)
  BY <1>6 DEF Laid, D
<1>8. ASSUME NEW k \in 1..n, results[k].trained
      PROVE  \E x \in DOMAIN new :
               /\ CanReadBack(new[x], k)
               /\ \A y \in DOMAIN new : HoldsOwn(new[y], k) => y = x
  <2>1. PICK x \in D : /\ CanReadBack(rs[x], k)
                       /\ \A y \in D : HoldsOwn(rs[y], k) => y = x
    BY <1>8 DEF Laid, D
  <2>2. PICK z \in D : p[z] = x
    BY <1>5, <2>1
  <2>3. CanReadBack(new[z], k)
    BY <1>3, <1>6, <2>1, <2>2
  <2>4. ASSUME NEW y \in DOMAIN new, HoldsOwn(new[y], k) PROVE y = z
    <3>1. p[y] = x
      BY <1>6, <2>1, <2>4
    <3> QED BY <1>3, <2>2, <2>4, <3>1 DEF D
  <2> QED BY <1>3, <2>2, <2>3, <2>4
<1>9. Len(new) > 0
  BY <1>1, <1>4
<1> QED BY <1>4, <1>7, <1>8, <1>9 DEF Laid, new, D

-----------------------------------------------------------------------------
(* The steps of the packer.                                                  *)

LEMMA LaidInit == PackInit => ResultsInv /\ LaidInv
<1> SUFFICES ASSUME PackInit PROVE ResultsInv /\ LaidInv
  OBVIOUS
<1>1. ResultsInv
  BY PackingAssumption DEF PackInit, ResultsInv
<1>2. rows = << <<>> >> /\ packed = 0 /\ results = <<>> /\ phase = "tokenize"
  BY DEF PackInit
<1>3. RowShape(<<>>, 0)
  BY DEF RowShape
<1>4. Laid(rows, packed)
  BY <1>2, <1>3 DEF Laid
<1> QED BY <1>1, <1>2, <1>4 DEF LaidInv

\* Dropping results keeps the order of the others.
LEMMA DropKeeps ==
  ASSUME ResultsInv, DropTooLong
  PROVE  ResultsInv' /\ (phase' = "pack" \/ (phase' = "nothing" /\ results' = <<>>))
<1> DEFINE short == {k \in DOMAIN results : Len(results[k].tokens) <= SeqLen}
           n == Cardinality(short)
<1>1. PICK order \in [1..n -> short] :
        /\ \A i, j \in 1..n : i < j => order[i] < order[j]
        /\ results' = [i \in 1..n |-> results[order[i]]]
  BY DEF DropTooLong
<1>2. results \in Seq(Result) /\ short \subseteq DOMAIN results
  BY DEF ResultsInv
<1>3. IsFiniteSet(short) /\ n \in Nat /\ (short = {} => n = 0)
  <2>1. DOMAIN results = 1..Len(results) /\ Len(results) \in Nat
    BY <1>2
  <2>2. IsFiniteSet(DOMAIN results)
    BY <2>1, FS_Interval
  <2> HIDE DEF short
  <2>3. IsFiniteSet(short)
    BY <1>2, <2>2, FS_Subset
  <2> QED BY <2>3, FS_CardinalityType, FS_EmptySet
<1>4. groups' = groups /\ phase' = IF short = {} THEN "nothing" ELSE "pack"
  BY DEF DropTooLong
<1> HIDE DEF short, n
<1>5. \A i \in 1..n : /\ order[i] \in DOMAIN results /\ results[order[i]] \in Result
                      /\ results'[i] = results[order[i]]
  BY <1>1, <1>2
<1>6. results' \in Seq(Result) /\ DOMAIN results' = 1..n
  BY <1>1, <1>3, <1>5
<1>7. ASSUME NEW k \in DOMAIN results'
      PROVE  /\ results'[k].prompt > Len(groups')
             /\ results'[k].promptLength = 0 \/ results'[k].promptLength < Len(results'[k].tokens)
             /\ results'[k].trained => results'[k].tokens # <<>>
  BY <1>4, <1>5, <1>6 DEF ResultsInv
<1>8. ASSUME NEW j \in DOMAIN results', NEW k \in DOMAIN results'
      PROVE  /\ j < k => results'[j].prompt >= results'[k].prompt
             /\ results'[j].prompt = results'[k].prompt =>
                  /\ results'[j].promptLength = results'[k].promptLength
                  /\ \A i \in 1..results'[k].promptLength :
                       results'[j].tokens[i] = results'[k].tokens[i]
  <2>1. j < k => order[j] < order[k]
    BY <1>1, <1>6
  <2> QED BY <1>5, <1>6, <2>1, ResultsOrdered
<1>9. ResultsInv'
  BY <1>4, <1>6, <1>7, <1>8 DEF ResultsInv
<1>10. short = {} => results' = <<>>
  <2>1. short = {} => Len(results') = 0
    BY <1>3, <1>6
  <2>2. PICK w : w = results'
    OBVIOUS
  <2>3. w \in Seq(Result) /\ (short = {} => Len(w) = 0)
    BY <1>6, <2>1, <2>2
  <2>4. short = {} => w = <<>>
    BY ONLY <2>3
  <2> QED BY <2>2, <2>4
<1> QED BY <1>4, <1>9, <1>10

\* What is said of a row rests on the results alone.
LEMMA SameResults ==
  ASSUME UNCHANGED results, NEW tokens, NEW k
  PROVE  /\ RowShape(tokens, k)' <=> RowShape(tokens, k)
         /\ CanReadBack(tokens, k)' <=> CanReadBack(tokens, k)
         /\ HoldsOwn(tokens, k)' <=> HoldsOwn(tokens, k)
<1>1. HoldsOwn(tokens, k)' <=> HoldsOwn(tokens, k)
  BY DEF HoldsOwn, OwnGroup
<1>2. RowShape(tokens, k)' <=> RowShape(tokens, k)
  BY DEF RowShape, HoldsOwn, OwnGroup, Prompt
<1>3. CanReadBack(tokens, k)' <=> CanReadBack(tokens, k)
  BY DEF CanReadBack, ReadsBack, OwnGroup, Prompt, OwnLength, Block
<1> QED BY <1>1, <1>2, <1>3

\* Every step of the packer, in any order of the groups and of their results.
LEMMA PackKeeps ==
  ASSUME ResultsInv, LaidInv, Pack
  PROVE  ResultsInv' /\ LaidInv'
<1>1. CASE TokenizeGroup \/ DropTooLong
  <2>1. ResultsInv' /\ (phase' = phase \/ phase' = "pack" \/ (phase' = "nothing" /\ results' = <<>>))
    <3>1. CASE TokenizeGroup
      <4>1. phase' = phase
        BY <3>1 DEF TokenizeGroup
      <4> QED BY <3>1, <4>1, TokenizeKeeps
    <3>2. CASE DropTooLong
      BY <3>2, DropKeeps
    <3> QED BY <1>1, <3>1, <3>2
  <2>2. rows' = << <<>> >> /\ packed' = 0 /\ phase = "tokenize"
    BY <1>1 DEF TokenizeGroup, DropTooLong, LaidInv
  <2>3. RowShape(<<>>, 0)'
    BY DEF RowShape
  <2>4. Laid(rows, packed)'
    BY <2>2, <2>3 DEF Laid
  <2>5. packed' \in 0..Len(results')
    BY <2>1, <2>2 DEF ResultsInv
  <2> QED BY <2>1, <2>2, <2>4, <2>5 DEF LaidInv
<1>2. CASE PackResult
  <2>1. /\ phase = "pack" /\ packed < Len(results) /\ packed' = packed + 1
        /\ UNCHANGED <<phase, groups, results>>
    BY <1>2 DEF PackResult
  <2>2. ResultsInv'
    BY <2>1 DEF ResultsInv
  <2>3. /\ packed \in Nat /\ packed' \in 0..Len(results) /\ packed' \in DOMAIN results
        /\ packed \in 0..Len(results) /\ results \in Seq(Result) /\ Laid(rows, packed)
    BY <2>1 DEF LaidInv, ResultsInv
  <2>4. Laid(rows', packed')
    <3> DEFINE r == results[packed + 1]
               base == IF Fits(rows[Len(rows)], r) THEN rows ELSE Append(rows, <<>>)
               shared == HoldsPrompt(base[Len(base)], r)
    <3>1. rows' = IF ~r.trained THEN rows
                  ELSE [base EXCEPT ![Len(base)] =
                          base[Len(base)] \o TokensOf(r, packed + 1, shared)]
      BY <1>2 DEF PackResult
    <3>2. CASE ~r.trained
      BY <2>1, <2>3, <3>1, <3>2, LaidMore
    <3>3. CASE r.trained
      <4>1. Laid(base, packed)
        BY <2>3, LaidAppend
      <4> HIDE DEF base
      <4> QED BY <2>1, <2>3, <3>1, <3>3, <4>1, LaidExtended
    <3> QED BY <3>2, <3>3
  <2>5. Laid(rows, packed)'
    BY <2>1, <2>4, SameResults DEF Laid
  <2> QED BY <2>1, <2>2, <2>3, <2>5 DEF LaidInv
<1>3. CASE RowsShuffled
  <2>1. /\ phase = "pack" /\ packed = Len(results) /\ phase' = "packed"
        /\ UNCHANGED <<groups, results, packed>>
    BY <1>3 DEF RowsShuffled
  <2>2. ResultsInv'
    BY <2>1 DEF ResultsInv
  <2>3. PICK p \in [DOMAIN rows -> DOMAIN rows] :
          /\ \A i, j \in DOMAIN rows : p[i] = p[j] => i = j
          /\ rows' = [i \in DOMAIN rows |-> rows[p[i]]]
    BY <1>3 DEF RowsShuffled
  <2>4. Laid(rows, packed)
    BY DEF LaidInv
  <2>5. Laid(rows', packed)
    BY <2>3, <2>4, LaidShuffled
  <2>6. Laid(rows, packed)'
    BY <2>1, <2>5, SameResults DEF Laid
  <2> QED BY <2>1, <2>2, <2>6 DEF LaidInv
<1> QED BY <1>1, <1>2, <1>3 DEF Pack

-----------------------------------------------------------------------------
(* Parsing: what the parser reads of a row.                                  *)

LEMMA RunEndsThere ==
  ASSUME NEW tokens \in Seq(PackedToken), NEW c \in Nat, c < Len(tokens)
  PROVE  LET e == RunEnd(tokens, c)
         IN  /\ e \in (c + 1)..Len(tokens)
             /\ \A i \in (c + 1)..e : tokens[i].group = tokens[c + 1].group
             /\ e < Len(tokens) => tokens[e + 1].group # tokens[c + 1].group
<1> DEFINE L == Len(tokens)
           g == tokens[c + 1].group
           Stops == {e \in (c + 1)..L : e < L => tokens[e + 1].group # g}
           Run(e) == /\ \A i \in (c + 1)..e : tokens[i].group = g
                     /\ e < L => tokens[e + 1].group # g
<1>1. L \in Nat /\ c \in Nat /\ c < L
  OBVIOUS
<1>2. \E e \in (c + 1)..L : Run(e)
  <2> HIDE DEF L, g
  <2>1. Stops \in SUBSET Nat /\ Stops # {}
    <3>1. L \in Stops
      BY <1>1
    <3> QED BY <1>1, <3>1
  <2>2. PICK e \in Stops : \A d \in Stops : e <= d
    <3> HIDE DEF Stops
    <3> QED BY <2>1, LeastOf
  <2> DEFINE Others == {i \in (c + 1)..e : tokens[i].group # g}
  <2>3. ASSUME Others # {} PROVE FALSE
    <3>1. Others \in SUBSET Nat
      BY <1>1, <2>2
    <3>2. PICK b \in Others : \A d \in Others : b <= d
      <4> HIDE DEF Others
      <4> QED BY <2>3, <3>1, LeastOf
    <3>3. b \in (c + 1)..e /\ tokens[b].group # g
      OBVIOUS
    <3>4. b # c + 1
      BY <3>3 DEF g
    <3>5. PICK d : d = b - 1
      OBVIOUS
    <3>6. d \in (c + 1)..L /\ d + 1 = b /\ d < e
      BY <1>1, <2>2, <3>3, <3>4, <3>5
    <3>7. d \in Stops
      BY <3>3, <3>6
    <3> QED BY <1>1, <2>2, <3>6, <3>7
  <2>4. Run(e)
    BY <2>2, <2>3
  <2> QED BY <2>2, <2>4
<1>3. RunEnd(tokens, c) = CHOOSE e \in (c + 1)..L : Run(e)
  BY DEF RunEnd
<1>4. Run(RunEnd(tokens, c)) /\ RunEnd(tokens, c) \in (c + 1)..L
  <2> HIDE DEF L, Run
  <2> QED BY <1>2, <1>3
<1> QED BY <1>4

\* The row at the parser is one the packer made.
LEMMA LineFacts ==
  ASSUME ResultsInv, LaidInv, ParseInv, phase = "parse"
  PROVE  /\ input = <<Line>> /\ Len(input) = 1 /\ Line \in Seq(PackedToken) /\ Len(Line) \in Nat
         /\ DOMAIN Line = 1..Len(Line) /\ RowShape(Line, Len(results)) /\ Len(results) \in Nat
         /\ \A k \in 1..Len(results) : HoldsOwn(Line, k) => CanReadBack(Line, k)
         /\ row \in {1, 2} /\ cursor \in 0..Len(Line) /\ SegsOf(Reached)
<1>1. PICK x \in DOMAIN rows : input = <<rows[x]>>
  BY DEF ParseInv
<1>2. Line = rows[x] /\ input = <<Line>> /\ Len(input) = 1
  BY <1>1 DEF Line
<1>3. packed = Len(results) /\ Laid(rows, Len(results)) /\ Len(results) \in Nat
  BY DEF LaidInv, ResultsInv
<1>4. RowShape(Line, Len(results))
  BY <1>2, <1>3 DEF Laid
<1>5. \A k \in 1..Len(results) : HoldsOwn(Line, k) => CanReadBack(Line, k)
  BY <1>2, <1>3, LaidReadable
<1>6. Line \in Seq(PackedToken) /\ Len(Line) \in Nat /\ DOMAIN Line = 1..Len(Line)
  BY <1>4 DEF RowShape
<1> QED BY <1>2, <1>3, <1>4, <1>5, <1>6 DEF ParseInv

\* What the parser finds at a token.
LEMMA AtTheToken ==
  ASSUME ResultsInv, LaidInv, ParseInv, phase = "parse", NEW q \in 1..Len(Line)
  PROVE  \E k \in 1..Len(results), a, s \in Nat :
           /\ k \in DOMAIN results /\ k > 0 /\ ReadsBack(Line, k, a, s)
           /\ Line[q].parent = Prompt(k) /\ Prompt(k)[2] = 0
           /\ \/ Line[q].group = Prompt(k)
              \/ Line[q].group = OwnGroup(k) /\ OwnGroup(k) # Prompt(k) /\ OwnGroup(k)[2] = k
<1>1. /\ RowShape(Line, Len(results)) /\ q \in DOMAIN Line /\ Len(results) \in 0..Len(results)
      /\ \A k \in 1..Len(results) : HoldsOwn(Line, k) => CanReadBack(Line, k)
  BY LineFacts
<1>2. PICK k \in 1..Len(results) :
        /\ k \in DOMAIN results /\ HoldsOwn(Line, k) /\ Line[q].parent = Prompt(k)
        /\ \/ Line[q].group = Prompt(k)
           \/ Line[q].group = OwnGroup(k)
  BY <1>1, GroupsOfRow
<1>3. PICK a \in Nat, s \in Nat : ReadsBack(Line, k, a, s)
  BY <1>1, <1>2 DEF CanReadBack
<1>4. k > 0 /\ Prompt(k)[2] = 0 /\ OwnGroup(k) # Prompt(k) /\ OwnGroup(k)[2] = k
  <2>1. k > 0 /\ k # 0
    OBVIOUS
  <2> QED BY <2>1 DEF Prompt, OwnGroup
<1> QED BY <1>2, <1>3, <1>4

\* The groups of a row are runs of tokens: none comes back.
LEMMA NoGroupComesBack ==
  ASSUME ResultsInv, LaidInv, ParseInv, AtToken
  PROVE  ~SeenGroup(Line[cursor + 1].group)
<1> SUFFICES ASSUME SeenGroup(Line[cursor + 1].group) PROVE FALSE
  OBVIOUS
<1>1. /\ phase = "parse" /\ row = 1 /\ Reached = cursor /\ cursor \in Nat /\ cursor < Len(Line)
      /\ Line \in Seq(PackedToken) /\ Len(Line) \in Nat /\ DOMAIN Line = 1..Len(Line)
      /\ SegsOf(cursor)
  <2>1. phase = "parse" /\ row <= Len(input) /\ cursor < Len(input[row])
    BY DEF AtToken
  <2>2. /\ row \in {1, 2} /\ Len(input) = 1 /\ cursor \in 0..Len(Line) /\ SegsOf(Reached)
        /\ Line \in Seq(PackedToken) /\ Len(Line) \in Nat /\ DOMAIN Line = 1..Len(Line)
    BY <2>1, LineFacts
  <2>3. row = 1
    BY <2>1, <2>2
  <2>4. cursor < Len(Line) /\ Reached = cursor
    BY <2>1, <2>3 DEF Line, Reached
  <2> QED BY <2>1, <2>2, <2>3, <2>4
<1> DEFINE g == Line[cursor + 1].group
<1>2. PICK i \in DOMAIN segs : segs[i].group = g
  BY DEF SeenGroup
<1>3. /\ segs[i].length > 0 /\ segs[i].start + segs[i].length <= cursor
      /\ \A q \in 1..segs[i].length : Line[segs[i].start + q].group = g
  BY <1>1, <1>2 DEF SegsOf
<1>4. segs[i].start \in Nat /\ segs[i].length \in Nat
  <2>1. segs[i] \in Segment
    BY <1>1 DEF SegsOf
  <2> QED BY <2>1 DEF Segment
<1>5. PICK b \in Nat, n \in Nat : Block(Line, g, b, n)
  <2>1. cursor + 1 \in 1..Len(Line)
    BY <1>1
  <2>2. PICK k \in 1..Len(results), a \in Nat, s \in Nat :
          /\ k \in DOMAIN results /\ ReadsBack(Line, k, a, s)
          /\ g = Prompt(k) \/ g = OwnGroup(k)
    BY <1>1, <2>1, AtTheToken
  <2>3. results[k].promptLength \in Nat /\ OwnLength(k) \in Nat
    BY <2>2, ResultFacts
  <2> QED BY <2>2, <2>3 DEF ReadsBack
<1> HIDE DEF g
<1>6. PICK f : f = segs[i].start + 1
  OBVIOUS
<1>7. f \in 1..Len(Line) /\ f <= cursor /\ Line[f].group = g /\ cursor \in 1..Len(Line)
  BY <1>1, <1>3, <1>4, <1>6
<1>8. f \in (b + 1)..(b + n) /\ cursor + 1 \in (b + 1)..(b + n)
  <2>1. cursor + 1 \in 1..Len(Line) /\ Line[cursor + 1].group = g
    BY <1>1 DEF g
  <2> QED BY <1>1, <1>5, <1>7, <2>1 DEF Block
<1>9. Line[cursor].group = g
  <2>1. cursor \in (b + 1)..(b + n)
    BY <1>1, <1>7, <1>8
  <2> QED BY <1>1, <1>5, <1>7, <2>1 DEF Block
<1>10. Line[cursor].group # Line[cursor + 1].group
  BY <1>1, <1>7 DEF SegsOf
<1> QED BY <1>9, <1>10 DEF g

\* Where the parser is.
LEMMA AtTokenFacts ==
  ASSUME ResultsInv, LaidInv, ParseInv, AtToken
  PROVE  /\ phase = "parse" /\ row = 1 /\ Reached = cursor /\ cursor \in Nat /\ cursor < Len(Line)
         /\ Line \in Seq(PackedToken) /\ Len(Line) \in Nat /\ DOMAIN Line = 1..Len(Line)
         /\ SegsOf(cursor) /\ input[row] = Line /\ cursor + 1 \in 1..Len(Line)
<1>1. phase = "parse" /\ row <= Len(input) /\ cursor < Len(input[row])
  BY DEF AtToken
<1>2. /\ row \in {1, 2} /\ Len(input) = 1 /\ cursor \in 0..Len(Line) /\ SegsOf(Reached)
      /\ Line \in Seq(PackedToken) /\ Len(Line) \in Nat /\ DOMAIN Line = 1..Len(Line)
  BY <1>1, LineFacts
<1>3. row = 1
  BY <1>1, <1>2
<1>4. cursor < Len(Line) /\ Reached = cursor /\ input[row] = Line
  BY <1>1, <1>3 DEF Line, Reached
<1> QED BY <1>1, <1>2, <1>3, <1>4

\* Where a completion is found its prefix is the one that is active: what is
\* between the two belongs to their family.
LEMMA PrefixIsActive ==
  ASSUME ResultsInv, LaidInv, ParseInv, AtToken,
         Line[cursor + 1].group # Line[cursor + 1].parent,
         \A k \in DOMAIN results : results[k].promptLength # 0
  PROVE  ActivePrefix(Line[cursor + 1].parent)
<1>1. /\ phase = "parse" /\ row = 1 /\ cursor \in Nat /\ cursor < Len(Line)
      /\ Len(Line) \in Nat /\ DOMAIN Line = 1..Len(Line)
      /\ SegsOf(cursor) /\ cursor + 1 \in 1..Len(Line)
  BY AtTokenFacts
<1>2. PICK k \in 1..Len(results), a \in Nat, s \in Nat :
        /\ k \in DOMAIN results /\ k > 0 /\ ReadsBack(Line, k, a, s)
        /\ Line[cursor + 1].parent = Prompt(k) /\ Prompt(k)[2] = 0
        /\ Line[cursor + 1].group = OwnGroup(k)
  BY <1>1, AtTheToken
<1> DEFINE m == results[k].promptLength
           n == OwnLength(k)
<1>3. /\ Block(Line, Prompt(k), a, m) /\ Block(Line, OwnGroup(k), s, n) /\ a + m <= s
      /\ \A i \in (a + 1)..(s + n) : Line[i].parent = Prompt(k)
  BY <1>2 DEF ReadsBack
<1>4. m \in Nat /\ m > 0 /\ n \in Nat
  BY <1>2, ResultFacts
<1> HIDE DEF m, n
<1>5. cursor + 1 \in (s + 1)..(s + n) /\ cursor >= s
  BY <1>1, <1>2, <1>3 DEF Block
<1>6. cursor = s
  <2> SUFFICES ASSUME cursor > s PROVE FALSE
    BY <1>1, <1>5
  <2>1. cursor \in (s + 1)..(s + n) /\ cursor \in 1..Len(Line) /\ cursor > 0
    BY <1>1, <1>4, <1>5
  <2>2. Line[cursor].group = OwnGroup(k)
    BY <1>1, <1>3, <2>1 DEF Block
  <2>3. Line[cursor].group # Line[cursor + 1].group
    BY <1>1, <2>1 DEF SegsOf
  <2> QED BY <1>2, <2>2, <2>3
<1>7. segs \in Seq(Segment)
  BY <1>1 DEF SegsOf
<1>8. PICK i \in DOMAIN segs : segs[i].group = Prompt(k) /\ segs[i].row = 1 /\ segs[i].child = 0
  <2>1. PICK f : f = a + 1
    OBVIOUS
  <2>2. f \in 1..cursor /\ f \in (a + 1)..(a + m) /\ f \in 1..Len(Line)
    BY <1>1, <1>3, <1>4, <1>6, <2>1
  <2>3. Line[f].group = Prompt(k)
    BY <1>1, <1>3, <2>2 DEF Block
  <2>4. PICK i \in DOMAIN segs : f \in (segs[i].start + 1)..(segs[i].start + segs[i].length)
    BY <1>1, <2>2 DEF SegsOf
  <2>5. segs[i].start \in Nat /\ segs[i].length \in Nat
    <3>1. segs[i] \in Segment
      BY <1>7
    <3> QED BY <3>1 DEF Segment
  <2>6. PICK q : q = f - segs[i].start
    OBVIOUS
  <2>7. q \in 1..segs[i].length /\ segs[i].start + q = f
    BY <2>2, <2>4, <2>5, <2>6
  <2>8. Line[segs[i].start + q].group = segs[i].group
    BY <1>1, <2>7 DEF SegsOf
  <2>9. segs[i].group = Prompt(k)
    BY <2>3, <2>7, <2>8
  <2>10. segs[i].row = 1 /\ (segs[i].child = 0 <=> segs[i].group[2] = 0)
    BY <1>1 DEF SegsOf
  <2> QED BY <1>2, <2>9, <2>10
<1> DEFINE last == Len(segs)
<1>9. /\ last \in DOMAIN segs /\ last \in Nat /\ last > 0 /\ LastFamily = segs[last].family
      /\ segs[last].start + segs[last].length = cursor /\ cursor > 0
  <2>1. cursor > 0
    BY <1>3, <1>4, <1>6
  <2>2. segs # <<>> /\ segs[last].start + segs[last].length = cursor
    BY <1>1, <2>1 DEF SegsOf
  <2>3. last \in DOMAIN segs /\ last \in Nat /\ last > 0
    BY <1>7, <2>2
  <2> QED BY <2>1, <2>2, <2>3 DEF LastFamily
<1> HIDE DEF last
<1>10. Line[cursor].group = segs[last].group
  <2>1. segs[last].start \in Nat /\ segs[last].length \in Nat /\ segs[last].length > 0
    <3>1. segs[last] \in Segment
      BY <1>7, <1>9
    <3>2. segs[last].length > 0
      BY <1>1, <1>9 DEF SegsOf
    <3> QED BY <3>1, <3>2 DEF Segment
  <2>2. segs[last].length \in 1..segs[last].length
    BY <2>1
  <2>3. Line[segs[last].start + segs[last].length].group = segs[last].group
    BY <1>1, <1>9, <2>2 DEF SegsOf
  <2> QED BY <1>9, <2>3
<1>11. PICK j \in Nat : /\ j \in DOMAIN segs /\ segs[j].group = Prompt(k) /\ segs[j].child = 0
                        /\ segs[j].family = segs[last].family /\ segs[j].row = 1
  <2>1. cursor \in (a + 1)..(s + n) /\ cursor \in 1..Len(Line)
    BY <1>1, <1>3, <1>4, <1>6, <1>9
  <2>2. Line[cursor].parent = Prompt(k)
    BY <1>3, <2>1
  <2>3. PICK l \in 1..Len(results) :
          /\ Prompt(l) = Prompt(k)
          /\ Line[cursor].group = Prompt(l) \/ Line[cursor].group = OwnGroup(l)
    BY <1>1, <2>1, <2>2, AtTheToken
  <2>4. CASE segs[last].group = Prompt(k)
    <3>1. last = i
      BY <1>1, <1>8, <1>9, <2>4 DEF SegsOf
    <3> QED BY <1>8, <1>9, <3>1
  <2>5. CASE segs[last].group = OwnGroup(l) /\ segs[last].group # Prompt(k)
    <3>1. <<segs[last].group[1], 0>> = Prompt(k)
      BY <2>3, <2>5 DEF OwnGroup, Prompt
    <3>2. segs[last].child # 0 /\ segs[last].child \in Nat
      <4>1. segs[last] \in Segment
        BY <1>7, <1>9
      <4>2. l # 0 /\ segs[last].group[2] = l
        BY <2>5 DEF OwnGroup
      <4>3. segs[last].child = 0 <=> segs[last].group[2] = 0
        BY <1>1, <1>9 DEF SegsOf
      <4> QED BY <4>1, <4>2, <4>3 DEF Segment
    <3>3. segs[last].child > 0
      BY <3>2
    <3>4. PICK j \in 1..(last - 1) :
            /\ segs[j].family = segs[last].family /\ segs[j].child = 0
            /\ segs[j].group = <<segs[last].group[1], 0>>
      BY <1>1, <1>9, <3>3 DEF SegsOf
    <3>5. j \in DOMAIN segs
      BY <1>7, <1>9, <3>4 DEF last
    <3>6. segs[j].row = 1
      BY <1>1, <3>5 DEF SegsOf
    <3> QED BY <3>1, <3>4, <3>5, <3>6
  <2> QED BY <1>10, <2>3, <2>4, <2>5
<1> QED BY <1>1, <1>2, <1>9, <1>11 DEF ActivePrefix

\* A segment is read at the cursor.
LEMMA SegmentRead ==
  ASSUME ResultsInv, LaidInv, ParseInv, AtToken, NEW family \in Nat, NEW child \in Nat,
         child = 0 <=> Line[cursor + 1].group[2] = 0,
         child > 0 => \E j \in DOMAIN segs :
           /\ segs[j].family = family /\ segs[j].child = 0
           /\ segs[j].group = <<Line[cursor + 1].group[1], 0>>,
         ~SeenGroup(Line[cursor + 1].group), Read(family, child), UNCHANGED <<input, row>>
  PROVE  /\ cursor' \in (cursor + 1)..Len(Line) /\ SegsOf(Reached)' /\ Line' = Line
<1> DEFINE g == Line[cursor + 1].group
           e == RunEnd(Line, cursor)
           n == Len(segs)
           s == [row |-> 1, family |-> family, child |-> child, start |-> cursor,
                 length |-> e - cursor, group |-> g]
<1>1. /\ row = 1 /\ cursor \in Nat /\ cursor < Len(Line) /\ Line \in Seq(PackedToken)
      /\ Len(Line) \in Nat /\ DOMAIN Line = 1..Len(Line)
      /\ SegsOf(cursor) /\ input[row] = Line /\ cursor + 1 \in 1..Len(Line)
  BY AtTokenFacts
<1>2. /\ e \in (cursor + 1)..Len(Line)
      /\ \A i \in (cursor + 1)..e : Line[i].group = g
      /\ e < Len(Line) => Line[e + 1].group # g
  BY <1>1, RunEndsThere
<1>3. g \in Nat \X Nat
  <2>1. Line[cursor + 1] \in PackedToken
    BY <1>1
  <2> QED BY <2>1 DEF PackedToken
<1>4. Line' = Line /\ cursor' = e /\ row' = 1
  BY <1>1 DEF Line, Read
<1>5. segs' = Append(segs, s)
  <2>1. (row - 1) * SeqLen + cursor = cursor
    BY <1>1, PackingAssumption
  <2> QED BY <1>1, <2>1 DEF Read
<1> HIDE DEF g, e
<1>6. s \in Segment
  BY <1>1, <1>2, <1>3 DEF Segment
<1>7. segs \in Seq(Segment) /\ n \in Nat /\ DOMAIN segs = 1..n
  BY <1>1 DEF SegsOf
<1>8. /\ s.row = 1 /\ s.family = family /\ s.child = child /\ s.start = cursor
      /\ s.length = e - cursor /\ s.group = g
  OBVIOUS
<1> HIDE DEF s
<1>9. /\ segs' \in Seq(Segment) /\ Len(segs') = n + 1 /\ DOMAIN segs' = 1..(n + 1)
      /\ \A i \in 1..n : segs'[i] = segs[i]
      /\ segs'[n + 1] = s
  <2> HIDE DEF Segment
  <2> QED BY <1>5, <1>6, <1>7
<1> HIDE DEF n
<1>10. cursor < e /\ e \in Nat /\ e <= Len(Line)
  BY <1>1, <1>2
<1>11. ASSUME NEW i \in DOMAIN segs'
       PROVE  /\ segs'[i].row = 1 /\ segs'[i].length > 0 /\ segs'[i].start + segs'[i].length <= e
              /\ \A q \in 1..segs'[i].length : Line[segs'[i].start + q].group = segs'[i].group
              /\ segs'[i].child = 0 <=> segs'[i].group[2] = 0
              /\ segs'[i].child > 0 => \E j \in 1..(i - 1) :
                   /\ segs'[j].family = segs'[i].family /\ segs'[j].child = 0
                   /\ segs'[j].group = <<segs'[i].group[1], 0>>
  <2>1. CASE i \in 1..n
    <3>1. /\ segs[i].row = 1 /\ segs[i].length > 0 /\ segs[i].start + segs[i].length <= cursor
          /\ \A q \in 1..segs[i].length : Line[segs[i].start + q].group = segs[i].group
          /\ segs[i].child = 0 <=> segs[i].group[2] = 0
          /\ segs[i].child > 0 => \E j \in 1..(i - 1) :
               /\ segs[j].family = segs[i].family /\ segs[j].child = 0
               /\ segs[j].group = <<segs[i].group[1], 0>>
      BY <1>1, <1>7, <2>1 DEF SegsOf
    <3>2. segs[i].start \in Nat /\ segs[i].length \in Nat
      <4>1. segs[i] \in Segment
        BY <1>7, <2>1
      <4> QED BY <4>1 DEF Segment
    <3>3. segs[i].start + segs[i].length <= e
      BY <1>1, <1>10, <3>1, <3>2
    <3>4. segs[i] = segs'[i] /\ \A j \in 1..(i - 1) : segs[j] = segs'[j]
      BY <1>7, <1>9, <2>1
    <3> QED BY <3>1, <3>3, <3>4
  <2>2. CASE i = n + 1
    <3>1. s.length > 0 /\ s.start + s.length <= e
      BY <1>1, <1>8, <1>10
    <3>2. ASSUME NEW q \in 1..s.length PROVE Line[s.start + q].group = s.group
      <4>1. cursor + q \in (cursor + 1)..e
        BY <1>1, <1>8, <1>10
      <4> QED BY <1>2, <1>8, <4>1
    <3>3. s.child = 0 <=> s.group[2] = 0
      BY <1>8 DEF g
    <3>4. ASSUME s.child > 0
          PROVE  \E j \in 1..(i - 1) : /\ segs'[j].family = s.family /\ segs'[j].child = 0
                                       /\ segs'[j].group = <<s.group[1], 0>>
      <4>1. PICK j \in DOMAIN segs : /\ segs[j].family = family /\ segs[j].child = 0
                                     /\ segs[j].group = <<g[1], 0>>
        BY <1>8, <3>4 DEF g
      <4>2. j \in 1..(i - 1) /\ segs'[j] = segs[j]
        BY <1>7, <1>9, <2>2
      <4> QED BY <1>8, <4>1, <4>2
    <3>5. segs'[i] = s
      BY <1>9, <2>2
    <3> QED BY <1>8, <3>1, <3>2, <3>3, <3>4, <3>5
  <2> QED BY <1>7, <1>9, <2>1, <2>2
<1>12. ASSUME NEW i \in DOMAIN segs', NEW j \in DOMAIN segs', segs'[i].group = segs'[j].group
       PROVE  i = j
  <2>1. \A h \in 1..n : segs[h].group # g
    <3>1. \A h \in 1..n : segs[h].row = row
      BY <1>1, <1>7 DEF SegsOf
    <3> QED BY <1>7, <3>1 DEF SeenGroup, g
  <2>2. CASE i \in 1..n /\ j \in 1..n
    BY <1>1, <1>7, <1>9, <1>12, <2>2 DEF SegsOf
  <2>3. CASE i = n + 1 /\ j \in 1..n
    BY <1>8, <1>9, <1>12, <2>1, <2>3
  <2>4. CASE i \in 1..n /\ j = n + 1
    BY <1>8, <1>9, <1>12, <2>1, <2>4
  <2> QED BY <1>7, <1>9, <2>2, <2>3, <2>4
<1>13. ASSUME NEW q \in 1..e
       PROVE  \E i \in DOMAIN segs' :
                q \in (segs'[i].start + 1)..(segs'[i].start + segs'[i].length)
  <2>1. CASE q \in 1..cursor
    <3>1. PICK i \in DOMAIN segs : q \in (segs[i].start + 1)..(segs[i].start + segs[i].length)
      BY <1>1, <2>1 DEF SegsOf
    <3>2. i \in DOMAIN segs' /\ segs'[i] = segs[i]
      BY <1>7, <1>9
    <3> QED BY <3>1, <3>2
  <2>2. CASE q > cursor
    <3>1. q \in (s.start + 1)..(s.start + s.length)
      BY <1>1, <1>8, <1>10, <2>2
    <3>2. n + 1 \in DOMAIN segs' /\ segs'[n + 1] = s
      BY <1>7, <1>9
    <3> QED BY <3>1, <3>2
  <2> QED BY <1>1, <2>1, <2>2
<1>14. segs' # <<>> /\ segs'[Len(segs')].start + segs'[Len(segs')].length = e
  <2>1. s.start + s.length = e
    BY <1>1, <1>8, <1>10
  <2>2. segs' # <<>>
    BY <1>7, <1>9
  <2> QED BY <1>9, <2>1, <2>2
<1>15. e > 0 /\ e < Len(Line) => Line[e].group # Line[e + 1].group
  <2>1. e \in (cursor + 1)..e
    BY <1>1, <1>10
  <2> QED BY <1>2, <2>1
<1>16. Reached' = e
  BY <1>4 DEF Reached
<1>17. SegsOf(Reached)'
  BY <1>4, <1>9, <1>11, <1>12, <1>13, <1>14, <1>15, <1>16 DEF SegsOf
<1> QED BY <1>2, <1>4, <1>17

\* Every step of the parser; it rejects a row only if some group shares no prompt.
LEMMA ParseKeeps ==
  ASSUME ResultsInv, LaidInv, ParseInv, Parse
  PROVE  ParseInv' /\ (phase' = "rejected" => \E k \in DOMAIN results : results[k].promptLength = 0)
<1>0. phase = "parse" /\ UNCHANGED <<groups, results, packed, rows, input>>
  BY DEF Parse, ReadPrefix, ReadCompletion, RowRejected, RowRead, AtToken, packVars, parseVars
<1>1. \E x \in DOMAIN rows : input = <<rows[x]>>
  BY <1>0 DEF ParseInv
<1>2. CASE ReadPrefix \/ ReadCompletion
  <2>1. /\ AtToken /\ phase' = "parse" /\ UNCHANGED <<input, row>>
        /\ \E family, child : Read(family, child)
    BY <1>0, <1>2 DEF ReadPrefix, ReadCompletion
  <2>2. /\ row = 1 /\ input[row] = Line /\ cursor \in Nat /\ cursor < Len(Line) /\ Len(Line) \in Nat
        /\ cursor + 1 \in 1..Len(Line) /\ SegsOf(cursor) /\ segs \in Seq(Segment)
    BY <2>1, AtTokenFacts DEF SegsOf
  <2> DEFINE t == Line[cursor + 1]
  <2>3. PICK k \in 1..Len(results) :
          /\ k > 0 /\ t.parent = Prompt(k) /\ Prompt(k)[2] = 0
          /\ \/ t.group = Prompt(k)
             \/ t.group = OwnGroup(k) /\ OwnGroup(k) # Prompt(k) /\ OwnGroup(k)[2] = k
    BY <1>0, <2>2, AtTheToken
  <2> HIDE DEF t
  <2>4. LastFamily \in Nat /\ (segs # <<>> => segs[Len(segs)].child \in Nat)
    <3>1. CASE segs = <<>>
      BY <3>1 DEF LastFamily
    <3>2. CASE segs # <<>>
      <4>1. segs[Len(segs)] \in Segment
        BY <2>2, <3>2
      <4> QED BY <3>2, <4>1 DEF LastFamily, Segment
    <3> QED BY <3>1, <3>2
  <2>5. cursor' \in (cursor + 1)..Len(Line) /\ SegsOf(Reached)' /\ Line' = Line
    <3>1. CASE ReadPrefix
      <4>1. t.group = t.parent /\ ~SeenGroup(t.group) /\ Read(LastFamily + 1, 0)
        BY <2>2, <3>1 DEF ReadPrefix, t
      <4>2. LastFamily + 1 \in Nat /\ 0 \in Nat /\ ~(0 > 0) /\ t.group[2] = 0
        BY <2>3, <2>4, <4>1
      <4> QED BY <2>1, <4>1, <4>2, SegmentRead DEF t
    <3>2. CASE ReadCompletion
      <4>1. /\ t.group # t.parent /\ ActivePrefix(t.parent) /\ ~SeenGroup(t.group)
            /\ Read(LastFamily, segs[Len(segs)].child + 1)
        BY <2>2, <3>2 DEF ReadCompletion, t
      <4>2. PICK j \in DOMAIN segs : /\ segs[j].family = LastFamily /\ segs[j].child = 0
                                     /\ segs[j].group = t.parent
        BY <4>1 DEF ActivePrefix
      <4>3. segs # <<>>
        BY <4>2
      <4>4. PICK child : child = segs[Len(segs)].child + 1
        OBVIOUS
      <4>5. child \in Nat /\ child > 0 /\ child # 0
        BY <2>4, <4>3, <4>4
      <4>6. t.group = OwnGroup(k) /\ t.group[2] # 0 /\ <<t.group[1], 0>> = Prompt(k)
        <5>1. t.group = OwnGroup(k) /\ k # 0 /\ t.group[2] = k
          BY <2>3, <4>1
        <5> QED BY <5>1 DEF OwnGroup, Prompt
      <4>7. segs[j].group = <<t.group[1], 0>>
        BY <2>3, <4>2, <4>6
      <4>8. Read(LastFamily, child)
        BY <4>1, <4>4
      <4> QED BY <2>1, <2>4, <4>1, <4>2, <4>5, <4>6, <4>7, <4>8, SegmentRead DEF t
    <3> QED BY <1>2, <3>1, <3>2
  <2>6. cursor' \in 0..Len(Line') /\ row' = 1
    BY <2>1, <2>2, <2>5
  <2> QED BY <1>0, <1>1, <2>1, <2>5, <2>6 DEF ParseInv
<1>3. CASE RowRejected
  <2>1. AtToken /\ phase' = "rejected" /\ UNCHANGED <<input, row, cursor, segs, rows>>
    BY <1>3 DEF RowRejected, packVars, parseVars
  <2>2. input[row] = Line
    BY <2>1, AtTokenFacts
  <2>3. Line[cursor + 1].group # Line[cursor + 1].parent /\ ~ActivePrefix(Line[cursor + 1].parent)
    BY <1>3, <2>1, <2>2, NoGroupComesBack DEF RowRejected
  <2>4. \E k \in DOMAIN results : results[k].promptLength = 0
    BY <2>1, <2>3, PrefixIsActive
  <2>5. SegsOf(Reached)' /\ Len(Line') = Len(Line)
    <3>1. Reached' = Reached /\ Line' = Line /\ SegsOf(Reached)
      BY <1>0, <2>1 DEF ParseInv, Reached, Line
    <3> QED BY <2>1, <3>1 DEF SegsOf
  <2> QED BY <1>0, <2>1, <2>4, <2>5 DEF ParseInv
<1>4. CASE RowRead
  <2>1. /\ row <= Len(input) /\ cursor = Len(input[row]) /\ row' = row + 1 /\ cursor' = 0
        /\ phase' = "parse" /\ UNCHANGED <<input, rows, segs>>
    BY <1>0, <1>4 DEF RowRead, packVars
  <2>2. row \in {1, 2} /\ Len(input) = 1 /\ Len(Line) \in Nat /\ SegsOf(Reached)
    BY <1>0, LineFacts
  <2>3. row = 1 /\ row' = 2
    BY <2>1, <2>2
  <2>4. Reached' = Reached /\ Line' = Line
    BY <2>1, <2>3 DEF Reached, Line
  <2>5. SegsOf(Reached)'
    BY <2>1, <2>2, <2>4 DEF SegsOf
  <2>6. 0 \in 0..Len(Line')
    BY <2>2, <2>4
  <2> QED BY <1>1, <2>1, <2>3, <2>5, <2>6 DEF ParseInv
<1> QED BY <1>2, <1>3, <1>4 DEF Parse

\* A segment of a group is all there is of the group.
LEMMA SegmentIsBlock ==
  ASSUME NEW R \in Nat, R = Len(Line), Line \in Seq(PackedToken), SegsOf(R), NEW i \in DOMAIN segs,
         NEW b \in Nat, NEW n \in Nat, Block(Line, segs[i].group, b, n)
  PROVE  segs[i].start = b /\ segs[i].length = n
<1> DEFINE st == segs[i].start
           ln == segs[i].length
           g == segs[i].group
<1>1. segs[i] \in Segment
  BY DEF SegsOf
<1>2. st \in Nat /\ ln \in Nat
  BY <1>1 DEF Segment
<1>3. ln > 0 /\ st + ln <= R /\ \A q \in 1..ln : Line[st + q].group = g
  BY DEF SegsOf
<1>4. DOMAIN Line = 1..R
  OBVIOUS
<1>5. /\ b + n <= R
      /\ \A q \in 1..R : Line[q].group = g <=> q \in (b + 1)..(b + n)
  BY <1>4 DEF Block
<1> HIDE DEF st, ln, g
<1>6. st + 1 \in (b + 1)..(b + n) /\ st + ln \in (b + 1)..(b + n)
  <2>1. 1 \in 1..ln /\ ln \in 1..ln /\ st + 1 \in 1..R /\ st + ln \in 1..R
    BY <1>2, <1>3
  <2> QED BY <1>3, <1>5, <2>1
<1>7. ASSUME NEW q \in (b + 1)..(b + n) PROVE q \in (st + 1)..(st + ln)
  <2>1. q \in 1..R /\ Line[q].group = g
    BY <1>5
  <2>2. PICK j \in DOMAIN segs : q \in (segs[j].start + 1)..(segs[j].start + segs[j].length)
    BY <2>1 DEF SegsOf
  <2>3. segs[j].start \in Nat /\ segs[j].length \in Nat
    <3>1. segs[j] \in Segment
      BY DEF SegsOf
    <3> QED BY <3>1 DEF Segment
  <2>4. PICK h : h = q - segs[j].start
    OBVIOUS
  <2>5. h \in 1..segs[j].length /\ segs[j].start + h = q
    BY <2>1, <2>2, <2>3, <2>4
  <2>6. segs[j].group = g
    <3>1. Line[segs[j].start + h].group = segs[j].group
      BY <2>5 DEF SegsOf
    <3> QED BY <2>1, <2>5, <3>1
  <2>7. j = i
    BY <2>6 DEF SegsOf, g
  <2> QED BY <2>2, <2>7 DEF st, ln
<1>8. b + 1 \in (st + 1)..(st + ln) /\ b + n \in (st + 1)..(st + ln)
  <2>1. b + 1 \in (b + 1)..(b + n) /\ b + n \in (b + 1)..(b + n)
    BY <1>2, <1>6
  <2> QED BY <1>7, <2>1
<1>9. st = b /\ ln = n
  BY <1>2, <1>6, <1>8
<1> QED BY <1>9 DEF st, ln

-----------------------------------------------------------------------------
(* What was packed is what is read.                                          *)

\* A result that is in a row is read from it once, its prompt ahead of it.
LEMMA ReadBack ==
  ASSUME ResultsInv, LaidInv, ParseInv
  PROVE  ResultsReadBack
<1> SUFFICES ASSUME NEW k \in DOMAIN results
             PROVE  LET r == results[k]
                        mine == {i \in DOMAIN segs : segs[i].group = <<r.prompt, k>>}
                    IN  /\ phase = "packed" =>
                             Cardinality(Holding(rows, k)) = IF r.trained THEN 1 ELSE 0
                        /\ AllRowsRead =>
                             IF Holding(input, k) = {} THEN mine = {}
                             ELSE \E i \in DOMAIN segs, j \in 1..Len(segs) :
                                    /\ mine = {i} /\ j < i /\ segs[j].family = segs[i].family
                                    /\ segs[j].child = 0
                                    /\ Content(segs[j]) \o Content(segs[i]) = r.tokens
  BY DEF ResultsReadBack
<1> DEFINE r == results[k]
           mine == {i \in DOMAIN segs : segs[i].group = OwnGroup(k)}
<1>0. /\ r.promptLength \in Nat /\ k \in Nat /\ k > 0 /\ r.tokens \in Seq(Nat)
      /\ OwnLength(k) = Len(r.tokens) - r.promptLength /\ OwnLength(k) \in Nat
      /\ Len(r.tokens) \in Nat /\ DOMAIN results = 1..Len(results)
  BY ResultFacts DEF OwnLength
<1>1. \A rs : Holding(rs, k) = {i \in DOMAIN rs : HoldsOwn(rs[i], k)}
  BY DEF Holding, HoldsOwn, OwnGroup
<1>2. ASSUME phase = "packed"
      PROVE  Cardinality(Holding(rows, k)) = IF r.trained THEN 1 ELSE 0
  <2>1. Laid(rows, Len(results))
    BY <1>2 DEF LaidInv
  <2>2. CASE r.trained
    <3>1. PICK x \in DOMAIN rows : /\ CanReadBack(rows[x], k)
                                   /\ \A y \in DOMAIN rows : HoldsOwn(rows[y], k) => y = x
      BY <1>0, <2>1, <2>2 DEF Laid
    <3>2. HoldsOwn(rows[x], k)
      <4>1. PICK s \in Nat : Block(rows[x], OwnGroup(k), s, OwnLength(k))
        BY <3>1 DEF CanReadBack, ReadsBack
      <4>2. OwnLength(k) > 0
        BY <2>2, ResultFacts
      <4>3. rows[x] \in Seq(PackedToken)
        BY <2>1 DEF Laid
      <4>4. s + 1 \in DOMAIN rows[x] /\ s + 1 \in (s + 1)..(s + OwnLength(k))
        <5>1. s + OwnLength(k) <= Len(rows[x]) /\ DOMAIN rows[x] = 1..Len(rows[x])
              /\ Len(rows[x]) \in Nat
          BY <4>1, <4>3 DEF Block
        <5> QED BY <1>0, <4>2, <5>1
      <4> QED BY <4>1, <4>4 DEF Block, HoldsOwn
    <3>3. Holding(rows, k) = {x}
      BY <1>1, <3>1, <3>2
    <3> QED BY <2>2, <3>3, FS_Singleton
  <2>3. CASE ~r.trained
    <3>1. \A x \in DOMAIN rows : ~HoldsOwn(rows[x], k)
      <4>1. Len(results) \in 0..Len(results)
        BY DEF ResultsInv
      <4>2. \A x \in DOMAIN rows : RowShape(rows[x], Len(results))
        BY <2>1 DEF Laid
      <4> QED BY <1>0, <2>3, <4>1, <4>2, OwnIsTrained
    <3>2. Holding(rows, k) = {}
      BY <1>1, <3>1
    <3> QED BY <2>3, <3>2, FS_EmptySet
  <2> QED BY <2>2, <2>3
<1>3. ASSUME AllRowsRead
      PROVE  IF Holding(input, k) = {} THEN mine = {}
             ELSE \E i \in DOMAIN segs, j \in 1..Len(segs) :
                    /\ mine = {i} /\ j < i /\ segs[j].family = segs[i].family
                    /\ segs[j].child = 0
                    /\ Content(segs[j]) \o Content(segs[i]) = r.tokens
  <2>1. phase = "parse" /\ row > Len(input)
    BY <1>3 DEF AllRowsRead
  <2>2. /\ input = <<Line>> /\ Line \in Seq(PackedToken) /\ Len(Line) \in Nat /\ Len(input) = 1
        /\ DOMAIN Line = 1..Len(Line) /\ RowShape(Line, Len(results)) /\ row \in {1, 2}
        /\ HoldsOwn(Line, k) => CanReadBack(Line, k)
        /\ SegsOf(Reached)
    BY <1>0, <2>1, LineFacts
  <2>3. SegsOf(Len(Line)) /\ segs \in Seq(Segment)
    <3>1. row = 2
      BY <2>1, <2>2
    <3>2. Reached = Len(Line)
      BY <3>1 DEF Reached
    <3> QED BY <2>2, <3>2 DEF SegsOf
  <2>4. Holding(input, k) = {} <=> ~HoldsOwn(Line, k)
    <3>1. DOMAIN input = {1} /\ input[1] = Line
      BY <2>2
    <3> QED BY <1>1, <3>1
  <2>5. \A i \in DOMAIN segs : /\ segs[i].start \in Nat /\ segs[i].length \in Nat
                               /\ segs[i].length > 0 /\ segs[i].row = 1
                               /\ segs[i].start + segs[i].length <= Len(Line)
    <3>1. \A i \in DOMAIN segs : segs[i] \in Segment
      BY <2>3
    <3> QED BY <2>3, <3>1 DEF SegsOf, Segment
  <2>6. CASE ~HoldsOwn(Line, k)
    <3>1. ASSUME NEW i \in mine PROVE FALSE
      <4>1. i \in DOMAIN segs /\ segs[i].group = OwnGroup(k)
        OBVIOUS
      <4>2. 1 \in 1..segs[i].length /\ segs[i].start + 1 \in 1..Len(Line)
        BY <2>2, <2>5, <4>1
      <4>3. Line[segs[i].start + 1].group = OwnGroup(k)
        BY <2>3, <4>1, <4>2 DEF SegsOf
      <4> QED BY <2>2, <2>6, <4>2, <4>3 DEF HoldsOwn
    <3> QED BY <2>4, <2>6, <3>1
  <2>7. CASE HoldsOwn(Line, k)
    <3> DEFINE m == r.promptLength
               n == OwnLength(k)
    <3>1. PICK a \in Nat, s \in Nat : ReadsBack(Line, k, a, s)
      BY <2>2, <2>7 DEF CanReadBack
    <3>2. /\ Block(Line, Prompt(k), a, m) /\ Block(Line, OwnGroup(k), s, n) /\ a + m <= s
          /\ \A i \in 1..m : Line[a + i].token = r.tokens[i]
          /\ \A i \in 1..n : Line[s + i].token = r.tokens[m + i]
      BY <3>1 DEF ReadsBack
    <3>3. m \in Nat /\ n \in Nat /\ Len(r.tokens) = m + n
      BY <1>0
    <3> HIDE DEF m, n
    <3>4. PICK q \in 1..Len(Line) : Line[q].group = OwnGroup(k)
      BY <2>2, <2>7 DEF HoldsOwn
    <3>5. PICK i \in DOMAIN segs : q \in (segs[i].start + 1)..(segs[i].start + segs[i].length)
      BY <2>3 DEF SegsOf
    <3>6. segs[i].group = OwnGroup(k)
      <4>1. PICK h : h = q - segs[i].start
        OBVIOUS
      <4>2. h \in 1..segs[i].length /\ segs[i].start + h = q
        BY <2>5, <3>5, <4>1
      <4>3. Line[segs[i].start + h].group = segs[i].group
        BY <2>3, <4>2 DEF SegsOf
      <4> QED BY <3>4, <4>2, <4>3
    <3>7. mine = {i}
      BY <2>3, <3>6 DEF SegsOf
    <3>8. segs[i].child > 0
      <4>1. segs[i].group[2] # 0
        BY <1>0, <3>6 DEF OwnGroup
      <4>2. segs[i].child # 0
        BY <2>3, <4>1 DEF SegsOf
      <4>3. segs[i] \in Segment
        BY <2>3
      <4> QED BY <4>2, <4>3 DEF Segment
    <3>9. PICK j \in 1..(i - 1) : /\ segs[j].family = segs[i].family /\ segs[j].child = 0
                                  /\ segs[j].group = <<segs[i].group[1], 0>>
      BY <2>3, <3>8 DEF SegsOf
    <3>10. j \in DOMAIN segs /\ j < i /\ j \in 1..Len(segs) /\ segs[j].group = Prompt(k)
      BY <2>3, <3>6, <3>9 DEF OwnGroup, Prompt
    <3>11. segs[i].start = s /\ segs[i].length = n /\ segs[j].start = a /\ segs[j].length = m
      BY <2>2, <2>3, <3>2, <3>3, <3>6, <3>10, SegmentIsBlock
    <3>12. ASSUME NEW x \in DOMAIN segs
           PROVE  Content(segs[x]) =
                    [h \in 1..segs[x].length |-> Line[segs[x].start + h].token]
      <4>1. segs[x].row = 1 /\ segs[x].start \in Nat /\ segs[x].length \in Nat
        BY <2>5
      <4>2. \A h \in 1..segs[x].length :
              segs[x].start - (segs[x].row - 1) * SeqLen + 1 + h - 1 = segs[x].start + h
        <5>1. (segs[x].row - 1) * SeqLen = 0
          BY <4>1, PackingAssumption
        <5> QED BY <4>1, <5>1
      <4> QED BY <4>1, <4>2 DEF Content, Line
    <3>13. Content(segs[j]) = [h \in 1..m |-> r.tokens[h]]
      BY <3>2, <3>10, <3>11, <3>12
    <3>14. Content(segs[i]) = [h \in 1..n |-> r.tokens[m + h]]
      BY <3>2, <3>11, <3>12
    <3>15. [h \in 1..m |-> r.tokens[h]] \o [h \in 1..n |-> r.tokens[m + h]] = r.tokens
      <4>1. r.tokens \in Seq(Nat) /\ Len(r.tokens) = m + n
        BY <1>0, <3>3
      <4>2. \A T \in Seq(Nat) : Len(T) = m + n =>
              [h \in 1..m |-> T[h]] \o [h \in 1..n |-> T[m + h]] = T
        BY <3>3, TwoParts
      <4> HIDE DEF r
      <4> QED BY <4>1, <4>2, Zenon
    <3>16. Content(segs[j]) \o Content(segs[i]) = r.tokens
      <4> HIDE DEF r
      <4> QED BY <3>13, <3>14, <3>15, Zenon
    <3> HIDE DEF mine, r
    <3>17. \E x \in DOMAIN segs, y \in 1..Len(segs) :
             /\ mine = {x} /\ y < x /\ segs[y].family = segs[x].family
             /\ segs[y].child = 0
             /\ Content(segs[y]) \o Content(segs[x]) = r.tokens
      BY <3>7, <3>9, <3>10, <3>16
    <3> QED BY <2>4, <2>7, <3>17
  <2> QED BY <2>4, <2>6, <2>7
<1> QED BY <1>2, <1>3 DEF OwnGroup

=============================================================================
