---------------------------- MODULE PackedRows ----------------------------
(* How groups of trajectories become packed rows, and how the rows are read *)
(* back as shared-prefix segments.                                          *)
(*   src/art/preprocessing/tokenize.py  tokenize_trajectory_groups          *)
(*   src/art/preprocessing/pack.py  packed_tensors_from_tokenized_results   *)
(*   src/art/megatron/gdn/gdn_shared_prefix.py  parse_..._segments          *)
(* Prompt ids and group ids are random 63-bit numbers, taken as distinct:   *)
(* <<prompt, 0>> for a prompt's tokens, <<prompt, k>> for result k's own.   *)
EXTENDS Integers, Sequences, FiniteSets

CONSTANTS
  Batches,      \* the batches: sequences of groups, a group being a sequence
                \* of trajectories [tokens, first, reward, trained]: the token
                \* ids, the index of the first one with a logprob, and
                \* whether a token after the prompt has its assistant_mask set
  SeqLen,       \* packed_sequence_length
  PackResults   \* _supports_result_packing

\* A token to train on is a token.
Trajectory ==
  {t \in [tokens : Seq(Nat), first : Nat, reward : Int, trained : BOOLEAN] :
     t.trained => t.tokens # <<>>}

ASSUME PackingAssumption ==
  /\ SeqLen \in Nat \ {0}
  /\ PackResults \in BOOLEAN
  /\ Batches \subseteq Seq(Seq(Trajectory))

VARIABLES
  phase,        \* "tokenize", "pack", "packed", "parse", "nothing",
                \* "rejected", the phases of what is done with a row, "over"
  groups,       \* the groups still to be tokenized
  results, packed, rows,     \* the results, how many were packed, the rows
  input, row, cursor, segs   \* the parser: its rows, where it is, what it
                             \* has read

packVars == <<groups, results, packed, rows>>
parseVars == <<input, row, cursor, segs>>

\* A segment's fields: its row, its family (an index over all rows), 0 for the
\* prefix and k for the k-th completion, first token, length, group.
Segment == [row : Nat, family : Nat, child : Nat, start : Nat, length : Nat,
            group : Nat \X Nat]

PackInit ==
  /\ phase = "tokenize" /\ groups \in Batches /\ results = <<>>
  /\ packed = 0 /\ rows = << <<>> >>
  /\ input = <<>> /\ row = 1 /\ cursor = 0 /\ segs = <<>>

-----------------------------------------------------------------------------
(* tokenize_trajectory_groups. *)

\* Trajectories with the mean reward have no advantage and are dropped.
Kept(g) ==
  LET sum[i \in 0..Len(g)] == IF i = 0 THEN 0 ELSE sum[i - 1] + g[i].reward
  IN  {i \in DOMAIN g : g[i].reward * Len(g) # sum[Len(g)]}

\* The kept trajectories start with the same n tokens, none with a logprob.
SharedLength(g, n) ==
  \A i, j \in Kept(g) :
    /\ n <= Len(g[i].tokens) /\ n <= g[i].first
    /\ SubSeq(g[i].tokens, 1, n) = SubSeq(g[j].tokens, 1, n)

\* Mutant: one token more is taken for shared.
MutPromptLength(g) ==
  LET longest == CHOOSE n \in 0..Len(g[CHOOSE i \in Kept(g) : TRUE].tokens) :
                   SharedLength(g, n) /\ ~SharedLength(g, n + 1)
  IN  longest + 1

\* One token less than the kept trajectories share.
PromptLength(g) ==
  LET longest == CHOOSE n \in 0..Len(g[CHOOSE i \in Kept(g) : TRUE].tokens) :
                   SharedLength(g, n) /\ ~SharedLength(g, n + 1)
  IN  IF longest = 0 THEN 0 ELSE longest - 1

\* The next group's results, in a random order; the number of groups still to
\* come stands for the random prompt id.
TokenizeGroup ==
  /\ phase = "tokenize" /\ groups # <<>>
  /\ groups' = Tail(groups)
  /\ LET g == Head(groups)
         n == Cardinality(Kept(g))
     IN  \E order \in [1..n -> Kept(g)] :
           /\ \A i, j \in 1..n : order[i] = order[j] => i = j
           /\ results' = results \o [i \in 1..n |->
                [prompt |-> Len(groups), promptLength |-> PromptLength(g),
                 tokens |-> g[order[i]].tokens, trained |-> g[order[i]].trained]]
  /\ UNCHANGED <<phase, packed, rows, parseVars>>

\* _get_packed_tensors drops the results that no row can hold, and stops if
\* none is left.
DropTooLong ==
  LET short == {k \in DOMAIN results : Len(results[k].tokens) <= SeqLen}
      n == Cardinality(short)
  IN  /\ phase = "tokenize" /\ groups = <<>>
      /\ \E order \in [1..n -> short] :
           /\ \A i, j \in 1..n : i < j => order[i] < order[j]
           /\ results' = [i \in 1..n |-> results[order[i]]]
      /\ phase' = IF short = {} THEN "nothing" ELSE "pack"
      /\ UNCHANGED <<groups, packed, rows, parseVars>>

-----------------------------------------------------------------------------
(* packed_tensors_from_tokenized_results. *)

Mark(tokens, group, prompt) ==
  [i \in DOMAIN tokens |->
     [group |-> group, parent |-> <<prompt, 0>>, token |-> tokens[i]]]

HoldsPrompt(tokens, r) ==
  \E i \in DOMAIN tokens : tokens[i].group = <<r.prompt, 0>>

Own(r) == SubSeq(r.tokens, r.promptLength + 1, Len(r.tokens))

\* result.without_prompt() when the row has the prompt already.
TokensOf(r, k, shared) ==
  (IF shared THEN <<>>
   ELSE Mark(SubSeq(r.tokens, 1, r.promptLength), <<r.prompt, 0>>, r.prompt))
    \o Mark(Own(r), <<r.prompt, k>>, r.prompt)

\* Whether the result goes into the row, which it shares its prompt with.
Fits(tokens, r) ==
  \/ tokens = <<>>
  \/ /\ PackResults
     /\ Len(tokens) + (IF HoldsPrompt(tokens, r)
                       THEN Len(Own(r)) ELSE Len(r.tokens)) <= SeqLen

\* Mutant: the prompt is left out if an earlier row has it.
MutPackResult ==
  /\ phase = "pack" /\ packed < Len(results)
  /\ packed' = packed + 1
  /\ LET r == results[packed + 1]
         base == IF Fits(rows[Len(rows)], r) THEN rows ELSE Append(rows, <<>>)
         shared == \E i \in DOMAIN base : HoldsPrompt(base[i], r)
     IN  rows' = IF ~r.trained THEN rows
                 ELSE [base EXCEPT ![Len(base)] =
                         @ \o TokensOf(r, packed + 1, shared)]
  /\ UNCHANGED <<phase, groups, results, parseVars>>

\* One turn of the loop: results without a completion token to train on are
\* skipped, the others go into the last row or into a new one.
PackResult ==
  /\ phase = "pack" /\ packed < Len(results)
  /\ packed' = packed + 1
  /\ LET r == results[packed + 1]
         base == IF Fits(rows[Len(rows)], r) THEN rows ELSE Append(rows, <<>>)
         shared == HoldsPrompt(base[Len(base)], r)
     IN  rows' = IF ~r.trained THEN rows
                 ELSE [base EXCEPT ![Len(base)] =
                         @ \o TokensOf(r, packed + 1, shared)]
  /\ UNCHANGED <<phase, groups, results, parseVars>>

\* random.shuffle over the rows.
RowsShuffled ==
  /\ phase = "pack" /\ packed = Len(results)
  /\ phase' = "packed"
  /\ \E p \in [DOMAIN rows -> DOMAIN rows] :
       /\ \A i, j \in DOMAIN rows : p[i] = p[j] => i = j
       /\ rows' = [i \in DOMAIN rows |-> rows[p[i]]]
  /\ UNCHANGED <<groups, results, packed, parseVars>>

-----------------------------------------------------------------------------
(* parse_gdn_shared_prefix_segments. *)

\* select_indexed_inputs: the model is given one row at a time.
SelectRow(i) ==
  /\ input' = <<rows[i]>>
  /\ phase' = "parse"
  /\ UNCHANGED <<packVars, row, cursor, segs>>

\* _read_segment: the end of the run of equal group ids that starts at c + 1.
RunEnd(tokens, c) ==
  CHOOSE e \in (c + 1)..Len(tokens) :
    /\ \A i \in (c + 1)..e : tokens[i].group = tokens[c + 1].group
    /\ e < Len(tokens) => tokens[e + 1].group # tokens[c + 1].group

SeenGroup(group) ==
  \E i \in DOMAIN segs : segs[i].row = row /\ segs[i].group = group

\* Index of the last prefix read, 0 before the first.
LastFamily == IF segs = <<>> THEN 0 ELSE segs[Len(segs)].family

AtToken == phase = "parse" /\ row <= Len(input) /\ cursor < Len(input[row])

\* The segment at the cursor is read as part of `family`.
Read(family, child) ==
  LET tokens == input[row]
      e == RunEnd(tokens, cursor)
  IN  /\ segs' = Append(segs, [row |-> row, family |-> family, child |-> child,
                               start |-> (row - 1) * SeqLen + cursor,
                               length |-> e - cursor,
                               group |-> tokens[cursor + 1].group])
      /\ cursor' = e

\* A group that is its own parent opens a family.
ReadPrefix ==
  /\ AtToken
  /\ LET t == input[row][cursor + 1] IN t.group = t.parent /\ ~SeenGroup(t.group)
  /\ Read(LastFamily + 1, 0)
  /\ UNCHANGED <<phase, packVars, input, row>>

\* The group of the family being read, in this row.
ActivePrefix(group) ==
  \E i \in DOMAIN segs :
    /\ segs[i].row = row /\ segs[i].family = LastFamily /\ segs[i].child = 0
    /\ segs[i].group = group

ReadCompletion ==
  /\ AtToken
  /\ LET t == input[row][cursor + 1]
     IN  t.group # t.parent /\ ActivePrefix(t.parent) /\ ~SeenGroup(t.group)
  /\ Read(LastFamily, segs[Len(segs)].child + 1)
  /\ UNCHANGED <<phase, packVars, input, row>>

\* ValueError: a completion before or apart from its prefix, or a group that
\* comes back.
RowRejected ==
  /\ AtToken
  /\ LET t == input[row][cursor + 1]
     IN  \/ SeenGroup(t.group)
         \/ t.group # t.parent /\ ~ActivePrefix(t.parent)
  /\ phase' = "rejected"
  /\ UNCHANGED <<packVars, parseVars>>

RowRead ==
  /\ phase = "parse" /\ row <= Len(input) /\ cursor = Len(input[row])
  /\ row' = row + 1 /\ cursor' = 0
  /\ UNCHANGED <<phase, packVars, input, segs>>

AllRowsRead == phase = "parse" /\ row > Len(input)

Pack == TokenizeGroup \/ DropTooLong \/ PackResult \/ RowsShuffled
Parse == ReadPrefix \/ ReadCompletion \/ RowRejected \/ RowRead

-----------------------------------------------------------------------------
(* Properties. *)

\* What the packer makes the parser accepts, unless a group of trajectories
\* has no prompt token in common (tokenize.py sets prompt_length to 0 then):
\* the two agree on what a row looks like though they share no code.
RowsAccepted ==
  phase = "rejected" => \E k \in DOMAIN results : results[k].promptLength = 0

\* The tokens of a segment, as the row has them.
Content(s) ==
  LET first == s.start - (s.row - 1) * SeqLen + 1
  IN  [i \in 1..s.length |-> input[s.row][first + i - 1].token]

\* The rows that hold tokens of the k-th result's own.
Holding(rs, k) ==
  {i \in DOMAIN rs : \E j \in DOMAIN rs[i] :
                      rs[i][j].group = <<results[k].prompt, k>>}

\* No result is lost, repeated or cut on the way, and none is given another's
\* prompt: each result with something to train on is in one row, and when that
\* row is read it is there once, and the prefix of its family with its own
\* segment is the trajectory that was tokenized.
ResultsReadBack ==
  \A k \in DOMAIN results :
    LET r == results[k]
        mine == {i \in DOMAIN segs : segs[i].group = <<r.prompt, k>>}
    IN  /\ phase = "packed" => Cardinality(Holding(rows, k)) = IF r.trained THEN 1 ELSE 0
        /\ AllRowsRead =>
             IF Holding(input, k) = {} THEN mine = {}
             ELSE \E i \in DOMAIN segs, j \in 1..Len(segs) :
                    /\ mine = {i} /\ j < i /\ segs[j].family = segs[i].family
                    /\ segs[j].child = 0
                    /\ Content(segs[j]) \o Content(segs[i]) = r.tokens

=============================================================================
