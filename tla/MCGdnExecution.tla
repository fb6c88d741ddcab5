--------------------------- MODULE MCGdnExecution ---------------------------
(* Small batches of GdnExecution for TLC. *)
EXTENDS GdnExecution

T(tokens, first, reward) ==
  [tokens |-> tokens, first |-> first, reward |-> reward, trained |-> TRUE]
Untrained(tokens, reward) ==
  [tokens |-> tokens, first |-> Len(tokens), reward |-> reward, trained |-> FALSE]

\* One prompt that ends within a chunk.
MidChunk == <<T(<<1, 2, 3, 4, 5>>, 4, 0), T(<<1, 2, 3, 4, 6>>, 4, 1)>>
\* One prompt of whole chunks, a trajectory with nothing to train on, one with
\* the mean reward.
Aligned == <<T(<<1, 2, 3, 4, 5>>, 3, 0), T(<<1, 2, 3, 5>>, 3, 1),
             Untrained(<<1, 2, 3>>, 5), T(<<2, 2, 2>>, 2, 2)>>
\* Two results that do not fit in a row.
TwoRows == <<T(<<1, 2, 3, 4, 5>>, 2, 0), T(<<1, 2, 4, 4>>, 2, 1)>>
\* One result and one that is too long, with a short and a long prompt.
Short == <<T(<<1, 2, 3>>, 2, 0), T(<<1, 2, 4, 4, 4, 4, 4, 4>>, 2, 1)>>
Long == <<T(<<2, 2, 2, 3, 4>>, 4, 0), T(<<2, 2, 2, 3, 3, 3, 3, 3>>, 4, 1)>>
\* No token in common.
NoPrompt == <<T(<<1, 3>>, 1, 0), T(<<2, 1>>, 1, 1)>>
\* No advantage.
Useless == <<T(<<2, 2, 3>>, 2, 1)>>

MCBatches == {<<MidChunk>>, <<Aligned>>, <<TwoRows>>, <<Short, Useless, Short>>, <<Short, Long>>,
              <<NoPrompt>>, <<Useless>>}

=============================================================================
