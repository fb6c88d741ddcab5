------------------------- MODULE MCMegatronTraining -------------------------
(* A small instance of MegatronTraining for TLC. *)
EXTENDS MegatronTraining, MCGdnExecution

Job(batch, accumulate, traceDp) ==
  [batch |-> batch, config |-> [accumulate |-> accumulate, traceDp |-> traceDp]]

\* The jobs are shared out over the modes: what is computed does not depend on
\* the mode.  Dummies, two steps, and traces of one and of two replicas.
MCJobsOf == [
  shared    |-> {Job(<<MidChunk>>, 1, 0), Job(<<NoPrompt>>, 1, 0), Job(<<Useless>>, 1, 0)},
  dedicated |-> {Job(<<Aligned>>, 2, 2), Job(<<Short, Useless, Short>>, 1, 1)},
  merged    |-> {Job(<<TwoRows>>, 2, 2), Job(<<Short, Long>>, 1, 1), Job(<<Useless>>, 1, 0)}]
\* A run of GDN layers, and one by itself.
MCStack == <<"gdn", "gdn", "attention", "gdn">>

MCConfigs == {j.config : j \in UNION {MCJobsOf[m] : m \in DOMAIN MCJobsOf}}

=============================================================================
