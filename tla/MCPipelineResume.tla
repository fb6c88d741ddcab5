-------------------------- MODULE MCPipelineResume --------------------------
(* A small instance of PipelineResume for TLC.                              *)
EXTENDS PipelineResume

CONSTANT BesideBound  \* bound: scenarios a run takes beside an outlived eval

\* An eval of an earlier run has something to store, or has stored it.
Beside == outlived # {} \/ state_json # persisted \/ misled

\* What TLC explores: one restart of the whole run, and two where what an
\* outlived eval stores is read, over fewer scenarios.
Explored == IF Beside THEN scenario_offset <= BesideBound ELSE restarts <= 1

=============================================================================
