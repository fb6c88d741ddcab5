------------------------- MODULE MCPipelineTrainer -------------------------
(* PipelineTrainer on small instances.                                     *)
EXTENDS PipelineRefinement, TLC

\* The workers run the same code.  Used by the runs without liveness.
WorkerSymmetry == Permutations(Workers)

=============================================================================
