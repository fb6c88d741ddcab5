------------------------- MODULE MCPipelineAdapters -------------------------
(* PipelineAdapters on small instances.                                    *)
EXTENDS PipelineAdapters, TLC

\* The workers run the same code.
WorkerSymmetry == Permutations(Workers)

=============================================================================
