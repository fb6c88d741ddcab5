\* Two jobs of a worker that may crash between any two file operations and come
\* back with another topology.  The experts' layers are not fused: see
\* fused_shards for those under tensor-parallel experts.
SPECIFICATION ShardsSpec
CHECK_DEADLOCK FALSE
CONSTANTS
  Layers = {"o_proj", "q_proj", "in_proj_qkv", "gate_proj", "down_proj"}
  Topologies <- MCTopologies
  Experts = 4
  Width = 2
  Modes = {"shared", "dedicated"}
  MaxJobs = 2
  MaxStarts = 2
INVARIANTS GradientsWhole AdapterIsTrained OnlyLeftoversInTheWay
