\* Fused gate and up of experts, with tensor-parallel experts.
SPECIFICATION ShardsSpec
CHECK_DEADLOCK FALSE
CONSTANTS
  Layers = {"gate_up_proj", "down_proj"}
  Topologies <- MCFusedTopologies
  Experts = 2
  Width = 2
  Modes = {"dedicated"}
  MaxJobs = 1
  MaxStarts = 1
INVARIANTS AdapterIsTrained
