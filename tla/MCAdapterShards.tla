-------------------------- MODULE MCAdapterShards --------------------------
(* AdapterShards on small instances. *)
EXTENDS AdapterShards

Topology(tp, replicas, etp, ep) ==
  [tp |-> tp, replicas |-> replicas, etp |-> etp, ep |-> ep]

\* One to four GPUs; the default topology of two (provider.py), and those of
\* the oracle harness (tests/integration/megatron/model_support).
MCTopologies ==
  {Topology(1, 1, 1, 1), Topology(2, 1, 1, 2), Topology(2, 1, 2, 1),
   Topology(1, 2, 1, 2), Topology(1, 2, 2, 1), Topology(2, 2, 1, 2),
   Topology(2, 2, 2, 2)}

\* For the fused experts: none, and tensor-parallel experts.
MCFusedTopologies == {Topology(1, 1, 1, 1), Topology(2, 1, 2, 1)}

=============================================================================
