------------------------- MODULE PipelineRefinement -------------------------
(* PipelineTrainer implements OffPolicyTraining.                           *)
EXTENDS PipelineTrainer

\* The versions scenario s was rolled out with, wherever its group is now: a
\* singleton between the start of the rollout and the end of its group.
RolloutVersions(s) ==
  {worker[w].version : w \in {v \in Workers : worker[v].pc \in {"rollout", "put"}
                                              /\ worker[v].scenario = s}}
  \cup {output_queue[i].version : i \in Queued(s)}
  \cup {batch[i].version : i \in InBatchAt(s)}

DataOf(s) ==
  CASE fate[s] = "trained" -> [at |-> "trained", version |-> 0]
    [] fate[s] \notin {"none", "trained"} -> [at |-> "lost", version |-> 0]
    [] fate[s] = "none" /\ RolloutVersions(s) = {} ->
         [at |-> "unused", version |-> 0]
    [] OTHER -> [at |-> "rolled_out",
                 version |-> CHOOSE v \in RolloutVersions(s) : TRUE]

Abstract == INSTANCE OffPolicyTraining
              WITH version <- policy_version,
                   data <- [s \in Scenarios |-> DataOf(s)]

(* Every step of the trainer is a step, or no step at all, of a trainer that *)
(* trains each rollout at most once and none beyond the off-policy limit:    *)
(* rollouts keep the version they started with through workers, queue and    *)
(* batch (_apply_policy_versions, _put_output_group, _collect_batch), and    *)
(* the policy a batch is measured against is the one that is trained.        *)
ImplementsOffPolicyTraining == Abstract!AbsSpec

=============================================================================
