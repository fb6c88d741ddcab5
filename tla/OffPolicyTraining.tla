------------------------- MODULE OffPolicyTraining -------------------------
(***************************************************************************)
(* What PipelineTrainer promises of its training data, without workers,    *)
(* queue, batches or locks.                                                *)
(*                                                                         *)
(* Every scenario is rolled out at most once, with the policy of the       *)
(* moment.  A training step uses some of the data there is, none of it     *)
(* more than MaxOffPolicy versions old, and no datum is used twice.  Data  *)
(* may be given up at any time.                                            *)
(***************************************************************************)
EXTENDS Integers

CONSTANTS Scenarios, MaxOffPolicy

VARIABLES
  version,  \* the policy being trained
  data      \* per scenario: unused, rolled out with a version, trained on, lost

abstractVars == <<version, data>>

Unused == [at |-> "unused", version |-> 0]
RolledOut(v) == [at |-> "rolled_out", version |-> v]
Trained == [at |-> "trained", version |-> 0]
Lost == [at |-> "lost", version |-> 0]

Usable(s) ==
  /\ data[s].at = "rolled_out"
  /\ data[s].version >= version - MaxOffPolicy

AbsInit == version \in Nat /\ data = [s \in Scenarios |-> Unused]

RollOut(s) ==
  /\ data[s] = Unused
  /\ data' = [data EXCEPT ![s] = RolledOut(version)]
  /\ UNCHANGED version

\* A step on the data of `batch`; it may turn out to train nothing, and then
\* the version stays.
Train(batch) ==
  /\ batch # {}
  /\ \A s \in batch : Usable(s)
  /\ data' = [s \in Scenarios |-> IF s \in batch THEN Trained ELSE data[s]]
  /\ version' \in {version, version + 1}

GiveUp(lost) ==
  /\ \A s \in lost : data[s].at \in {"unused", "rolled_out"}
  /\ data' = [s \in Scenarios |-> IF s \in lost THEN Lost ELSE data[s]]
  /\ UNCHANGED version

AbsNext ==
  \/ \E s \in Scenarios : RollOut(s)
  \/ \E batch \in SUBSET Scenarios : Train(batch) \/ GiveUp(batch)

AbsSpec == AbsInit /\ [][AbsNext]_abstractVars

=============================================================================
