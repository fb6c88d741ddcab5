-------------------------- MODULE MCLocalTraining --------------------------
(* A small instance of LocalTraining for TLC: the jobs of MCMegatronTraining. *)
EXTENDS LocalTraining, MCMegatronTraining

=============================================================================
