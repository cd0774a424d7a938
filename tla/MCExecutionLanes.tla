-------------------------- MODULE MCExecutionLanes --------------------------
(***************************************************************************)
(* Model-checking instance of ExecutionLanes.                              *)
(***************************************************************************)
EXTENDS ExecutionLanes

=============================================================================
