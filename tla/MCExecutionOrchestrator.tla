---------------------- MODULE MCExecutionOrchestrator ----------------------
(* Bounds for model checking ExecutionOrchestrator.                        *)
EXTENDS ExecutionOrchestrator
=============================================================================
