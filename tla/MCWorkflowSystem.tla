-------------------------- MODULE MCWorkflowSystem --------------------------
(* Instances of WorkflowSystem for TLC. *)
EXTENDS WorkflowSystem
CONSTANT r1
=============================================================================
