-------------------------- MODULE MCWorkflowQueue --------------------------
(* Instances of WorkflowQueue for TLC; see the .cfg files. *)
EXTENDS WorkflowQueue

CONSTANT c1

(* All tasks are for one commit. *)
MCCommitOf == [t \in Task |-> c1]

=============================================================================
