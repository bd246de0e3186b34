---- MODULE MCInterrupted ----
(* The workspace with the closes of the session monitors interrupted. *)
EXTENDS Workspace

Spec == WorkspaceInit /\ [][InterruptedNext]_workspaceVars
====
