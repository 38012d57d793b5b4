------------------------- MODULE MCWorkspaceLeases -------------------------
(* Three missions, so that a third can come between two that contend. *)
EXTENDS WorkspaceLeases, TLC

Symmetry == Permutations(Run)
=============================================================================
