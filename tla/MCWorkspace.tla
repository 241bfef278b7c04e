----------------------------- MODULE MCWorkspace -----------------------------
(* Workspace on small instances: see the .cfg files for the bounds. *)
EXTENDS Workspace, TLC

Symmetry == Permutations(Users) \cup Permutations(ProjectIds)
               \cup Permutations(RowIds) \cup Permutations(Requests)
==============================================================================
