------------------------------ MODULE MCReports ------------------------------
(* Reports on small instances: see the .cfg files for the bounds. *)
EXTENDS Reports, TLC

Symmetry == Permutations(Reports) \cup Permutations(Procs)
==============================================================================
