-------------------------------- MODULE MCAuth -------------------------------
(* Auth on a small instance: see the .cfg file for the bounds. *)
EXTENDS Auth, TLC

Symmetry == Permutations(Requests)
==============================================================================
