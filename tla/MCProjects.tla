----------------------------- MODULE MCProjects ------------------------------
(* Projects on a small instance: see the .cfg files for the bounds. *)
EXTENDS Projects, TLC

(* Without Users, some of whom subscribe. *)
Symmetry == Permutations(ProjectIds) \cup Permutations(MemberIds)
                   \cup Permutations(Requests)
==============================================================================
