----------------------------- MODULE MCDocuments -----------------------------
(* Documents on a small instance: see the .cfg file for the bounds. *)
EXTENDS Documents, TLC

Symmetry == Permutations(ProjectIds) \cup Permutations(EntryIds) \cup Permutations(DocIds)
               \cup Permutations(Keys) \cup Permutations(Tabs) \cup Permutations(Removers)
==============================================================================
