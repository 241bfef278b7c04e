---------------------------- MODULE MCReminders -----------------------------
(* Reminders with the symmetry of its tasks and workers. *)
EXTENDS Reminders, TLC

Symmetry == Permutations(Tasks) \cup Permutations(Workers)
==============================================================================
