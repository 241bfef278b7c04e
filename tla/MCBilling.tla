----------------------------- MODULE MCBilling ------------------------------
(* Billing with the symmetry of its users, ids and requests. *)
EXTENDS Billing, TLC

Symmetry == Permutations(Users) \cup Permutations(Customers)
            \cup Permutations(Subs) \cup Permutations(Requests) \cup Permutations(Hooks)
==============================================================================
