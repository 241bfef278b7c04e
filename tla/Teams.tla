-------------------------------- MODULE Teams --------------------------------
(***************************************************************************)
(* What the project and member endpoints promise, with every operation     *)
(* atomic: a project is founded by one user, who owns it until it is       *)
(* dissolved; editors are admitted and expelled one at a time; the id of a *)
(* dissolved project is never used again.                                  *)
(***************************************************************************)
CONSTANTS Users, ProjectIds, NoOne

ASSUME TeamsAssumption == NoOne \notin Users

VARIABLES owner,     \* the owner of each project, NoOne when there is none
          editors,   \* the editors of each project
          founded    \* ids of every project ever founded

teamVars == <<owner, editors, founded>>

TeamInit == /\ owner = [p \in ProjectIds |-> NoOne]
            /\ editors = [p \in ProjectIds |-> {}]
            /\ founded = {}

Found(p, u) == /\ p \notin founded
               /\ owner' = [owner EXCEPT ![p] = u]
               /\ founded' = founded \cup {p}
               /\ UNCHANGED editors

Dissolve(p) == /\ owner[p] # NoOne
               /\ owner' = [owner EXCEPT ![p] = NoOne]
               /\ editors' = [editors EXCEPT ![p] = {}]
               /\ UNCHANGED founded

Admit(p, u) == /\ owner[p] \notin {NoOne, u}
               /\ u \notin editors[p]
               /\ editors' = [editors EXCEPT ![p] = @ \cup {u}]
               /\ UNCHANGED <<owner, founded>>

Expel(p, u) == /\ u \in editors[p]
               /\ editors' = [editors EXCEPT ![p] = @ \ {u}]
               /\ UNCHANGED <<owner, founded>>

TeamNext == \E p \in ProjectIds :
               \/ Dissolve(p)
               \/ \E u \in Users : Found(p, u) \/ Admit(p, u) \/ Expel(p, u)

TeamSpec == TeamInit /\ [][TeamNext]_teamVars
==============================================================================
