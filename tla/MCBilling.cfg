\* Two users with two checkouts and two webhooks at a time; two payments or changes in all.
CONSTANTS
  Users = {u1, u2}
  Customers = {c1, c2}
  Subs = {s1, s2}
  Requests = {r1, r2}
  Hooks = {h1, h2}
  NoOne = NoOne
  MaxChanges = 2
SPECIFICATION Spec
SYMMETRY Symmetry
INVARIANTS PlanMatchesRow PlanFollowsStripe OnlyPayersArePremium PayersKnown
