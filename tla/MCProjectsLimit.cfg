\* One user who may subscribe and unsubscribe; three projects; two requests.
CONSTANTS
  Users = {u1}
  ProjectIds = {p1, p2, p3}
  MemberIds = {m1, m2, m3}
  Requests = {r1, r2}
  FreeLimit = 1
  Subscribers = {u1}
  NoOne = NoOne
SPECIFICATION Spec
SYMMETRY Symmetry
INVARIANTS FreePlanLimit
