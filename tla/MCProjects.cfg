\* Two users, one of whom may subscribe, two requests, two projects, three member rows ever.
CONSTANTS
  Users = {u1, u2}
  ProjectIds = {p1, p2}
  MemberIds = {m1, m2, m3}
  Requests = {r1, r2}
  FreeLimit = 1
  Subscribers = {u1}
  NoOne = NoOne
SPECIFICATION Spec
SYMMETRY Symmetry
INVARIANTS TypeOK OwnershipIntact OwnerCheckNeverStale OnlyEditorsRemoved OvershootBounded
PROPERTIES StrangersSee404 OnlyMembersEdit ImplementsTeams
