\* One user with two projects, two rows ever, two requests in flight.
CONSTANTS
  Users = {u1}
  ProjectIds = {p1, p2}
  NoOne = NoOne
  RowIds = {x1, x2}
  ItemKinds = {"expense"}
  Amounts = {1}
  Ops = {"create", "update", "remove", "summary"}
  Requests = {r1, r2}
  Undefined = Undefined
  GuessIds = FALSE
SPECIFICATION Spec
SYMMETRY Symmetry
INVARIANTS ReferencesIntact WritesStayInside SummaryAddsUp
PROPERTIES SpendingKept
