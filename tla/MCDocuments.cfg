\* Two projects, one diary entry, two files; every upload and removal may fail anywhere.
CONSTANTS
  ProjectIds = {p1, p2}
  EntryIds = {e1}
  DocIds = {d1, d2}
  Keys = {k1, k2}
  Tabs = {t1, t2}
  Removers = {r1, r2}
  MaxFiles = 2
  NoOne = NoOne
SPECIFICATION Spec
SYMMETRY Symmetry
CHECK_DEADLOCK FALSE
INVARIANTS RowsHaveObjects PhotosStayInside OrphansExplained SuccessMeansStored
