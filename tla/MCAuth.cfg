CONSTANTS
  Requests = {r1, r2}
  BackupCodes = 2
  MaxDraws = 6
SPECIFICATION Spec
SYMMETRY Symmetry
INVARIANTS SignInsProven UsedOnce FactorUsable SessionLasts
