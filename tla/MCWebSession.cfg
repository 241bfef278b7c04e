SPECIFICATION Spec
CONSTANTS
  Requests = {r1, r2}
  MaxTokens = 4
  MaxOutages = 1
INVARIANTS SignedInStays LogoutStays ExecutedOnce
