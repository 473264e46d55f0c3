SPECIFICATION Spec
CONSTANTS
  b1 = b1
  b2 = b2
  p1 = p1
  p2 = p2
  Browsers = {b1}
  NoBrowser = NoBrowser
  Slots = {p1, p2}
  AlwaysRequired = FALSE
  CodeCount = 1
  GrantTTL = 1
  PendingTTL = 1
  Skew <- MCLate
  MaxNow = 3
  MaxSecrets = 2
  MaxCodeSets = 2
  MaxNonces = 2
  MaxVersion = 2
  MaxRequests = 3
INVARIANTS FactorUsedOnce NoStaleVerification ReplacementNeedsProof
SYMMETRY Symmetry
CHECK_DEADLOCK FALSE
