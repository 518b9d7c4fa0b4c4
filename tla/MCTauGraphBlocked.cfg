SPECIFICATION Spec
CONSTANTS
  Algebras <- MCAlgebras
  Limits <- MCLimits
INVARIANT BlockedIsNoError
CHECK_DEADLOCK FALSE
