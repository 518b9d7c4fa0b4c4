SPECIFICATION Spec
CONSTANTS
  Algebras <- MCAlgebras
  Limits <- MCLimits
INVARIANT TruncatedIsNotClosed
CHECK_DEADLOCK FALSE
