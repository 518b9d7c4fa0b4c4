SPECIFICATION Spec
CONSTANTS
  Algebras <- MCAlgebras
  Limits <- MCLimits
INVARIANTS
  ClosedIsComplete
  NoDefect
  DiagnosticsAreTrue
  IndicesAreStable
CHECK_DEADLOCK FALSE
