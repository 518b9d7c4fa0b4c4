SPECIFICATION Spec
CONSTANTS
  Summands <- MCSummands
  Shape <- MCShape
  Complexes <- MCComplexes
  Regular <- Regular2
  Tilting <- MCTilting
  Terms <- MCTerms
  Entries <- MCEntries
  Start <- MCStart
  Mutation <- MCMutation
  Limits <- MCLimits
INVARIANTS
  GraphIsExact
  ReturnedGraphVerifies
  ExhaustedIsReachable
  EveryAttemptOnce
CHECK_DEADLOCK FALSE
