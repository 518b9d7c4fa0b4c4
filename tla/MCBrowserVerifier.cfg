SPECIFICATION PageSpec
CONSTANTS
  Files = {"atlas", "census"}
  Texts = {"cut", "nonsense"}
  VerdictOf <- MCVerdictOf
  MaxRuns = 4
  MaxReads = 2
INVARIANTS
  VerdictIsOfItsSource
  OneReplayAtATime
  TableIsOfTheResult
PROPERTIES
  ResultsFollowTheirRun
  EveryRunEnds
