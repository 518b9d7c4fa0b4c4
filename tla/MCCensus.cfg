CONSTANTS
  Domains <- MCDomains
  LimitChoices <- MCLimits
  MaxResumes = 2
SPECIFICATION Spec
INVARIANTS
  CountersDescribeRecords
  PrefixIsClassified
  WorkLedger
  CeilingsHold
  VerdictIsExact
  ProgressIsAccounted
  ChecksAreNecessary
PROPERTIES
  RefinesFirstSeen
  EngineReturns
