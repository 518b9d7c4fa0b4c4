CONSTANTS
  Domains <- MCDomains
  LimitChoices <- MCLimits
  MaxResumes = 1
SPECIFICATION Spec
INVARIANT NoCeilingBelowCommittedWork
