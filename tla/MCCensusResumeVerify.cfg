CONSTANTS
  Domains <- MCDomains
  LimitChoices <- GrowingLimits
  MaxResumes = 1
SPECIFICATION Spec
INVARIANT ResumedOutcomeVerifies
