SPECIFICATION Spec
CONSTANT Jobs <- MCJobs
INVARIANTS
  CertificateHolds
  LeadsAreDistinct
  TracesEndInZero
  ReductionTouchesTails
CHECK_DEADLOCK FALSE
