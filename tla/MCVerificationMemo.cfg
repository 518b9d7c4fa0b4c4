SPECIFICATION Spec
CONSTANTS
  Threads = {t1, t2}
  Addresses = {"p", "q"}
  Contents = {"x", "y", "zero"}
  Stored <- MCStored
  Zero = {"zero"}
  Algebras = {"A", "B"}
  AlgebraOf <- MCAlgebraOf
  Failing <- MCFailing
  Operations = {"opposite", "endo", "hom_dim", "tau", "decompose"}
  MaxRequests = 3
INVARIANTS
  EntriesAreCertified
  ComputedOnce
PROPERTIES
  EveryRequestReturns
CHECK_DEADLOCK FALSE
