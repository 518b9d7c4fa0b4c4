SPECIFICATION Spec
CONSTANTS
  Size = 6
  DerivedClass <- MCDerivedClass
  MemberKey <- MCMemberKey
  Cartan <- MCCartan
  Winding <- MCWinding
  Limits <- MCLimits
  Dimensions <- MCDimensions
  Graph <- MCGraph
INVARIANTS
  VerdictsAreSound
  ResultVerifies
  OpenPairsWereWalked
PROPERTIES
  ClassesOnlyMerge
CHECK_DEADLOCK FALSE
