SPECIFICATION Spec
CONSTANTS
  GIB <- MCGib
  Unknown = Unknown
  Requests <- MCRequests
  NotYet = NotYet
  Rejected = Rejected
INVARIANTS
  MaxConcurrencyIsLargestFit
  NeverOptimistic
  RoundingIsTight
  SummaryAgrees
