CONSTANTS
  older = older
  newer = newer
  Runners = {older, newer}
  Release <- MCRelease
SPECIFICATION Spec
INVARIANTS
  LedgerIsTruthful
  AppliedInOrder
  AppliedAgainOnlyTogether
  ReturnedMeansApplied
CHECK_DEADLOCK FALSE
