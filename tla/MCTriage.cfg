CONSTANTS
  None = None
  Missions <- MCMissions
  Decisions <- MCDecisions
  MaxAttempts = 2
SPECIFICATION Spec
INVARIANTS
  SectionsComeFromUpstream
  ChainsLoseNothing
  ReadyIsEarned
  StaleReflectsTheRead
  TwoSignalsAreNoFalsePositive
  EligibleIsHarmless
  SubmissionsAreReal
CHECK_DEADLOCK FALSE
