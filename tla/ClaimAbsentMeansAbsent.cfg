CONSTANTS
  None = None
  Missions <- MCMissions
  Decisions <- MCDecisions
  MaxAttempts = 2
SPECIFICATION Spec
INVARIANT AbsentMeansAbsent
CHECK_DEADLOCK FALSE
