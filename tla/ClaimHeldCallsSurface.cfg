CONSTANTS
  Tasks <- SwarmTasks
  MaxAttempts = 2
  Reviewers = 2
  Budget = 4
  MaxTurns = 1
  NoResult = NoResult
SPECIFICATION Spec
INVARIANTS
  HeldCallsSurface
CHECK_DEADLOCK FALSE
