CONSTANTS
  Tasks <- AllTasks
  MaxAttempts = 2
  Reviewers = 2
  Budget = 4
  MaxTurns = 2
  NoResult = NoResult
SPECIFICATION FairSpec
INVARIANTS
  NothingUnapproved
  SilenceMeansExecuted
  ExhaustedSwarmStops
PROPERTIES
  TaskEnds
CHECK_DEADLOCK FALSE
