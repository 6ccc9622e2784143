CONSTANTS
  t1 = t1
  t2 = t2
  t3 = t3
  Tasks <- MCTasks
  Plans <- OneTaskPlan
  NoPlan = NoPlan
  NoTask = NoTask
SPECIFICATION Spec
INVARIANTS
  CancelledRunsDoNotComplete
CHECK_DEADLOCK FALSE
