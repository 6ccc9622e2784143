CONSTANTS
  t1 = t1
  t2 = t2
  t3 = t3
  Tasks <- MCTasks
  Plans <- AllPlans
  NoPlan = NoPlan
  NoTask = NoTask
SPECIFICATION FairSpec
INVARIANTS
  GatedTasksAreApproved
  DependenciesHandedOver
  NeverUnresolved
  OneTaskInFlight
  CompletedMeansAllDone
PROPERTIES
  EachTaskDispatchedOnce
  HeldRunStartsNoBatch
  NoGatedDispatchAfterCancel
  ImplementsMission
  CancelEndsRun
  OnlyHumansHoldTheRun
CHECK_DEADLOCK FALSE
