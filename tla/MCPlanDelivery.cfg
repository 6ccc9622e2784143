CONSTANTS
  Ids <- MCIds
  Templates <- MCTemplates
  Tasks <- MCTasks
  Plans <- MCPlans
SPECIFICATION DeliverySpec
INVARIANTS
  AcceptedPlansAreValid
  RefusalsAreReal
  PlansAreValid
  PlanMatchesTemplate
  RefusedIffUnresolvable
PROPERTY PlansAreJudged
CHECK_DEADLOCK FALSE
