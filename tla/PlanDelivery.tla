------------------------------ MODULE PlanDelivery ------------------------------
(***************************************************************************)
(* How the supervisor comes by a plan (workflows/supervisor.py, the start of *)
(* `run`): the planner (Planning) makes one and validate_plan                *)
(* (PlanValidation) judges it before anything else is done with it.  Because *)
(* any planner may be put in its place, plans that no template yields are    *)
(* delivered as well.                                                        *)
(***************************************************************************)
EXTENDS Planning, PlanValidation

\* The tasks of a plan are numbered from 1; there is a number for each node.
ASSUME DeliveryAssumption == \A template \in Templates : DOMAIN template \subseteq Tasks

deliveryVars == <<plannerVars, vars>>

\* Nothing has been delivered yet.
NoPlan == [order |-> <<>>, deps |-> [t \in Tasks |-> {}], gated |-> {}]
Awaiting == PlannerInit /\ plan = NoPlan /\ phase = "awaited"

\* Another planner has delivered a plan.
NoTemplate ==
  /\ nodes = <<>> /\ pending = {} /\ completed = {} /\ runnable = {} /\ ordered = <<>>
  /\ keyToTask = [k \in Ids |-> 0]
  /\ tasks = <<>> /\ outcome = "elsewhere"
Given == NoTemplate /\ plan \in Plans /\ phase = "ids"

DeliveryInit ==
  /\ Awaiting \/ Given
  /\ to_visit = {} /\ path = <<>> /\ visiting = {} /\ visited = {}
  /\ rest = [t \in Tasks |-> {}]

\* The supervisor awaits the activity, then validates what it returned.
Delivered == [Plan EXCEPT !.deps = [t \in Tasks |-> IF t \in DOMAIN @ THEN @[t] ELSE {}]]

Deliver ==
  /\ phase = "awaited" /\ outcome = "planned"
  /\ plan' = Delivered
  /\ phase' = "ids"
  /\ UNCHANGED <<plannerVars, to_visit, path, rest, visiting, visited>>

DeliveryNext ==
  \/ PlannerNext /\ UNCHANGED vars
  \/ Deliver
  \/ Next /\ UNCHANGED plannerVars

\* The planner is one coroutine, which awaits only the provider, and that has a
\* timeout; validate_plan awaits nothing; the server delivers what an activity
\* returns.
DeliverySpec == DeliveryInit /\ [][DeliveryNext]_deliveryVars /\ WF_deliveryVars(DeliveryNext)

-----------------------------------------------------------------------------
\* A plan is judged in the end, unless there is none: the rounds of the execution
\* order end also if the template has a cycle, and the search also if the plan has
\* (runtime/graph_templates.py:32-42, domain/plan_validation.py:16-28).
PlansAreJudged ==
  <>(phase \in Verdicts \/ outcome \in {"unresolved", "read_failed"})

\* What this planner builds, whatever the template, is never refused: the
\* supervisor fails on a plan only if another planner made it
\* (activities/planning.py:28-53, domain/plan_validation.py:6-28).
OwnPlansPass == outcome = "planned" => phase \notin Verdicts \ {"accepted"}

\* Every step of the two goes forward, so the rounds end also for a template with a
\* cycle, and the search also for a plan with one (runtime/graph_templates.py:32-42,
\* domain/plan_validation.py:16-28).
DeliveryEnds ==
  [][\/ UNCHANGED vars /\ PlannerAdvances
     \/ UNCHANGED plannerVars /\ phase = "awaited" /\ phase' = "ids"
     \/ UNCHANGED plannerVars /\ SearchAdvances]_deliveryVars

-----------------------------------------------------------------------------
\* Why these hold: up to the delivery the planner's invariant holds and the
\* search has not begun, after it the search has its own.
DeliveryInvariant ==
  /\ outcome # "elsewhere" => PlanningInvariant
  /\ phase # "awaited" => SearchInvariant
  /\ phase = "awaited" =>
       /\ outcome # "elsewhere"
       /\ to_visit = {} /\ path = <<>> /\ visiting = {} /\ visited = {}
       /\ rest = [t \in Tasks |-> {}]
  /\ phase # "awaited" /\ outcome # "elsewhere" => outcome = "planned" /\ plan = Delivered
=============================================================================
