------------------------ MODULE SupervisorProperties ------------------------
(***************************************************************************)
(* What must hold of SupervisorWorkflow however operators interleave their  *)
(* signals and updates with the run.                                        *)
(***************************************************************************)
EXTENDS Supervisor

\* Every variable of the workflow stays within the values the code gives it.
TypeOK ==
  /\ pc \in Open \cup Closed \cup {"stuck"}
  /\ plan \in Plans \cup {NoPlan}
  /\ paused \in BOOLEAN /\ cancel_requested \in BOOLEAN /\ replan_requested \in BOOLEAN
  /\ approvals \in [Tasks -> Decision]
  /\ pending \subseteq Tasks /\ completed \subseteq Tasks /\ runnable \subseteq Tasks
  /\ current \in Tasks \cup {NoTask}
  /\ artifacts_by_task \in [Tasks -> SUBSET Tasks]
  /\ status \in RunStatus /\ blocked_reason \in Reason
  /\ task_states \in [Tasks -> TaskState]
  /\ shown_approvals \in [Tasks -> Decision]
  /\ dispatched \subseteq Tasks /\ approved_context \subseteq Tasks
  /\ input_refs \in [Tasks -> SUBSET Tasks]

\* A task whose constraints require approval runs only after a decision about
\* that task was recorded, and exactly the tasks that passed the gate carry the
\* approved context that opens the write tools (supervisor.py, lines 66-99).
GatedTasksAreApproved ==
  /\ \A t \in dispatched :
       t \in plan.gated <=> t \in approved_context
  /\ \A t \in approved_context : t \in dispatched /\ approvals[t] # "none"

\* An agent is started only when every dependency has completed, and it is
\* handed everything they produced, also when several tasks became runnable
\* together (supervisor.py, lines 56-60 and 92-97).
DependenciesHandedOver ==
  \A t \in dispatched :
    /\ plan.deps[t] \subseteq completed
    /\ input_refs[t] = UNION {artifacts_by_task[d] : d \in plan.deps[t]}

\* A validated plan never runs out of runnable tasks: the failure of line 62
\* cannot be reached.
NeverUnresolved == blocked_reason # "unresolved dependencies"

\* At most one task is in flight, it is the loop's current one, and the
\* snapshot of a run that returned shows no task as running.
OneTaskInFlight ==
  /\ \A t \in Tasks : task_states[t] = "running" => t = current /\ pc \in {"child", "raised"}
  /\ \A t \in dispatched \ completed : t = current

\* A run reported as completed has executed every task of its plan to success,
\* has none left over, and shows every decision an operator recorded.
CompletedMeansAllDone ==
  status = "completed" =>
    /\ pc = "returned"
    /\ pending = {} /\ completed = PlanTasks(plan) /\ dispatched = completed
    /\ \A t \in PlanTasks(plan) : task_states[t] = "completed"
    /\ shown_approvals = approvals

-----------------------------------------------------------------------------
(* Why these hold: an invariant that every step preserves. *)

InBatch == pc \in {"gate", "child"}

\* Before a plan is adopted nothing has happened; afterwards its tasks are
\* divided into those pending and those completed.
PlanShape ==
  /\ plan = NoPlan =>
       pending = {} /\ completed = {} /\ dispatched = {} /\ approved_context = {}
  /\ plan # NoPlan =>
       /\ ValidPlan(plan)
       /\ pending \cup completed = PlanTasks(plan)
       /\ pending \cap completed = {}
  /\ pc \in {"scheduled", "planning"} => plan = NoPlan
  /\ pc = "loop" \/ InBatch => plan # NoPlan

\* What the coroutine has in hand at each await of the two loops.
LoopShape ==
  /\ completed \subseteq dispatched
  /\ dispatched \subseteq completed \cup {current}
  /\ pc = "loop" => pending # {} /\ dispatched = completed
  /\ InBatch =>
       /\ current \in pending \ runnable
       /\ runnable \subseteq pending
       /\ \A t \in runnable \cup {current} : plan.deps[t] \subseteq completed
  /\ pc = "gate" => current \in plan.gated /\ current \notin dispatched
  /\ pc = "child" => current \in dispatched

\* What task_states shows of completed and of running tasks.
StateShape ==
  /\ \A t \in completed : task_states[t] = "completed"
  /\ \A t \in Tasks : task_states[t] = "running" => t = current /\ pc \in {"child", "raised"}

\* The type invariant, the shapes above and the properties they support form
\* an inductive invariant of the workflow.
InductiveInvariant ==
  /\ TypeOK /\ PlanShape /\ LoopShape /\ StateShape
  /\ GatedTasksAreApproved /\ DependenciesHandedOver
  /\ NeverUnresolved /\ CompletedMeansAllDone

-----------------------------------------------------------------------------
\* A child workflow is started for the task t in this step.
Dispatches(t) == pc' = "child" /\ current' = t /\ (pc # "child" \/ current # t)

\* The id agent-task:{run}:{task} is used once: no task is given to an agent
\* twice, over all batches of the run.
EachTaskDispatchedOnce == [][\A t \in Tasks : Dispatches(t) => t \notin dispatched]_vars

\* Once an operator paused the run, asked for a replan or cancelled it, the run
\* starts nothing but what is left of the batch in progress.
HeldRunStartsNoBatch ==
  [][(paused \/ cancel_requested \/ replan_requested) =>
       dispatched' \ dispatched \subseteq runnable \cup {current}]_vars

\* After a cancel or a reject, no task that requires approval is ever started,
\* not even when its approval is already there or arrives later.
NoGatedDispatchAfterCancel ==
  [][cancel_requested =>
       \A t \in dispatched' \ dispatched : t \notin plan.gated]_vars

\* Every step of the coroutine goes forward: it completes a task of the plan, or comes
\* nearer to the dispatch of the current one, or ends; and no signal or update takes it
\* back or moves it on.  A run has a bounded number of them, then, whatever operators
\* do (supervisor.py, lines 46-123 and 129-186).
Await == [scheduled |-> 0, planning |-> 1, loop |-> 2, gate |-> 3, child |-> 4,
          returned |-> 5, raised |-> 5, stuck |-> 5]
CoroutineAdvances ==
  \/ completed \subseteq completed' /\ completed' # completed /\ completed' \subseteq PlanTasks(plan)
  \/ completed' = completed /\ Await[pc'] > Await[pc]
RunGoesForward ==
  [][/\ Workflow => CoroutineAdvances
     /\ Operator => UNCHANGED <<pc, plan, locals, children>>]_vars

Granted == {t \in Tasks : approvals[t] = "approved"}
VerdictOfRun ==
  IF pc = "returned" THEN status ELSE IF pc = "raised" THEN "failed" ELSE "open"

\* The supervisor implements the promise of a run.
MissionOfRun == INSTANCE Mission WITH
  started  <- dispatched,
  finished <- completed,
  granted  <- Granted,
  stopped  <- cancel_requested,
  verdict  <- VerdictOfRun

\* Every behaviour of the workflow is one the abstract mission allows.
ImplementsMission == MissionOfRun!MissionSpec

-----------------------------------------------------------------------------
\* The run waits for a human and for nothing else.
HeldByHuman ==
  \/ pc = "loop" /\ ~LoopReleased
  \/ pc = "gate" /\ approvals[current] = "none" /\ ~cancel_requested

\* A cancelled run whose plan was adopted closes, also one that is paused or parked at
\* a gate (supervisor.py, lines 47 and 74-79).  Of a run whose plan is refused this is
\* not true: validate_plan raises inside the workflow (line 38), and the workflow task is
\* retried for ever, cancelled or not.
CancelEndsRun == (cancel_requested /\ plan # NoPlan) ~> pc \in Closed

\* Only a human can hold a run whose plan was adopted: if it is not held from some
\* point on, it closes.
OnlyHumansHoldTheRun == <>[]~HeldByHuman /\ <>(plan # NoPlan) => <>(pc \in Closed)
=============================================================================
