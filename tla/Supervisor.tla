------------------------------ MODULE Supervisor ------------------------------
(***************************************************************************)
(* SupervisorWorkflow (workflows/supervisor.py): the durable workflow that  *)
(* owns the lifecycle of one run.  One control state per place where the    *)
(* coroutine `run` awaits; the code between two awaits is one action, since *)
(* Temporal runs a workflow on one event loop and switches only at awaits.  *)
(* Signal and update handlers run between those steps, at any await,        *)
(* including before the coroutine has started and never after it returned.  *)
(*                                                                         *)
(*   scheduled  the workflow exists, `run` has not executed yet             *)
(*   planning   awaiting the activity plan_mission        (line 31)         *)
(*   loop       awaiting the pause condition              (line 47)         *)
(*   gate       parked for the approval of `current`      (line 74)         *)
(*   child      awaiting the child workflow of `current`  (line 102)        *)
(*   returned   `run` returned the snapshot                                 *)
(*   raised     `run` failed with an activity or child failure              *)
(*   stuck      the workflow task fails on every replay (invalid plan)      *)
(*                                                                         *)
(* A definition that stands directly before another with the same           *)
(* parameters and is not used is a mutation of it: what a plausible slip in  *)
(* that code would make of it.  The README lists which property each breaks.*)
(***************************************************************************)
EXTENDS MissionPlan, FiniteSets

CONSTANTS
  Tasks,    \* task ids: those of the plans and any other id an update may name
  Plans,    \* the plans the activity plan_mission may deliver
  NoPlan,   \* no plan has been delivered yet
  NoTask    \* no task is being processed

ASSUME PlansAssumption ==
  /\ Plans \subseteq PlanOver(Tasks)
  /\ NoPlan \notin Plans
  /\ NoTask \notin Tasks

VARIABLES
  pc,               \* where the coroutine is
  plan,             \* the validated plan
  \* instance attributes of the workflow object
  paused, cancel_requested, replan_requested,
  approvals,        \* decision recorded per task id
  \* locals of run
  pending, completed,
  runnable,         \* tasks of the current batch the for loop has not reached
  current,          \* the loop variable `task`
  artifacts_by_task,
  \* fields of the queryable snapshot
  status, task_states, blocked_reason, shown_approvals,
  \* child workflows started, and what each was given
  dispatched, approved_context, input_refs

control   == <<paused, cancel_requested, replan_requested, approvals>>
locals    == <<pending, completed, runnable, current, artifacts_by_task>>
snapshot  == <<status, task_states, blocked_reason, shown_approvals>>
children  == <<dispatched, approved_context, input_refs>>
vars == <<pc, plan, control, locals, snapshot, children>>

-----------------------------------------------------------------------------
RunStatus == {"none", "planning", "running", "waiting_for_approval",
              "completed", "failed", "cancelled"}
TaskState == {"absent", "pending", "running", "completed", "failed"}

\* approvals[task_id] is absent, an approver, or text starting with
\* "rejected:"; nothing else about the text matters.
Decision == {"none", "approved", "rejected"}

\* The texts of blocked_reason the properties tell apart.
Reason == {"none", "operator pause", "operator cancel", "cancel requested",
           "awaiting approval", "rejected", "operator replan",
           "replan requested", "unresolved dependencies", "task result"}

Open == {"scheduled", "planning", "loop", "gate", "child"}
Closed == {"returned", "raised"}

NoArtifacts == [t \in Tasks |-> {}]
NoDecisions == [t \in Tasks |-> "none"]

Init ==
  /\ pc = "scheduled" /\ plan = NoPlan
  /\ paused = FALSE /\ cancel_requested = FALSE /\ replan_requested = FALSE
  /\ approvals = NoDecisions
  /\ pending = {} /\ completed = {} /\ runnable = {} /\ current = NoTask
  /\ artifacts_by_task = NoArtifacts
  /\ status = "none" /\ blocked_reason = "none"
  /\ task_states = [t \in Tasks |-> "absent"]
  /\ shown_approvals = NoDecisions
  /\ dispatched = {} /\ approved_context = {} /\ input_refs = NoArtifacts

-----------------------------------------------------------------------------
(* The coroutine `run`. *)

Start ==
  /\ pc = "scheduled"
  /\ pc' = "planning"
  /\ status' = "planning"
  /\ UNCHANGED <<plan, control, locals, children,
                 task_states, blocked_reason, shown_approvals>>

Complete ==
  /\ pc' = "returned"
  /\ status' = "completed"
  /\ shown_approvals' = approvals

\* The activity delivers p; a plan validate_plan refuses raises inside the
\* workflow, which fails the workflow task and not the run.
PlanDelivered(p) ==
  /\ pc = "planning"
  /\ IF ValidPlan(p)
     THEN /\ plan' = p
          /\ pending' = PlanTasks(p)
          /\ IF PlanTasks(p) = {}
             THEN Complete
             ELSE /\ pc' = "loop"
                  /\ status' = "running"
                  /\ UNCHANGED shown_approvals
     ELSE /\ pc' = "stuck"
          /\ UNCHANGED <<plan, pending, status, shown_approvals>>
  /\ UNCHANGED <<control, completed, runnable, current, artifacts_by_task,
                 task_states, blocked_reason, children>>

\* plan_mission failed on its last attempt.
PlanningFails ==
  /\ pc = "planning"
  /\ pc' = "raised"
  /\ UNCHANGED <<plan, control, locals, snapshot, children>>

Return(st, reason) ==
  /\ pc' = "returned"
  /\ status' = st
  /\ blocked_reason' = reason

\* The input references of t: what its direct dependencies produced.
DependencyArtifacts(t, artifacts) == UNION {artifacts[d] : d \in plan.deps[t]}

\* What the batch loop makes of a child's result.
FailureIgnored(r) == FALSE
Failed(r) == r.state # "completed"
StateKeptOnFailure(r) ==
  IF Failed(r) THEN task_states ELSE [task_states EXCEPT ![current] = r.state]
StatesAfter(r) == [task_states EXCEPT ![current] = r.state]
NothingPopped(t) == pending
PendingAfter(t) == pending \ {t}

\* The body of the for loop up to its next await, for the task t with `rest`
\* still to come; states and artifacts are those left by the task before.
BeginTask(t, rest, states, artifacts) ==
  /\ current' = t
  /\ runnable' = rest
  /\ IF t \in plan.gated
     THEN /\ pc' = "gate"
          /\ status' = "waiting_for_approval"
          /\ blocked_reason' = "awaiting approval"
          /\ task_states' = [states EXCEPT ![t] = "pending"]
          /\ UNCHANGED children
     ELSE /\ pc' = "child"
          /\ task_states' = [states EXCEPT ![t] = "running"]
          /\ dispatched' = dispatched \cup {t}
          /\ input_refs' = [input_refs EXCEPT ![t] = DependencyArtifacts(t, artifacts)]
          /\ UNCHANGED <<status, blocked_reason, approved_context>>

AnyDependencyCompleted ==
  {t \in pending : plan.deps[t] = {} \/ plan.deps[t] \cap completed # {}}
RunnableTasks == {t \in pending : plan.deps[t] \subseteq completed}

ReleasedByResumeOnly == ~paused
LoopReleased == ~paused \/ cancel_requested

ReplanIgnored ==
  IF cancel_requested THEN "cancel"
  ELSE IF RunnableTasks = {} THEN "unresolved"
  ELSE "batch"
LoopVerdict ==
  IF cancel_requested THEN "cancel"
  ELSE IF replan_requested THEN "replan"
  ELSE IF RunnableTasks = {} THEN "unresolved"
  ELSE "batch"

\* The status and reason the loop head returns with, per verdict.
LoopExit ==
  [cancel     |-> [status |-> "cancelled", reason |-> "cancel requested"],
   replan     |-> [status |-> "waiting_for_approval", reason |-> "replan requested"],
   unresolved |-> [status |-> "failed", reason |-> "unresolved dependencies"]]

LoopReturns ==
  /\ LoopVerdict # "batch"
  /\ Return(LoopExit[LoopVerdict].status, LoopExit[LoopVerdict].reason)
  /\ UNCHANGED <<locals, task_states, children>>

StartBatch ==
  /\ LoopVerdict = "batch"
  /\ LET t == FirstOf(plan, RunnableTasks) IN
       BeginTask(t, RunnableTasks \ {t}, task_states, artifacts_by_task)
  /\ UNCHANGED <<pending, completed, artifacts_by_task>>

\* The head of the while loop, once its wait condition holds.
LoopHead ==
  /\ pc = "loop"
  /\ LoopReleased
  /\ LoopReturns \/ StartBatch
  /\ UNCHANGED <<plan, control, shown_approvals>>

ReleasedByAnyDecision == (\E t \in Tasks : approvals[t] # "none") \/ cancel_requested
ReleasedByApproverOnly == approvals[current] = "approved" \/ cancel_requested
GateReleased == approvals[current] # "none" \/ cancel_requested

DecisionBeforeCancel ==
  IF approvals[current] = "approved" THEN "approve"
  ELSE IF cancel_requested THEN "cancel"
  ELSE "reject"
GateVerdict ==
  IF cancel_requested THEN "cancel"
  ELSE IF approvals[current] = "rejected" THEN "reject"
  ELSE "approve"

GateReturns ==
  /\ GateVerdict # "approve"
  /\ Return("cancelled", IF GateVerdict = "cancel" THEN "cancel requested" ELSE "rejected")
  /\ UNCHANGED <<task_states, children>>

DispatchApproved ==
  /\ GateVerdict = "approve"
  /\ pc' = "child"
  /\ status' = "running"
  /\ blocked_reason' = "none"
  /\ task_states' = [task_states EXCEPT ![current] = "running"]
  /\ dispatched' = dispatched \cup {current}
  /\ approved_context' = approved_context \cup {current}
  /\ input_refs' = [input_refs EXCEPT ![current] =
                      DependencyArtifacts(current, artifacts_by_task)]

\* The task parked at the gate goes on once it has a decision or the run is
\* cancelled.
ApprovalGate ==
  /\ pc = "gate"
  /\ GateReleased
  /\ GateReturns \/ DispatchApproved
  /\ UNCHANGED <<plan, control, locals, shown_approvals>>

ChildReturns(r) ==
  LET states    == StatesAfter(r)
      artifacts == [artifacts_by_task EXCEPT ![current] =
                      IF r.artifact_refs THEN {current} ELSE {}]
      left      == PendingAfter(current)
  IN
  /\ pc = "child"
  /\ artifacts_by_task' = artifacts
  /\ IF r.requires_approval THEN
       /\ Return("waiting_for_approval", "task result")
       /\ task_states' = states
       /\ UNCHANGED <<pending, completed, runnable, current, children, shown_approvals>>
     ELSE IF Failed(r) THEN
       /\ Return("failed", "task result")
       /\ task_states' = states
       /\ UNCHANGED <<pending, completed, runnable, current, children, shown_approvals>>
     ELSE
       /\ completed' = completed \cup {current}
       /\ pending' = left
       /\ IF runnable # {} THEN
            LET t == FirstOf(plan, runnable) IN
            /\ BeginTask(t, runnable \ {t}, states, artifacts)
            /\ UNCHANGED shown_approvals
          ELSE
            /\ current' = NoTask
            /\ task_states' = states
            /\ UNCHANGED <<runnable, blocked_reason, children>>
            /\ IF left = {} THEN Complete
               ELSE pc' = "loop" /\ UNCHANGED <<status, shown_approvals>>
  /\ UNCHANGED <<plan, control>>

\* The child workflow failed: its activity ran out of attempts.
ChildFails ==
  /\ pc = "child"
  /\ pc' = "raised"
  /\ UNCHANGED <<plan, control, locals, snapshot, children>>

-----------------------------------------------------------------------------
(* Signal and update handlers.  The snapshot is None before Start. *)

HasSnapshot == pc # "scheduled"

Show(st, reason) ==
  IF HasSnapshot THEN status' = st /\ blocked_reason' = reason
                 ELSE UNCHANGED <<status, blocked_reason>>

ShowApprovals ==
  shown_approvals' = IF HasSnapshot THEN approvals' ELSE shown_approvals

Pause ==
  /\ pc \in Open
  /\ paused' = TRUE
  /\ Show("waiting_for_approval", "operator pause")
  /\ UNCHANGED <<pc, plan, cancel_requested, replan_requested, approvals, locals,
                 task_states, shown_approvals, children>>

Resume ==
  /\ pc \in Open
  /\ paused' = FALSE
  /\ IF status = "waiting_for_approval"
     THEN Show("running", "none")
     ELSE UNCHANGED <<status, blocked_reason>>
  /\ UNCHANGED <<pc, plan, cancel_requested, replan_requested, approvals, locals,
                 task_states, shown_approvals, children>>

Cancel ==
  /\ pc \in Open
  /\ cancel_requested' = TRUE
  /\ Show(status, "operator cancel")
  /\ UNCHANGED <<pc, plan, paused, replan_requested, approvals, locals,
                 task_states, shown_approvals, children>>

\* The approver is any non-empty text; one that starts with "rejected:" reads
\* as a rejection at the gate without cancelling the run.
ApproveTask(t, d) ==
  /\ pc \in Open
  /\ approvals' = [approvals EXCEPT ![t] = d]
  /\ ShowApprovals
  /\ UNCHANGED <<pc, plan, paused, cancel_requested, replan_requested, locals,
                 status, blocked_reason, task_states, children>>

RejectTask(t) ==
  /\ pc \in Open
  /\ approvals' = [approvals EXCEPT ![t] = "rejected"]
  /\ cancel_requested' = TRUE
  /\ ShowApprovals
  /\ Show("cancelled", "rejected")
  /\ UNCHANGED <<pc, plan, paused, replan_requested, locals, task_states, children>>

RequestReplan ==
  /\ pc \in Open
  /\ replan_requested' = TRUE
  /\ Show("waiting_for_approval", "operator replan")
  /\ UNCHANGED <<pc, plan, paused, cancel_requested, approvals, locals,
                 task_states, shown_approvals, children>>

-----------------------------------------------------------------------------
Workflow ==
  \/ Start
  \/ \E p \in Plans : PlanDelivered(p)
  \/ PlanningFails
  \/ LoopHead
  \/ ApprovalGate
  \/ \E r \in Result : ChildReturns(r)
  \/ ChildFails

Operator ==
  \/ Pause \/ Resume \/ Cancel \/ RequestReplan
  \/ \E t \in Tasks : \/ \E d \in {"approved", "rejected"} : ApproveTask(t, d)
                      \/ RejectTask(t)

Next == Workflow \/ Operator

Spec == Init /\ [][Next]_vars

\* Temporal delivers every activity and child result and runs the coroutine
\* whenever what it awaits is there; operators may stay silent for ever.
FairSpec == Spec /\ WF_vars(Workflow)
=============================================================================
