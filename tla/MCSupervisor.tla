---------------------------- MODULE MCSupervisor ----------------------------
(***************************************************************************)
(* Small plans for model checking Supervisor, and what a test of the         *)
(* repository says of a cancel.                                             *)
(***************************************************************************)
EXTENDS SupervisorProperties, TLC

CONSTANTS t1, t2, t3

MCTasks == {t1, t2, t3}

Deps(d1, d2, d3) == (t1 :> d1) @@ (t2 :> d2) @@ (t3 :> d3)

PlanOf(order, deps, gated) == [order |-> order, deps |-> deps, gated |-> gated]

\* The shape of the triage template: a chain whose last task is gated.
Chain == PlanOf(<<t1, t2, t3>>, Deps({}, {t1}, {t2}), {t3})
\* One batch of two tasks, the second gated, then a join.
Join == PlanOf(<<t2, t1, t3>>, Deps({}, {}, {t1, t2}), {t1})
\* Two gated tasks in the second batch.
Fork == PlanOf(<<t3, t1, t2>>, Deps({t3}, {t3}, {}), {t1, t2})
\* The plan lists a task before one it depends on.
Skewed == PlanOf(<<t1, t3, t2>>, Deps({}, {t1}, {t1, t2}), {t2})
\* Fewer tasks than ids: an update may name a task the plan does not have.
Single == PlanOf(<<t1>>, Deps({}, {}, {}), {})
Empty == PlanOf(<<>>, Deps({}, {}, {}), {})
\* Plans validate_plan refuses.
Cyclic == PlanOf(<<t1, t2, t3>>, Deps({}, {t1, t3}, {t2}), {})
Unknown == PlanOf(<<t1, t2>>, Deps({}, {t3}, {}), {})
Duplicate == PlanOf(<<t1, t1>>, Deps({}, {}, {}), {})

AllPlans == {Chain, Join, Fork, Skewed, Single, Empty, Cyclic, Unknown, Duplicate}
OneTaskPlan == {Single}

\* "A cancel signal drives the run to RunStatus.CANCELLED": the docstring of
\* test_cancel_signal (tests/workflow/test_supervisor_workflow.py:254), of a run of one
\* task that is cancelled while the task runs.  The loop looks at the flag at its head
\* only, and after the last task it is not entered again (supervisor.py, lines 46-49 and 121).
CancelledRunsDoNotComplete ==
  pc = "returned" /\ cancel_requested => status # "completed"
=============================================================================
