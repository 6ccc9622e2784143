------------------------------- MODULE Mission -------------------------------
(***************************************************************************)
(* What a run promises, whatever its workflow looks like inside: a plan is  *)
(* adopted once; its tasks are executed one at a time, each at most once,   *)
(* each after its dependencies; a task that requires approval is executed   *)
(* only on a decision about that very task and never after the run was      *)
(* asked to stop; the run ends once, and ends "completed" only when every   *)
(* task of the plan has been executed successfully.                         *)
(***************************************************************************)
EXTENDS MissionPlan

CONSTANTS Tasks, Plans, NoPlan

VARIABLES
  plan,       \* the adopted plan
  started,    \* tasks an agent was started for
  finished,   \* started tasks whose agent succeeded
  granted,    \* tasks a human has decided to let run
  stopped,    \* the run has been asked to stop
  verdict     \* "open" until the run ends

missionVars == <<plan, started, finished, granted, stopped, verdict>>

Verdict == {"completed", "failed", "cancelled", "waiting_for_approval"}

MissionInit ==
  /\ plan = NoPlan
  /\ started = {} /\ finished = {} /\ granted = {}
  /\ stopped = FALSE
  /\ verdict = "open"

\* A plan is adopted only if it is valid; an empty one is completed at once.
Adopt ==
  /\ plan = NoPlan /\ verdict = "open"
  /\ plan' \in Plans /\ ValidPlan(plan')
  /\ verdict' = IF PlanTasks(plan') = {} THEN "completed" ELSE "open"
  /\ UNCHANGED <<started, finished, granted, stopped>>

\* A task starts when nothing else is in flight; the task before it may
\* succeed in the same step.
StartTask(t) ==
  /\ plan # NoPlan /\ verdict = "open"
  /\ t \in PlanTasks(plan) \ started
  /\ finished' = started
  /\ plan.deps[t] \subseteq finished'
  /\ t \in plan.gated => t \in granted /\ ~stopped
  /\ started' = started \cup {t}
  /\ UNCHANGED <<plan, granted, stopped, verdict>>

\* The task in flight succeeds; if it was the last one, so does the run.
FinishTask ==
  /\ plan # NoPlan /\ verdict = "open"
  /\ finished # started
  /\ finished' = started
  /\ verdict' = IF started = PlanTasks(plan) THEN "completed" ELSE "open"
  /\ UNCHANGED <<plan, started, granted, stopped>>

\* The run ends early.
End ==
  /\ verdict = "open"
  /\ verdict' \in Verdict \ {"completed"}
  /\ UNCHANGED <<plan, started, finished, granted, stopped>>

\* A human decides about tasks, or asks the run to stop; neither is possible
\* once the run has ended, and a request to stop is never withdrawn.
Decide ==
  /\ verdict = "open"
  /\ granted' \in SUBSET Tasks
  /\ stopped' \in {stopped, TRUE}
  /\ UNCHANGED <<plan, started, finished, verdict>>

MissionNext ==
  \/ Adopt
  \/ \E t \in Tasks : StartTask(t)
  \/ FinishTask
  \/ End
  \/ Decide

MissionSpec == MissionInit /\ [][MissionNext]_missionVars
=============================================================================
