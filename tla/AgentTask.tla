------------------------------- MODULE AgentTask -------------------------------
(***************************************************************************)
(* One task of a mission: AgentTaskWorkflow (workflows/agent_task.py) runs   *)
(* the activity run_agent, Temporal retries it, and each attempt is an agent *)
(* in a worker: a model that asks for tools through the policy gate until it *)
(* produces its section.  An attempt that the server has given up (its       *)
(* start-to-close timeout has passed) may still be running in its worker,    *)
(* next to the attempt that replaced it: run_agent sends no heartbeats, so   *)
(* nothing has to tell it.                                                   *)
(*                                                                         *)
(* Three kinds of agents run here:                                          *)
(*   casefile  CasefileAgent: one model run, held calls are reported         *)
(*   swarm     security_reviewer with use_swarm: Reviewers model runs and a  *)
(*             judge in one attempt, under a budget of model calls           *)
(*   analyst   data_analyst: one model run under a tool context of its own   *)
(*                                                                         *)
(* As in Supervisor, an unused definition directly before another with the  *)
(* same parameters is a mutation of it.                                     *)
(***************************************************************************)
EXTENDS MissionPlan

CONSTANTS
  Tasks,        \* the tasks to consider
  MaxAttempts,  \* no task allows more attempts
  Reviewers,    \* reviewers of the swarm
  Budget,       \* adjudication_swarm_max_model_calls
  MaxTurns,     \* bound: model calls of a run before the one that ends it
  NoResult      \* the workflow has not returned

TaskRecord ==
  [kind : {"casefile", "swarm", "analyst"},
   approved : BOOLEAN,       \* constraints["approved"], set by the supervisor
   high_risk : BOOLEAN,      \* risk_level HIGH or CRITICAL
   casefile : BOOLEAN,       \* a casefile can be resolved from the invocation
   max_attempts : 1 .. MaxAttempts]

ASSUME AgentTaskAssumption ==
  /\ Tasks \subseteq TaskRecord
  /\ MaxAttempts \in Nat /\ Reviewers \in Nat /\ Budget \in Nat /\ MaxTurns \in Nat

VARIABLES
  task,
  attempt,    \* the attempt the server is waiting for
  activity,   \* what the server knows of it, or how the workflow ended
  result,     \* what the workflow returned
  agent       \* the agent of each attempt, in its worker

vars == <<task, attempt, activity, result, agent>>

Attempts == 1 .. MaxAttempts

\* Tools by what the policy tells apart: those the agent lists, of which some
\* are write tools, and everything else.  Harness tools (skills, structured
\* output) bypass the gate and have no effect.
Tool == {"read", "write", "unlisted"}

Absent == [at |-> "absent", run |-> 0, calls |-> 0, turns |-> 0,
           asked |-> {}, used |-> {}, held |-> {}, outcome |-> "none"]

AgentRecord ==
  [at : {"absent", "running", "finished", "gone"},
   run : Nat,              \* the model run it is in
   calls : Nat,            \* model calls of the runs before
   turns : Nat,            \* model calls of this run
   asked : SUBSET Tool,    \* tools the model asked for
   used : SUBSET Tool,     \* those that were executed
   held : SUBSET Tool,     \* those held back for approval
   outcome : {"none", "completed", "failed", "error"}]

Init ==
  /\ task \in Tasks
  /\ attempt = 1 /\ activity = "queued" /\ result = NoResult
  /\ agent = [n \in Attempts |-> Absent]

-----------------------------------------------------------------------------
(* The policy gate. *)

Listed(tool) == tool = "read" \/ (tool = "write" /\ task.kind = "casefile")

\* The tool context; the analyst builds one of its own, with the defaults.
Approved == task.kind # "analyst" /\ task.approved
HighRisk == task.kind # "analyst" /\ task.high_risk

WritesUngated(tool) == HighRisk
NeedsApproval(tool) == tool = "write" \/ HighRisk

Allowed(tool) == Listed(tool) /\ (NeedsApproval(tool) => Approved)
Held(tool) == Listed(tool) /\ NeedsApproval(tool) /\ ~Approved

Executed(asked) == {tool \in asked : Allowed(tool)}
HeldBack(asked) == {tool \in asked : Held(tool)}

-----------------------------------------------------------------------------
(* An attempt in its worker. *)

Runs == IF task.kind = "swarm" THEN Reviewers + 1 ELSE 1

Finish(a, outcome) == [a EXCEPT !.at = "finished", !.outcome = outcome]

\* Before each reviewer and before the judge the swarm looks at its budget.
JudgeUnchecked(a) == task.kind = "swarm" /\ a.run < Runs /\ a.calls >= Budget
BudgetExceeded(a) == task.kind = "swarm" /\ a.calls >= Budget

BeginRun(a) == IF BudgetExceeded(a) THEN Finish(a, "error") ELSE a

\* A worker takes the attempt up.  Without a casefile there is nothing to do.
Pickup ==
  /\ activity = "queued"
  /\ activity' = "started"
  /\ agent' = [agent EXCEPT ![attempt] =
       LET a == [Absent EXCEPT !.at = "running", !.run = 1] IN
       IF task.kind # "analyst" /\ ~task.casefile THEN Finish(a, "failed") ELSE BeginRun(a)]
  /\ UNCHANGED <<task, attempt, result>>

\* The calls held back so far, when the model has asked for more tools.
HeldLast(a, asked) == HeldBack(asked)
HeldSoFar(a, asked) == a.held \cup HeldBack(asked)

\* A model call that asks for tools; the gate lets them run or cancels them.
Asks(a, asked) ==
  [a EXCEPT !.turns = @ + 1,
            !.asked = @ \cup asked,
            !.used = @ \cup Executed(asked),
            !.held = HeldSoFar(a, asked)]

ModelCall(n, asked) ==
  /\ agent[n].at = "running"
  /\ agent[n].turns < MaxTurns
  /\ agent' = [agent EXCEPT ![n] = Asks(agent[n], asked)]
  /\ UNCHANGED <<task, attempt, activity, result>>

\* The model call that ends a run, with or without the section asked for.  A
\* reviewer without a position is passed over, the analyst falls back to an
\* empty report.
EndRun(n, section) ==
  LET a == [agent[n] EXCEPT !.calls = @ + agent[n].turns + 1, !.turns = 0] IN
  /\ agent[n].at = "running"
  /\ agent' = [agent EXCEPT ![n] =
       IF a.run < Runs THEN BeginRun([a EXCEPT !.run = @ + 1])
       ELSE Finish(a, IF section \/ task.kind = "analyst" THEN "completed" ELSE "failed")]
  /\ UNCHANGED <<task, attempt, activity, result>>

\* The model or a tool raises: no error of the repository's own is of a type
\* the retry policy excludes.
RunFails(n) ==
  /\ agent[n].at = "running"
  /\ agent' = [agent EXCEPT ![n] = Finish(@, "error")]
  /\ UNCHANGED <<task, attempt, activity, result>>

\* The worker crashes, or cancels an attempt it knows to have timed out.
Vanish(n) ==
  /\ agent[n].at \in {"running", "finished"}
  /\ agent' = [agent EXCEPT ![n].at = "gone"]
  /\ UNCHANGED <<task, attempt, activity, result>>

-----------------------------------------------------------------------------
(* The server's side. *)

AttemptLimit == task.max_attempts

AttemptFailed ==
  /\ IF attempt < AttemptLimit
     THEN activity' = "queued" /\ attempt' = attempt + 1
     ELSE activity' = "raised" /\ UNCHANGED attempt
  /\ UNCHANGED result

AgentResult(a) ==
  [state |-> a.outcome,
   requires_approval |-> task.kind = "casefile" /\ a.outcome = "completed" /\ a.held # {},
   artifact_refs |-> a.outcome = "completed"]

\* An attempt reports; the server accepts only the one it waits for.
Report(n) ==
  /\ agent[n].at = "finished"
  /\ agent' = [agent EXCEPT ![n].at = "gone"]
  /\ IF n = attempt /\ activity = "started"
     THEN IF agent[n].outcome = "error" THEN AttemptFailed
          ELSE /\ activity' = "returned"
               /\ result' = AgentResult(agent[n])
               /\ UNCHANGED attempt
     ELSE UNCHANGED <<attempt, activity, result>>
  /\ UNCHANGED task

\* The start-to-close timeout of the attempt passes.
NeverExpires == FALSE
Expires == activity = "started"

Timeout ==
  /\ Expires
  /\ AttemptFailed
  /\ UNCHANGED <<task, agent>>

-----------------------------------------------------------------------------
Agent(n) ==
  \/ \E asked \in SUBSET Tool : ModelCall(n, asked)
  \/ \E section \in BOOLEAN : EndRun(n, section)
  \/ RunFails(n)
  \/ Vanish(n)
  \/ Report(n)

Next == Pickup \/ Timeout \/ \E n \in Attempts : Agent(n)

Spec == Init /\ [][Next]_vars

\* Workers poll the task queue and timers fire; an agent may hang for ever.
FairSpec == Spec /\ WF_vars(Pickup) /\ WF_vars(Timeout)

-----------------------------------------------------------------------------
\* Every variable keeps its type; in particular the workflow returns a result
\* of the kind the supervisor is modelled with.
TypeOK ==
  /\ task \in Tasks
  /\ attempt \in Attempts
  /\ activity \in {"queued", "started", "returned", "raised"}
  /\ result \in Result \cup {NoResult}
  /\ agent \in [Attempts -> AgentRecord]

\* No attempt, current or given up, ever executes a write tool of a task that
\* was not approved, nor any tool of a high-risk casefile or swarm task that was
\* not (tools/policy.py:56-73, agents/casefile_agent.py:73-86).
NothingUnapproved ==
  \A n \in Attempts :
    ~task.approved =>
      /\ "write" \notin agent[n].used
      /\ task.high_risk /\ task.kind # "analyst" => agent[n].used = {}

\* A casefile agent that returns its section without asking for approval was
\* allowed every listed tool it called, over all turns of the returned attempt
\* (agents/casefile_agent.py:148).
SilenceMeansExecuted ==
  activity = "returned" /\ task.kind = "casefile" /\ result.state = "completed"
    /\ ~result.requires_approval
  => {t \in agent[attempt].asked : Listed(t)} \subseteq agent[attempt].used

\* A swarm that has used up its budget asks nobody any more, and it gives no decision
\* without those whom it could not ask: an attempt ends in an answer only after every
\* reviewer and the judge, each begun while there was budget left
\* (agents/swarm_cell.py:79-107, agents/security_reviewer/main.py:135-159).
ExhaustedSwarmStops ==
  task.kind = "swarm" =>
    \A n \in Attempts :
      /\ agent[n].at = "running" => agent[n].calls < Budget
      /\ agent[n].outcome \in {"completed", "failed"} /\ task.casefile => agent[n].run = Runs

\* The budget is not the hard one that the docstring of the cell and ADR-0009 promise
\* ("if a step would exceed it"): it is compared before a run, of calls not yet made, so
\* a swarm may answer after more calls than that, by one run at most
\* (agents/swarm_cell.py:68-70, 80 and 107).
OvershootIsOneRun ==
  task.kind = "swarm" =>
    \A n \in Attempts : agent[n].calls + agent[n].turns =< Budget + MaxTurns

\* Whatever agents and workers do, the task ends (workflows/agent_task.py:26).
TaskEnds == <>(activity \in {"returned", "raised"})

\* What has been decided stays: an attempt that was given up, or one that answers
\* twice, changes neither the attempt that is awaited nor what has been returned; and
\* the server only goes on, from an attempt to the next that the task allows
\* (workflows/agent_task.py:23-29).
Progress == [queued |-> 0, started |-> 1, returned |-> 2, raised |-> 2]
ServerGoesForward ==
  [][\/ UNCHANGED <<task, attempt, activity, result>>
     \/ /\ task' = task /\ activity \in {"queued", "started"} /\ result = NoResult
        /\ \/ attempt' = attempt /\ Progress[activity'] > Progress[activity]
           \/ attempt' = attempt + 1 /\ attempt' =< task.max_attempts /\ activity' = "queued"
        /\ activity' # "returned" => result' = NoResult]_vars

-----------------------------------------------------------------------------
(* Why these hold: an invariant that every step preserves. *)

\* What an attempt has used and what was held back is what the gate makes of
\* what its model asked for; and a swarm keeps to its budget.
AgentShape(a) ==
  /\ a.used = Executed(a.asked) /\ a.held = HeldBack(a.asked)
  /\ a.at = "running" => a.outcome = "none" /\ a.run =< Runs
  /\ a.at = "finished" => a.outcome # "none"
  /\ a.turns =< MaxTurns
  /\ task.kind = "swarm" =>
       /\ a.calls + a.turns =< Budget + MaxTurns
       /\ a.at = "running" => a.calls < Budget
       /\ a.outcome \in {"completed", "failed"} /\ task.casefile => a.run = Runs

\* The server gives up exactly when the attempts the task allows are used up,
\* and never makes more (workflows/agent_task.py:27).
AttemptsHonoured ==
  /\ attempt =< task.max_attempts
  /\ activity = "raised" => attempt = task.max_attempts

\* Once the workflow has returned, the attempt it got its result from is over.
ResultShape ==
  activity = "returned" =>
    /\ agent[attempt].at = "gone" /\ agent[attempt].outcome \in {"completed", "failed"}
    /\ result = AgentResult(agent[attempt])

\* A workflow that has not returned has no result.
NoResultYet == activity # "returned" => result = NoResult

TaskInvariant ==
  /\ TypeOK
  /\ \A n \in Attempts : AgentShape(agent[n])
  /\ ResultShape
  /\ AttemptsHonoured
=============================================================================
