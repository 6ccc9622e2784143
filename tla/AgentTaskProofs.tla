---------------------------- MODULE AgentTaskProofs ----------------------------
(***************************************************************************)
(* The safety of a task, for every set of tasks, every number of attempts,   *)
(* reviewers and model calls, and every budget.                             *)
(***************************************************************************)
EXTENDS AgentTask, TLAPS

\* What is known of the parameters and of the task.
LEMMA TaskParts ==
  ASSUME TypeOK
  PROVE  /\ task \in TaskRecord /\ task.max_attempts \in Attempts
         /\ Runs \in Nat \ {0} /\ Attempts \subseteq Nat
         /\ MaxAttempts \in Nat /\ Budget \in Nat /\ MaxTurns \in Nat
BY AgentTaskAssumption DEF TypeOK, TaskRecord, Runs, Attempts

\* The task does not change, so a record that fits it goes on fitting it.
LEMMA ShapeIsStable ==
  ASSUME NEW b, task' = task, AgentShape(b)
  PROVE  AgentShape(b)'
BY DEF AgentShape, Executed, HeldBack, Allowed, Held, Listed, NeedsApproval, Approved, HighRisk, Runs

\* The gate decides call by call.
LEMMA GateSplits ==
  ASSUME NEW A \in SUBSET Tool, NEW B \in SUBSET Tool
  PROVE  /\ Executed(A) \in SUBSET Tool /\ HeldBack(A) \in SUBSET Tool
         /\ Executed(A \cup B) = Executed(A) \cup Executed(B)
         /\ HeldBack(A \cup B) = HeldBack(A) \cup HeldBack(B)
BY DEF Executed, HeldBack

LEMMA GateIdle == Executed({}) = {} /\ HeldBack({}) = {}
BY DEF Executed, HeldBack

\* A step that replaces one agent by one that fits the task keeps all agents
\* fitting it.
LEMMA ReplaceAgent ==
  ASSUME TypeOK, \A n \in Attempts : AgentShape(agent[n]), task' = task,
         NEW m \in Attempts, NEW b \in AgentRecord, AgentShape(b),
         agent' = [agent EXCEPT ![m] = b]
  PROVE  /\ agent' \in [Attempts -> AgentRecord]
         /\ (\A n \in Attempts : AgentShape(agent[n]))'
         /\ agent'[m] = b /\ \A n \in Attempts : n # m => agent'[n] = agent[n]
<1>1. /\ agent' \in [Attempts -> AgentRecord]
      /\ agent'[m] = b /\ \A n \in Attempts : n # m => agent'[n] = agent[n]
  BY DEF TypeOK
<1>2. ASSUME NEW n \in Attempts PROVE AgentShape(agent[n])'
  <2>1. PICK c : c = agent'[n] /\ AgentShape(c)
    BY <1>1
  <2>2. AgentShape(c)'
    BY <2>1, ShapeIsStable
  <2> QED BY <2>1, <2>2 DEF AgentShape
<1>3. Attempts' = Attempts
  BY DEF Attempts
<1> QED BY <1>1, <1>2, <1>3

\* When the server does not act on the step, the result goes on being that of
\* the attempt that returned it, which no step of an agent can then touch.
LEMMA AgentStep ==
  ASSUME TaskInvariant, NEW m \in Attempts, NEW b \in AgentRecord, AgentShape(b),
         agent' = [agent EXCEPT ![m] = b], agent[m].at # "gone",
         UNCHANGED <<task, attempt, activity, result>>
  PROVE  TaskInvariant'
<1>1. /\ agent' \in [Attempts -> AgentRecord]
      /\ (\A n \in Attempts : AgentShape(agent[n]))'
      /\ \A n \in Attempts : n # m => agent'[n] = agent[n]
  BY ReplaceAgent DEF TaskInvariant
<1>2. TypeOK'
  BY <1>1 DEF TaskInvariant, TypeOK, Attempts
<1>3. ResultShape'
  BY <1>1 DEF TaskInvariant, TypeOK, ResultShape, AgentResult
<1>4. AttemptsHonoured'
  BY DEF TaskInvariant, AttemptsHonoured
<1> QED BY <1>1, <1>2, <1>3, <1>4 DEF TaskInvariant

-----------------------------------------------------------------------------
(* The initial states, and the attempts. *)

LEMMA InitInvariant == Init => TaskInvariant
<1> SUFFICES ASSUME Init PROVE TaskInvariant
  OBVIOUS
<1>1. task \in TaskRecord /\ 1 \in Attempts /\ 1 =< task.max_attempts
  BY AgentTaskAssumption DEF Init, TaskRecord, Attempts
<1>2. TypeOK
  BY <1>1 DEF Init, TypeOK, Absent, AgentRecord, Tool
<1>3. AgentShape(Absent)
  BY <1>2, TaskParts, GateIdle DEF AgentShape, Absent
<1> QED BY <1>1, <1>2, <1>3 DEF TaskInvariant, Init, ResultShape, AttemptsHonoured

LEMMA PickupPreserves ==
  ASSUME TaskInvariant, Pickup PROVE TaskInvariant'
<1>1. TypeOK /\ attempt \in Attempts
  BY DEF TaskInvariant, TypeOK
<1> DEFINE a == [Absent EXCEPT !.at = "running", !.run = 1]
           b == IF task.kind # "analyst" /\ ~task.casefile
                THEN Finish(a, "failed") ELSE BeginRun(a)
<1>2. /\ a \in AgentRecord /\ a.at = "running" /\ a.outcome = "none" /\ a.run = 1
      /\ a.calls = 0 /\ a.turns = 0 /\ a.asked = {} /\ a.used = {} /\ a.held = {}
  BY DEF AgentRecord, Absent
<1> HIDE DEF a
<1>3. b \in AgentRecord
  BY <1>2 DEF AgentRecord, BeginRun, Finish
<1>4. /\ b.at \in {"running", "finished"} /\ b.run = 1 /\ b.turns = 0 /\ b.calls = 0
      /\ b.asked = {} /\ b.used = {} /\ b.held = {}
      /\ b.at = "running" => b.outcome = "none" /\ (task.kind = "swarm" => 0 < Budget)
      /\ b.at = "finished" => b.outcome \in {"failed", "error"}
      /\ b.outcome = "failed" => ~task.casefile
      /\ b.outcome # "completed"
  BY <1>1, <1>2, TaskParts DEF AgentRecord, BeginRun, Finish, BudgetExceeded
<1>5. agent' = [agent EXCEPT ![attempt] = b]
  BY DEF Pickup, a
<1> HIDE DEF b
<1>6. AgentShape(b)
  BY <1>1, <1>4, TaskParts, GateIdle DEF AgentShape
<1>7. /\ agent' \in [Attempts -> AgentRecord]
      /\ (\A n \in Attempts : AgentShape(agent[n]))'
  BY <1>1, <1>3, <1>5, <1>6, ReplaceAgent DEF TaskInvariant, Pickup
<1> QED BY <1>1, <1>7 DEF TaskInvariant, TypeOK, ResultShape, AttemptsHonoured, Pickup, Attempts

LEMMA ModelCallPreserves ==
  ASSUME TaskInvariant, NEW n \in Attempts, NEW asked \in SUBSET Tool, ModelCall(n, asked)
  PROVE  TaskInvariant'
<1>1. TypeOK /\ agent[n] \in AgentRecord /\ AgentShape(agent[n])
  BY DEF TaskInvariant, TypeOK
<1>2. PICK b : b = Asks(agent[n], asked) /\ agent' = [agent EXCEPT ![n] = b]
  BY DEF ModelCall
<1>3. agent[n].at = "running" /\ agent[n].turns < MaxTurns
  BY DEF ModelCall
<1>4. /\ agent[n].asked \in SUBSET Tool /\ agent[n].asked \cup asked \in SUBSET Tool
      /\ agent[n].used \cup Executed(asked) \in SUBSET Tool
      /\ agent[n].held \cup HeldBack(asked) \in SUBSET Tool
      /\ agent[n].turns + 1 \in Nat
  <2>1. /\ agent[n].asked \in SUBSET Tool /\ agent[n].used \in SUBSET Tool
        /\ agent[n].held \in SUBSET Tool /\ agent[n].turns \in Nat
    BY <1>1 DEF AgentRecord
  <2>2. Executed(asked) \in SUBSET Tool /\ HeldBack(asked) \in SUBSET Tool
    BY DEF Executed, HeldBack
  <2> QED BY <2>1, <2>2
<1>5. /\ b.at = "running" /\ b.run = agent[n].run /\ b.calls = agent[n].calls
      /\ b.turns = agent[n].turns + 1 /\ b.asked = agent[n].asked \cup asked
      /\ b.used = agent[n].used \cup Executed(asked)
      /\ b.held = agent[n].held \cup HeldBack(asked) /\ b.outcome = agent[n].outcome
  BY <1>1, <1>2, <1>3 DEF AgentRecord, Asks, HeldSoFar
<1>6. b \in AgentRecord
  BY <1>1, <1>2, <1>4 DEF AgentRecord, Asks, HeldSoFar
<1>7. AgentShape(b)
  BY <1>1, <1>3, <1>4, <1>5, TaskParts, GateSplits DEF AgentShape, AgentRecord
<1> QED BY <1>2, <1>3, <1>6, <1>7, AgentStep DEF ModelCall

LEMMA EndRunPreserves ==
  ASSUME TaskInvariant, NEW n \in Attempts, NEW section \in BOOLEAN, EndRun(n, section)
  PROVE  TaskInvariant'
<1>1. TypeOK /\ agent[n] \in AgentRecord /\ AgentShape(agent[n])
  BY DEF TaskInvariant, TypeOK
<1>2. PICK a : /\ a = [agent[n] EXCEPT !.calls = @ + agent[n].turns + 1, !.turns = 0]
               /\ agent' = [agent EXCEPT ![n] =
                    IF a.run < Runs THEN BeginRun([a EXCEPT !.run = @ + 1])
                    ELSE Finish(a, IF section \/ task.kind = "analyst"
                                   THEN "completed" ELSE "failed")]
  BY DEF EndRun
<1>3. agent[n].at = "running"
  BY DEF EndRun
<1>4. a \in AgentRecord
  <2>1. agent[n].calls + agent[n].turns + 1 \in Nat
    BY <1>1 DEF AgentRecord
  <2> QED BY <1>1, <1>2, <2>1 DEF AgentRecord
<1>5. /\ a.used = Executed(a.asked) /\ a.held = HeldBack(a.asked)
      /\ a.run =< Runs /\ a.turns = 0 /\ a.at = "running" /\ a.outcome = "none"
      /\ task.kind = "swarm" => a.calls =< Budget + MaxTurns
  BY <1>1, <1>2, <1>3, TaskParts DEF AgentShape, AgentRecord
<1>6. CASE a.run < Runs
  <2>1. PICK c : c = [a EXCEPT !.run = @ + 1]
    OBVIOUS
  <2>2. /\ c.used = Executed(c.asked) /\ c.held = HeldBack(c.asked)
        /\ c.run = a.run + 1 /\ c.turns = 0 /\ c.at = "running" /\ c.outcome = "none"
        /\ c.calls = a.calls
    BY <1>4, <1>5, <2>1 DEF AgentRecord
  <2>3. c \in AgentRecord
    <3>1. a.run + 1 \in Nat
      BY <1>4 DEF AgentRecord
    <3> QED BY <1>4, <2>1, <3>1 DEF AgentRecord
  <2>4. c.run =< Runs /\ (task.kind = "swarm" => c.calls =< Budget + MaxTurns)
    BY <1>1, <1>4, <1>5, <1>6, <2>2, TaskParts DEF AgentRecord
  <2>5. BeginRun(c) \in AgentRecord
    BY <2>3 DEF AgentRecord, BeginRun, Finish
  <2>6. AgentShape(BeginRun(c))
    BY <1>1, <2>2, <2>3, <2>4, TaskParts DEF AgentShape, AgentRecord, BeginRun, BudgetExceeded, Finish
  <2> QED BY <1>2, <1>3, <1>6, <2>1, <2>5, <2>6, AgentStep DEF EndRun
<1>7. CASE ~ (a.run < Runs)
  <2>1. PICK out \in {"completed", "failed"} :
          out = IF section \/ task.kind = "analyst" THEN "completed" ELSE "failed"
    OBVIOUS
  <2>2. Finish(a, out) \in AgentRecord
    BY <1>4, <2>1 DEF AgentRecord, Finish
  <2>3. AgentShape(Finish(a, out))
    BY <1>1, <1>4, <1>5, <1>7, <2>1, TaskParts DEF AgentShape, AgentRecord, Finish
  <2> QED BY <1>2, <1>3, <1>7, <2>1, <2>2, <2>3, AgentStep DEF EndRun
<1> QED BY <1>6, <1>7

LEMMA RunFailsPreserves ==
  ASSUME TaskInvariant, NEW n \in Attempts, RunFails(n)
  PROVE  TaskInvariant'
<1>1. TypeOK /\ agent[n] \in AgentRecord /\ AgentShape(agent[n])
  BY DEF TaskInvariant, TypeOK
<1> DEFINE b == Finish(agent[n], "error")
<1>2. b \in AgentRecord /\ agent' = [agent EXCEPT ![n] = b] /\ agent[n].at = "running"
  BY <1>1 DEF AgentRecord, Finish, RunFails
<1>3. AgentShape(b)
  BY <1>1, TaskParts DEF AgentShape, AgentRecord, Finish
<1> HIDE DEF b
<1> QED BY <1>2, <1>3, AgentStep DEF RunFails

\* An attempt that stops keeps what its agent did.
LEMMA GoneFits ==
  ASSUME TaskInvariant, NEW n \in Attempts
  PROVE  /\ [agent[n] EXCEPT !.at = "gone"] \in AgentRecord
         /\ AgentShape([agent[n] EXCEPT !.at = "gone"])
<1>1. TypeOK /\ agent[n] \in AgentRecord /\ AgentShape(agent[n])
  BY DEF TaskInvariant, TypeOK
<1> QED BY <1>1 DEF AgentShape, AgentRecord

LEMMA VanishPreserves ==
  ASSUME TaskInvariant, NEW n \in Attempts, Vanish(n)
  PROVE  TaskInvariant'
<1>1. agent' = [agent EXCEPT ![n] = [agent[n] EXCEPT !.at = "gone"]]
  BY DEF Vanish, TaskInvariant, TypeOK
<1> QED BY <1>1, GoneFits, AgentStep DEF Vanish

-----------------------------------------------------------------------------
(* The server. *)

\* A failed attempt is replaced while the task allows one.
LEMMA AttemptFailedFits ==
  ASSUME TaskInvariant, activity = "started", AttemptFailed, task' = task
  PROVE  /\ attempt' \in Attempts /\ activity' \in {"queued", "raised"} /\ result' = result
         /\ AttemptsHonoured'
BY TaskParts DEF TaskInvariant, TypeOK, AttemptFailed, AttemptLimit, AttemptsHonoured, Attempts

LEMMA TimeoutPreserves ==
  ASSUME TaskInvariant, Timeout PROVE TaskInvariant'
<1>1. activity = "started" /\ AttemptFailed /\ task' = task /\ agent' = agent
  BY DEF Timeout, Expires
<1>2. /\ attempt' \in Attempts /\ activity' \in {"queued", "raised"} /\ result' = result
      /\ AttemptsHonoured'
  BY <1>1, AttemptFailedFits
<1>3. TypeOK' /\ ResultShape'
  BY <1>1, <1>2 DEF TaskInvariant, TypeOK, ResultShape, Attempts
<1>4. ASSUME NEW m \in Attempts PROVE AgentShape(agent[m])'
  <2>1. PICK c : c = agent[m] /\ AgentShape(c)
    BY DEF TaskInvariant
  <2>2. AgentShape(c)'
    BY <1>1, <2>1, ShapeIsStable
  <2> QED BY <1>1, <2>1, <2>2 DEF AgentShape
<1> QED BY <1>2, <1>3, <1>4 DEF TaskInvariant, Attempts

LEMMA ReportPreserves ==
  ASSUME TaskInvariant, NEW n \in Attempts, Report(n)
  PROVE  TaskInvariant'
<1> DEFINE b == [agent[n] EXCEPT !.at = "gone"]
<1>1. b \in AgentRecord /\ AgentShape(b) /\ b.at = "gone" /\ b.outcome = agent[n].outcome
  BY GoneFits DEF TaskInvariant, TypeOK, AgentRecord
<1>2. agent' = [agent EXCEPT ![n] = b] /\ agent[n].at = "finished" /\ task' = task
  BY DEF Report, TaskInvariant, TypeOK
<1>3. AgentResult(b) = AgentResult(agent[n])
  BY DEF AgentResult, TaskInvariant, TypeOK, AgentRecord
<1>4. agent[n] \in AgentRecord /\ agent[n].outcome \in {"completed", "failed", "error"}
  BY <1>2 DEF TaskInvariant, TypeOK, AgentRecord, AgentShape
<1> HIDE DEF b
<1>5. /\ agent' \in [Attempts -> AgentRecord]
      /\ (\A m \in Attempts : AgentShape(agent[m]))'
      /\ agent'[n] = b /\ \A m \in Attempts : m # n => agent'[m] = agent[m]
  BY <1>1, <1>2, ReplaceAgent DEF TaskInvariant
<1>6. CASE ~ (n = attempt /\ activity = "started")
  BY <1>1, <1>2, <1>6, AgentStep DEF Report
<1>7. CASE n = attempt /\ activity = "started" /\ agent[n].outcome = "error"
  <2>1. AttemptFailed
    BY <1>7 DEF Report
  <2>2. /\ attempt' \in Attempts /\ activity' \in {"queued", "raised"} /\ result' = result
        /\ AttemptsHonoured'
    BY <1>2, <1>7, <2>1, AttemptFailedFits
  <2> QED BY <1>2, <1>5, <2>2 DEF TaskInvariant, TypeOK, ResultShape, Attempts
<1>8. CASE n = attempt /\ activity = "started" /\ agent[n].outcome # "error"
  <2>1. activity' = "returned" /\ result' = AgentResult(agent[n]) /\ attempt' = attempt
    BY <1>8 DEF Report
  <2>2. AgentResult(agent[n]) \in Result
    BY <1>4, <1>8 DEF AgentResult, Result
  <2>3. TypeOK' /\ AttemptsHonoured'
    BY <1>2, <1>5, <2>1, <2>2 DEF TaskInvariant, TypeOK, AttemptsHonoured, Attempts
  <2>4. AgentResult(agent[attempt])' = AgentResult(b)
    BY <1>2, <1>5, <1>8, <2>1 DEF AgentResult
  <2>5. ResultShape'
    BY <1>1, <1>3, <1>4, <1>5, <1>8, <2>1, <2>4 DEF ResultShape
  <2> QED BY <1>5, <2>3, <2>5 DEF TaskInvariant
<1> QED BY <1>6, <1>7, <1>8

-----------------------------------------------------------------------------
(* The invariant, and what follows from it. *)

LEMMA NextPreserves ==
  ASSUME TaskInvariant, [Next]_vars PROVE TaskInvariant'
<1>1. CASE UNCHANGED vars
  <2>1. ASSUME NEW m \in Attempts PROVE AgentShape(agent[m])'
    <3>1. PICK c : c = agent[m] /\ AgentShape(c)
      BY DEF TaskInvariant
    <3>2. AgentShape(c)'
      BY <1>1, <3>1, ShapeIsStable DEF vars
    <3> QED BY <1>1, <3>1, <3>2 DEF AgentShape, vars
  <2> QED BY <1>1, <2>1
    DEF TaskInvariant, TypeOK, ResultShape, AgentResult, AttemptsHonoured, vars, Attempts
<1>2. CASE Pickup
  BY <1>2, PickupPreserves
<1>3. CASE Timeout
  BY <1>3, TimeoutPreserves
<1>4. ASSUME NEW n \in Attempts, Agent(n) PROVE TaskInvariant'
  BY <1>4, ModelCallPreserves, EndRunPreserves, RunFailsPreserves, VanishPreserves,
     ReportPreserves DEF Agent
<1> QED BY <1>1, <1>2, <1>3, <1>4 DEF Next

\* The invariant of AgentTask holds throughout (workflows/agent_task.py).
THEOREM TaskInvariance == Spec => []TaskInvariant
BY InitInvariant, NextPreserves, PTL DEF Spec

\* Every variable keeps its type, and what the workflow returns is a result the
\* supervisor is modelled with (workflows/agent_task.py:23-29).
THEOREM TypeCorrect == Spec => []TypeOK
<1>1. TaskInvariant => TypeOK
  BY DEF TaskInvariant
<1> QED BY <1>1, TaskInvariance, PTL

\* No attempt, however many overlap, executes a write tool without approval
\* (tools/policy.py:56-73).
THEOREM ApprovalSafety == Spec => []NothingUnapproved
<1>1. TaskInvariant => NothingUnapproved
  <2> SUFFICES ASSUME TaskInvariant, NEW n \in Attempts, ~task.approved
               PROVE  /\ "write" \notin agent[n].used
                      /\ task.high_risk /\ task.kind # "analyst" => agent[n].used = {}
    BY DEF NothingUnapproved
  <2> QED BY DEF TaskInvariant, AgentShape, Executed, Allowed, NeedsApproval, Approved, HighRisk
<1> QED BY <1>1, TaskInvariance, PTL

\* Silence about approval means every listed tool that was called was executed
\* (agents/casefile_agent.py:148).
THEOREM SilenceIsExecution == Spec => []SilenceMeansExecuted
<1>1. TaskInvariant => SilenceMeansExecuted
  <2> SUFFICES ASSUME TaskInvariant, activity = "returned", task.kind = "casefile",
                      result.state = "completed", ~result.requires_approval,
                      NEW tool \in agent[attempt].asked, Listed(tool)
               PROVE  tool \in agent[attempt].used
    BY DEF SilenceMeansExecuted
  <2> DEFINE a == agent[attempt]
  <2>1. result = AgentResult(a) /\ a.used = Executed(a.asked) /\ a.held = HeldBack(a.asked)
    BY DEF TaskInvariant, TypeOK, ResultShape, AgentShape
  <2>2. a.held = {}
    BY <2>1 DEF AgentResult
  <2>3. ~Held(tool)
    BY <2>1, <2>2 DEF HeldBack
  <2> QED BY <2>1, <2>3 DEF Executed, Allowed, Held
<1> QED BY <1>1, TaskInvariance, PTL

\* An exhausted swarm asks nobody and answers nothing, whatever the number of reviewers
\* and of model calls in a run (agents/swarm_cell.py:79-107).
THEOREM ExhaustionStops == Spec => []ExhaustedSwarmStops
<1>1. TaskInvariant => ExhaustedSwarmStops
  BY DEF TaskInvariant, AgentShape, ExhaustedSwarmStops
<1> QED BY <1>1, TaskInvariance, PTL

\* How far a swarm goes beyond the budget that is documented as a hard one: by one run,
\* whatever the budget (agents/swarm_cell.py:80 and 107).
THEOREM SwarmBudget == Spec => []OvershootIsOneRun
<1>1. TaskInvariant => OvershootIsOneRun
  BY DEF TaskInvariant, AgentShape, OvershootIsOneRun
<1> QED BY <1>1, TaskInvariance, PTL

\* No more attempts than the task allows, and no fewer before the workflow
\* gives up (workflows/agent_task.py:27).
THEOREM AttemptsBounded == Spec => []AttemptsHonoured
<1>1. TaskInvariant => AttemptsHonoured
  BY DEF TaskInvariant
<1> QED BY <1>1, TaskInvariance, PTL

-----------------------------------------------------------------------------
(* What the server has decided stays. *)

LEMMA ServerStep ==
  ASSUME TaskInvariant, NoResultYet, Next
  PROVE  /\ NoResultYet'
         /\ \/ UNCHANGED <<task, attempt, activity, result>>
            \/ /\ task' = task /\ activity \in {"queued", "started"} /\ result = NoResult
               /\ \/ attempt' = attempt /\ Progress[activity'] > Progress[activity]
                  \/ attempt' = attempt + 1 /\ attempt' =< task.max_attempts /\ activity' = "queued"
               /\ activity' # "returned" => result' = NoResult
<1>1. /\ attempt \in Nat /\ task.max_attempts \in Nat
      /\ activity \in {"queued", "started", "returned", "raised"}
  BY TaskParts DEF TaskInvariant, TypeOK, Attempts
<1>2. CASE Pickup
  BY <1>2 DEF Pickup, Progress, NoResultYet
<1>3. ASSUME activity = "started", AttemptFailed, task' = task
      PROVE  /\ result = NoResult /\ result' = NoResult /\ activity' # "returned"
             /\ \/ attempt' = attempt /\ Progress[activity'] > Progress[activity]
                \/ attempt' = attempt + 1 /\ attempt' =< task.max_attempts /\ activity' = "queued"
  <2>1. CASE attempt < task.max_attempts
    BY <1>1, <1>3, <2>1 DEF AttemptFailed, AttemptLimit, NoResultYet
  <2>2. CASE ~(attempt < task.max_attempts)
    BY <1>1, <1>3, <2>2 DEF AttemptFailed, AttemptLimit, NoResultYet, Progress
  <2> QED BY <2>1, <2>2
<1>4. CASE Timeout
  <2>1. activity = "started" /\ AttemptFailed /\ task' = task
    BY <1>4 DEF Timeout, Expires
  <2> QED BY <1>3, <2>1 DEF NoResultYet
<1>5. ASSUME NEW n \in Attempts, Report(n), n = attempt, activity = "started"
      PROVE  /\ NoResultYet'
             /\ task' = task /\ result = NoResult
             /\ \/ attempt' = attempt /\ Progress[activity'] > Progress[activity]
                \/ attempt' = attempt + 1 /\ attempt' =< task.max_attempts /\ activity' = "queued"
             /\ activity' # "returned" => result' = NoResult
  <2>1. task' = task
    BY <1>5 DEF Report
  <2>2. CASE agent[n].outcome = "error"
    <3>1. AttemptFailed
      BY <1>5, <2>2 DEF Report
    <3> QED BY <1>3, <1>5, <2>1, <3>1 DEF NoResultYet
  <2>3. CASE agent[n].outcome # "error"
    <3>1. activity' = "returned" /\ attempt' = attempt
      BY <1>5, <2>3 DEF Report
    <3> QED BY <1>5, <2>1, <3>1 DEF NoResultYet, Progress
  <2> QED BY <2>2, <2>3
<1>6. ASSUME NEW n \in Attempts, Agent(n), ~(Report(n) /\ n = attempt /\ activity = "started")
      PROVE  UNCHANGED <<task, attempt, activity, result>>
  BY <1>6 DEF Agent, ModelCall, EndRun, RunFails, Vanish, Report
<1>7. ASSUME UNCHANGED <<task, attempt, activity, result>> PROVE NoResultYet'
  BY <1>7 DEF NoResultYet
<1> QED BY <1>2, <1>4, <1>5, <1>6, <1>7 DEF Next

\* No late answer and no second one changes what has been returned or which attempt
\* is awaited, and there are no more attempts than the task allows
\* (workflows/agent_task.py:23-29).
THEOREM DecisionsStand == Spec => ServerGoesForward
<1> DEFINE Forward ==
      \/ UNCHANGED <<task, attempt, activity, result>>
      \/ /\ task' = task /\ activity \in {"queued", "started"} /\ result = NoResult
         /\ \/ attempt' = attempt /\ Progress[activity'] > Progress[activity]
            \/ attempt' = attempt + 1 /\ attempt' =< task.max_attempts /\ activity' = "queued"
         /\ activity' # "returned" => result' = NoResult
<1>1. Init => NoResultYet
  BY DEF Init, NoResultYet
<1>2. TaskInvariant /\ NoResultYet /\ [Next]_vars => NoResultYet' /\ [Forward]_vars
  <2>1. ASSUME NoResultYet, UNCHANGED vars PROVE NoResultYet'
    BY <2>1 DEF NoResultYet, vars
  <2> QED BY <2>1, ServerStep
<1> QED BY <1>1, <1>2, TaskInvariance, PTL DEF Spec, ServerGoesForward
=============================================================================
