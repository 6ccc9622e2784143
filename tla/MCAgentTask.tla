----------------------------- MODULE MCAgentTask -----------------------------
(* Tasks for model checking AgentTask. *)
EXTENDS AgentTask

TaskOf(kind, approved, high_risk, casefile, attempts) ==
  [kind |-> kind, approved |-> approved, high_risk |-> high_risk,
   casefile |-> casefile, max_attempts |-> attempts]

\* Casefile agents with and without approval, of low and of high risk, with one
\* attempt or two, one without a casefile, and the analyst.
SingleRunTasks ==
  {TaskOf("casefile", a, h, TRUE, 2) : a, h \in BOOLEAN}
    \cup {TaskOf("casefile", FALSE, FALSE, TRUE, 1), TaskOf("casefile", FALSE, FALSE, FALSE, 2),
          TaskOf("analyst", FALSE, TRUE, TRUE, 2)}

SwarmTasks ==
  {TaskOf("swarm", FALSE, h, TRUE, 2) : h \in BOOLEAN}
    \cup {TaskOf("swarm", TRUE, TRUE, FALSE, 1)}

AllTasks == SingleRunTasks \cup SwarmTasks
=============================================================================
