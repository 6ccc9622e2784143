-------------------------------- MODULE Planning --------------------------------
(***************************************************************************)
(* The planner: the activity plan_mission (activities/planning.py), which    *)
(* reads a source issue and turns a graph template                           *)
(* (runtime/graph_templates.py) into the plan that the supervisor validates  *)
(* and runs.  A template is a list of nodes whose ids are chosen by hand; a  *)
(* task of the plan gets a fresh id, here its number.  What a node says      *)
(* about its agent goes into its task unchanged, and is left out.           *)
(*                                                                         *)
(* As in Supervisor, an unused definition directly before another with the  *)
(* same parameters is a mutation of it.                                     *)
(***************************************************************************)
EXTENDS MissionPlan

CONSTANTS
  Ids,       \* node ids
  Templates  \* the templates to consider

Node == [id : Ids, depends_on : SUBSET Ids, requires_approval : BOOLEAN]

\* The one template of graph_registry: the pipeline of the agents, each of which
\* waits for the one before; the last one writes, and is gated.
Pipeline ==
  <<"ticket_analyst", "repo_analyst", "security_reviewer", "risk_auditor",
    "solutions_architect", "test_engineer", "submission_engineer">>

TriageReadonlyGraph ==
  [n \in DOMAIN Pipeline |->
     [id |-> Pipeline[n],
      depends_on |-> {Pipeline[m] : m \in {n - 1} \cap DOMAIN Pipeline},
      requires_approval |-> Pipeline[n] = "submission_engineer"]]

ASSUME PlanningAssumption == Templates \subseteq Seq(Node)

VARIABLES
  nodes,      \* the template's
  pending,    \* positions of the nodes that are not in the order yet
  completed,  \* ids of those that are
  runnable,   \* positions of the nodes found runnable in this round
  ordered,    \* the execution order, as positions
  keyToTask,  \* key_to_task_id; 0 for an id that has no task
  tasks,      \* the tasks of the plan
  outcome

plannerVars == <<nodes, pending, completed, runnable, ordered, keyToTask, tasks, outcome>>

PlannerInit ==
  /\ nodes \in Templates
  /\ pending = DOMAIN nodes
  /\ completed = {} /\ runnable = {} /\ ordered = <<>>
  /\ keyToTask = [k \in Ids |-> 0]
  /\ tasks = <<>>
  /\ outcome = "reading"

-----------------------------------------------------------------------------
\* The issue comes from the source provider, which may fail (ProviderCall).
ReadIssue ==
  /\ outcome = "reading"
  /\ outcome' \in {"ordering", "read_failed"}
  /\ UNCHANGED <<nodes, pending, completed, runnable, ordered, keyToTask, tasks>>

\* GraphTemplate.execution_order, round by round: all that can run, in the order
\* of the template.
AnyResolved == {n \in pending : nodes[n].depends_on \cap completed # {} \/ nodes[n].depends_on = {}}
RunnableNodes == {n \in pending : nodes[n].depends_on \subseteq completed}

NeverRefused == FALSE
Unresolved == RunnableNodes = {}

FindRunnable ==
  /\ outcome = "ordering" /\ runnable = {} /\ pending # {}
  /\ runnable' = RunnableNodes
  /\ outcome' = IF Unresolved THEN "unresolved" ELSE outcome
  /\ UNCHANGED <<nodes, pending, completed, ordered, keyToTask, tasks>>

NothingCompleted(n) == completed
CompletedWith(n) == completed \cup {nodes[n].id}

OrderNode ==
  /\ outcome = "ordering"
  /\ \E n \in runnable :
       /\ \A m \in runnable : n <= m
       /\ ordered' = Append(ordered, n)
       /\ completed' = CompletedWith(n)
       /\ pending' = pending \ {n}
       /\ runnable' = runnable \ {n}
  /\ UNCHANGED <<nodes, keyToTask, tasks, outcome>>

OrderDone ==
  /\ outcome = "ordering" /\ pending = {}
  /\ outcome' = "building"
  /\ UNCHANGED <<nodes, pending, completed, runnable, ordered, keyToTask, tasks>>

-----------------------------------------------------------------------------
\* build_plan_from_template.  A dependency without a task would be a KeyError.
Ungated(node) ==
  [depends_on |-> {keyToTask[k] : k \in node.depends_on},
   source_issue |-> node.depends_on = {},
   requires_approval |-> FALSE]
TaskOf(node) ==
  [depends_on |-> {keyToTask[k] : k \in node.depends_on},
   source_issue |-> node.depends_on = {},
   requires_approval |-> node.requires_approval]

TaskKept(k) == [keyToTask EXCEPT ![k] = Len(tasks) + 1]

NextNode == ordered[Len(tasks) + 1]

BuildTask ==
  /\ outcome = "building" /\ Len(tasks) < Len(ordered)
  /\ LET node == nodes[NextNode] IN
     /\ tasks' = Append(tasks, TaskOf(node))
     /\ keyToTask' = TaskKept(node.id)
  /\ UNCHANGED <<nodes, pending, completed, runnable, ordered, outcome>>

PlanDone ==
  /\ outcome = "building" /\ Len(tasks) = Len(ordered)
  /\ outcome' = "planned"
  /\ UNCHANGED <<nodes, pending, completed, runnable, ordered, keyToTask, tasks>>

\* The plan returned, as the supervisor sees it.
Plan ==
  [order |-> [t \in DOMAIN tasks |-> t],
   deps |-> [t \in DOMAIN tasks |-> tasks[t].depends_on],
   gated |-> {t \in DOMAIN tasks : tasks[t].requires_approval}]

PlannerNext == ReadIssue \/ FindRunnable \/ OrderNode \/ OrderDone \/ BuildTask \/ PlanDone

PlannerSpec == PlannerInit /\ [][PlannerNext]_plannerVars

-----------------------------------------------------------------------------
\* Every variable keeps its type; no dependency is without a task.
PlannerTypeOK ==
  /\ nodes \in Templates
  /\ pending \subseteq DOMAIN nodes /\ runnable \subseteq pending
  /\ completed \subseteq Ids
  /\ ordered \in Seq(DOMAIN nodes)
  /\ keyToTask \in [Ids -> Nat]
  /\ tasks \in Seq([depends_on : SUBSET (Nat \ {0}), source_issue : BOOLEAN,
                    requires_approval : BOOLEAN])
  /\ outcome \in {"reading", "read_failed", "ordering", "unresolved", "building", "planned"}

\* Whatever the template, also one that uses an id twice or depends on itself: a
\* plan that is built is one that validate_plan accepts, so the supervisor never
\* fails on a plan of this planner (activities/planning.py:28-53).
PlansAreValid == outcome = "planned" => ValidPlan(Plan)

\* A task depends only on tasks before it, so the supervisor, which runs the first
\* task that it can, runs the plan in the order of the template
\* (runtime/graph_templates.py:32-42).
DependenciesFirst == \A t \in DOMAIN tasks : tasks[t].depends_on \subseteq 1 .. t - 1

\* A task says what its node says.
Matches(t) ==
  LET node == nodes[ordered[t]] IN
  /\ node.depends_on = {nodes[ordered[u]].id : u \in tasks[t].depends_on}
  /\ \A u, v \in tasks[t].depends_on : nodes[ordered[u]].id = nodes[ordered[v]].id => u = v
  /\ tasks[t].requires_approval = node.requires_approval
  /\ tasks[t].source_issue = (node.depends_on = {})

\* The plan has one task for each node; it depends on tasks of the nodes that the
\* node depends on, one for each, and is gated if the node is; exactly those
\* without dependencies carry the issue (activities/planning.py:30-47).
PlanMatchesTemplate ==
  outcome = "planned" =>
    /\ \A n \in DOMAIN nodes : \E t \in DOMAIN tasks : ordered[t] = n
    /\ \A t, u \in DOMAIN tasks : ordered[t] = ordered[u] => t = u
    /\ \A t \in DOMAIN tasks : Matches(t)

\* Every group of nodes has a member that depends on nodes outside the group only.
Resolvable ==
  \A S \in SUBSET DOMAIN nodes :
    S # {} => \E n \in S : nodes[n].depends_on \subseteq {nodes[m].id : m \in DOMAIN nodes \ S}

\* A template is refused exactly when its dependencies cannot be resolved
\* (runtime/graph_templates.py:36-37).
RefusedIffUnresolvable ==
  /\ outcome = "unresolved" => ~Resolvable
  /\ outcome \in {"building", "planned"} => Resolvable

\* What a step of the planner brings forward: the stage, or in a stage the nodes that
\* are ordered, a round that is begun, the tasks that are built, up to one for each
\* node (runtime/graph_templates.py:32-42, activities/planning.py:28-47).
Stage == [reading |-> 0, read_failed |-> 3, ordering |-> 1, unresolved |-> 3, building |-> 2,
          planned |-> 3]
PlannerAdvances ==
  \/ Stage[outcome'] > Stage[outcome]
  \/ /\ outcome' = outcome
     /\ \/ pending' \subseteq pending /\ pending' # pending
        \/ pending' = pending /\ runnable = {} /\ runnable' # {}
        \/ pending' = pending /\ runnable' = runnable /\ Len(tasks) < Len(tasks')
     /\ Len(tasks') =< Len(nodes)

-----------------------------------------------------------------------------
\* Why these hold: the order so far, and the tasks that it has become.
OrderSound ==
  /\ pending = DOMAIN nodes \ {ordered[i] : i \in DOMAIN ordered}
  /\ \A i, j \in DOMAIN ordered : ordered[i] = ordered[j] => i = j
  /\ completed = {nodes[ordered[i]].id : i \in DOMAIN ordered}
  /\ \A n \in runnable : nodes[n].depends_on \subseteq completed
  /\ \A i \in DOMAIN ordered :
       nodes[ordered[i]].depends_on \subseteq {nodes[ordered[j]].id : j \in 1 .. i - 1}
  /\ outcome \in {"building", "planned"} => pending = {}
  /\ outcome = "unresolved" =>
       pending # {} /\ \A n \in pending : ~(nodes[n].depends_on \subseteq completed)

KeysSound ==
  \A k \in Ids :
    IF keyToTask[k] = 0 THEN \A t \in DOMAIN tasks : nodes[ordered[t]].id # k
    ELSE keyToTask[k] \in DOMAIN tasks /\ nodes[ordered[keyToTask[k]]].id = k

TasksSound ==
  /\ Len(tasks) <= Len(ordered)
  /\ outcome = "planned" => Len(tasks) = Len(ordered)
  /\ outcome \notin {"building", "planned"} => tasks = <<>>
  /\ \A t \in DOMAIN tasks : Matches(t)

PlanningInvariant ==
  PlannerTypeOK /\ OrderSound /\ KeysSound /\ TasksSound /\ DependenciesFirst
=============================================================================
