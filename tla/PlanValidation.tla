---------------------------- MODULE PlanValidation ----------------------------
(***************************************************************************)
(* validate_plan (domain/plan_validation.py): the check that stands between *)
(* a delivered plan and its execution.  Ids and dependencies are checked    *)
(* first; then a depth-first search looks for cycles.  The recursion of     *)
(* `visit` is unfolded: `path` is its call stack and `rest` what is left of  *)
(* the loop over depends_on in each active call.  The set of task ids is    *)
(* iterated in no particular order, and so are the dependencies here: their *)
(* order only decides which task an error names.                            *)
(***************************************************************************)
EXTENDS MissionPlan, FiniteSets

CONSTANTS Tasks, Plans

ASSUME PlansOverTasks == Plans \subseteq PlanOver(Tasks)

VARIABLES
  plan,
  phase,       \* "ids", "search", or the verdict
  to_visit,    \* task ids the outer loop has not reached
  path,        \* tasks of the active calls of visit, outermost first
  rest,        \* dependencies an active call has still to visit
  visiting, visited

vars == <<plan, phase, to_visit, path, rest, visiting, visited>>

Verdicts == {"accepted", "duplicate", "unknown", "cycle"}

Init ==
  /\ plan \in Plans
  /\ phase = "ids"
  /\ to_visit = {} /\ path = <<>> /\ visiting = {} /\ visited = {}
  /\ rest = [t \in Tasks |-> {}]

CheckedIds ==
  IF Cardinality(PlanTasks(plan)) # Len(plan.order) THEN "duplicate"
  ELSE IF \E t \in PlanTasks(plan) : plan.deps[t] \ PlanTasks(plan) # {} THEN "unknown"
  ELSE "search"

CheckIds ==
  /\ phase = "ids"
  /\ phase' = CheckedIds
  /\ to_visit' = PlanTasks(plan)
  /\ UNCHANGED <<plan, path, rest, visiting, visited>>

Top == path[Len(path)]

\* A call of visit(t) while the callers still have `left` to visit.
VisitUnmarked(t, left) ==
  /\ rest' = IF t \in visited THEN left ELSE [left EXCEPT ![t] = plan.deps[t]]
  /\ path' = IF t \in visited THEN path ELSE Append(path, t)
  /\ visited' = visited \cup {t}
  /\ UNCHANGED <<phase, visiting>>
Visit(t, left) ==
  \/ /\ t \in visited
     /\ rest' = left
     /\ UNCHANGED <<phase, path, visiting, visited>>
  \/ /\ t \notin visited /\ t \in visiting
     /\ phase' = "cycle"
     /\ rest' = left
     /\ UNCHANGED <<path, visiting, visited>>
  \/ /\ t \notin visited \cup visiting
     /\ path' = Append(path, t)
     /\ rest' = [left EXCEPT ![t] = plan.deps[t]]
     /\ visiting' = visiting \cup {t}
     /\ UNCHANGED <<phase, visited>>

AfterRoot(t) == to_visit \ {t}

VisitRoot(t) ==
  /\ phase = "search" /\ path = <<>>
  /\ t \in to_visit
  /\ to_visit' = AfterRoot(t)
  /\ Visit(t, rest)
  /\ UNCHANGED plan

VisitDependency(d) ==
  /\ phase = "search" /\ path # <<>>
  /\ d \in rest[Top]
  /\ Visit(d, [rest EXCEPT ![Top] = @ \ {d}])
  /\ UNCHANGED <<plan, to_visit>>

\* What a call that returns leaves of the two marks of its task.
OneMark == visiting' = visiting /\ visited' = visited
Marks == visiting' = visiting \ {Top} /\ visited' = visited \cup {Top}

LeaveTask ==
  /\ phase = "search" /\ path # <<>>
  /\ rest[Top] = {}
  /\ Marks
  /\ path' = SubSeq(path, 1, Len(path) - 1)
  /\ UNCHANGED <<plan, phase, to_visit, rest>>

Accept ==
  /\ phase = "search" /\ path = <<>>
  /\ to_visit = {}
  /\ phase' = "accepted"
  /\ UNCHANGED <<plan, to_visit, path, rest, visiting, visited>>

Next ==
  \/ CheckIds
  \/ \E t \in Tasks : VisitRoot(t) \/ VisitDependency(t)
  \/ LeaveTask
  \/ Accept

Spec == Init /\ [][Next]_vars

-----------------------------------------------------------------------------
\* Every variable stays within the values the search gives it.
TypeOK ==
  /\ plan \in PlanOver(Tasks)
  /\ phase \in {"ids", "search"} \cup Verdicts
  /\ to_visit \subseteq PlanTasks(plan)
  /\ path \in Seq(PlanTasks(plan)) /\ Len(path) =< Cardinality(PlanTasks(plan))
  /\ rest \in [Tasks -> SUBSET Tasks]
  /\ visiting \subseteq PlanTasks(plan) /\ visited \subseteq PlanTasks(plan)

\* A plan that validate_plan lets through has unique ids, knows all its
\* dependencies and has no cycle: the supervisor's loop cannot get stuck on it.
AcceptedPlansAreValid == phase = "accepted" => ValidPlan(plan)

\* A plan that validate_plan refuses really has the defect the error names; in
\* particular tasks that share a dependency are not taken for a cycle.
RefusalsAreReal ==
  /\ phase = "duplicate" => ~UniqueIds(plan)
  /\ phase = "unknown" => ~KnownDependencies(plan)
  /\ phase = "cycle" => UniqueIds(plan) /\ KnownDependencies(plan) /\ ~Acyclic(plan)

\* What a step of the search brings forward: the verdict, the tasks that are visited,
\* that are being visited, that are roots no longer, or the dependencies that the
\* innermost call has looked at; all are tasks of the plan
\* (domain/plan_validation.py:16-28).
SearchAdvances ==
  \/ phase = "ids" /\ phase' # "ids"
  \/ phase = "search" /\ phase' \in Verdicts
  \/ /\ phase' = phase /\ plan' = plan
     /\ \/ visited \subseteq visited' /\ visited' # visited
        \/ /\ visited' = visited
           /\ \/ visiting \subseteq visiting' /\ visiting' # visiting
              \/ /\ visiting' = visiting
                 /\ \/ to_visit' \subseteq to_visit /\ to_visit' # to_visit
                    \/ /\ to_visit' = to_visit /\ path' = path
                       /\ rest'[Top] \subseteq rest[Top] /\ rest'[Top] # rest[Top]

-----------------------------------------------------------------------------
(* Why these hold: the invariant of the search. *)

\* The call stack is a simple path along dependencies, and `visiting` its tasks.
PathShape ==
  /\ visiting = {path[i] : i \in 1 .. Len(path)}
  /\ \A i, j \in 1 .. Len(path) : path[i] = path[j] => i = j
  /\ \A i \in 1 .. Len(path) - 1 : path[i + 1] \in plan.deps[path[i]]

\* A dependency of an active call is visited, still to come, or being visited
\* by the call it made.
RestShape ==
  \A i \in 1 .. Len(path) :
    /\ rest[path[i]] \subseteq plan.deps[path[i]]
    /\ \A d \in plan.deps[path[i]] :
         d \in visited \/ d \in rest[path[i]] \/ (i < Len(path) /\ d = path[i + 1])

\* Visited tasks depend on visited tasks only, and form no cycle.
VisitedShape ==
  /\ visited \cap visiting = {}
  /\ \A t \in visited : plan.deps[t] \subseteq visited
  /\ \A S \in SUBSET visited : S # {} => \E t \in S : plan.deps[t] \cap S = {}

\* No task of the plan is forgotten.
NoneForgotten == PlanTasks(plan) = to_visit \cup visited \cup visiting

SearchInvariant ==
  /\ TypeOK
  /\ RefusalsAreReal
  /\ phase \in {"search", "accepted"} =>
       /\ UniqueIds(plan) /\ KnownDependencies(plan)
       /\ PathShape /\ RestShape /\ VisitedShape /\ NoneForgotten
  /\ phase = "accepted" => to_visit = {} /\ path = <<>>
  /\ phase = "ids" => path = <<>> /\ visiting = {} /\ visited = {}
=============================================================================
