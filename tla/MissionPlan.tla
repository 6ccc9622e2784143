----------------------------- MODULE MissionPlan -----------------------------
(***************************************************************************)
(* A mission plan (contracts/mission.py, PlanVersion and TaskSpec), reduced *)
(* to what the supervisor's control flow depends on: the task ids in plan   *)
(* order, the dependencies of each task, and the tasks whose constraints    *)
(* carry requires_approval.  ValidPlan states what validate_plan            *)
(* (domain/plan_validation.py) accepts; the module PlanValidation shows     *)
(* that its depth-first search accepts exactly these plans.                 *)
(***************************************************************************)
EXTENDS Naturals, Sequences

\* The plans that can be written over a set of task ids.  A dependency may be
\* an id that no task of the plan has, and an id may occur twice.
PlanOver(ids) == [order : Seq(ids), deps : [ids -> SUBSET ids], gated : SUBSET ids]

PlanTasks(p) == {p.order[i] : i \in 1 .. Len(p.order)}

UniqueIds(p) ==
  \A i, j \in 1 .. Len(p.order) : p.order[i] = p.order[j] => i = j

KnownDependencies(p) == \A t \in PlanTasks(p) : p.deps[t] \subseteq PlanTasks(p)

\* A dependency graph has no cycle iff every non-empty set of its tasks has a
\* member none of whose dependencies is in the set.
Acyclic(p) ==
  \A S \in SUBSET PlanTasks(p) :
     S # {} => \E t \in S : p.deps[t] \cap S = {}

CyclesUnchecked(p) == UniqueIds(p) /\ KnownDependencies(p)
ValidPlan(p) == UniqueIds(p) /\ KnownDependencies(p) /\ Acyclic(p)

Position(p, t) == CHOOSE i \in 1 .. Len(p.order) : p.order[i] = t

\* The task of S that comes first in the plan.
FirstOf(p, S) == CHOOSE t \in S : \A u \in S : Position(p, t) =< Position(p, u)

\* What a task returns to the supervisor: completed, perhaps with a tool call
\* held back for approval, or failed.  The agents here attach an artifact to
\* everything they complete and to nothing else; the supervisor does not rely on
\* the former.
Result ==
  [state : {"completed"}, requires_approval : BOOLEAN, artifact_refs : BOOLEAN]
    \cup {[state |-> "failed", requires_approval |-> FALSE, artifact_refs |-> FALSE]}
=============================================================================
