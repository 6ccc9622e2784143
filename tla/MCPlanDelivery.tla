----------------------------- MODULE MCPlanDelivery -----------------------------
(***************************************************************************)
(* Templates and plans for model checking PlanDelivery.  Templates: the      *)
(* triage pipeline; every dependency relation over three agents; and every   *)
(* list of at most three nodes of two agents, so that an id is used twice,   *)
(* or by no node.  Plans: every dependency relation over three tasks, in     *)
(* plans that list all of them, leave one out, list one twice, or are empty. *)
(***************************************************************************)
EXTENDS PlanDelivery

MCIds == {Pipeline[n] : n \in DOMAIN Pipeline}

\* The nodes of some agents; submission_engineer's are gated.
NodesOf(ids, known) ==
  {[id |-> k, depends_on |-> D, requires_approval |-> k = "submission_engineer"] :
     k \in ids, D \in SUBSET known}

Two == {"ticket_analyst", "submission_engineer"}
Three == Two \cup {"repo_analyst"}

MCTemplates ==
  {TriageReadonlyGraph}
    \cup {<<a, b, c>> : a \in NodesOf({"ticket_analyst"}, Three),
                        b \in NodesOf({"submission_engineer"}, Three),
                        c \in NodesOf({"repo_analyst"}, Three)}
    \cup UNION {[1 .. n -> NodesOf(Two, Two)] : n \in 0 .. 3}

MCTasks == DOMAIN Pipeline

MCPlans ==
  {[order |-> o, deps |-> [t \in MCTasks |-> IF t \in 1 .. 3 THEN d[t] ELSE {}], gated |-> {}] :
     o \in {<<1, 2, 3>>, <<1, 2>>, <<1, 2, 1>>, <<>>}, d \in [1 .. 3 -> SUBSET (1 .. 3)]}
=============================================================================
