--------------------------- MODULE AgentTaskClaims ---------------------------
(***************************************************************************)
(* A statement that ADR-0009 makes about tasks and that the code does not    *)
(* keep.                                                                    *)
(***************************************************************************)
EXTENDS MCAgentTask

\* A call held back for approval surfaces as requires_approval on the result
\* (docs/decisions/ADR-0009:25), whatever agent made it, if it completes.
HeldCallsSurface ==
  activity = "returned" /\ result.state = "completed" /\ agent[attempt].held # {}
  => result.requires_approval
=============================================================================
