-------------------------------- MODULE MCTriage --------------------------------
(***************************************************************************)
(* Plans and issues for model checking Triage, and a statement about it that *)
(* the code does not keep.                                                  *)
(***************************************************************************)
EXTENDS Triage

-----------------------------------------------------------------------------
(* Plans: each task with its dependencies, and the tasks with constraints. *)

Chain(order) == [t \in {order[i] : i \in DOMAIN order} |->
                   LET i == CHOOSE i \in DOMAIN order : order[i] = t IN
                   IF i = 1 THEN <<>> ELSE <<order[i - 1]>>]

UpstreamOf(deps) ==
  LET RECURSIVE Up(_)
      Up(t) == {t} \cup UNION {Up(deps[t][i]) : i \in DOMAIN deps[t]}
  IN [t \in Task |-> Up(t)]

Padded(deps) == [t \in Task |-> IF t \in DOMAIN deps THEN deps[t] ELSE <<>>]

NoConstraints == [casefile |-> None, source_issue |-> None]
IssueOnly(issue) == [NoConstraints EXCEPT !.source_issue = issue]
CasefileOnly(casefile) == [NoConstraints EXCEPT !.casefile = casefile]

MissionOf(deps, constraints, gated) ==
  [tasks |-> DOMAIN deps, deps |-> Padded(deps),
   constraints |->
     [t \in Task |-> IF t \in DOMAIN constraints THEN constraints[t] ELSE NoConstraints],
   gated |-> gated, upstream |-> UpstreamOf(Padded(deps))]

\* The entries have the same constraints, and nobody else has any.
Entering(deps, constraint, gated) ==
  MissionOf(deps, [t \in {u \in DOMAIN deps : deps[u] = <<>>} |-> constraint], gated)
About(deps, issue, gated) == Entering(deps, IssueOnly(issue), gated)

\* The planner's pipeline, and one with the engineer and the lead.
Pipeline ==
  Chain(<<"ticket_analyst", "repo_analyst", "security_reviewer", "risk_auditor",
          "solutions_architect", "test_engineer", "submission_engineer">>)
FullPipeline ==
  Chain(<<"ticket_analyst", "repo_analyst", "security_reviewer", "risk_auditor", "qa_lead",
          "solutions_architect", "software_engineer", "submission_engineer">>)

\* Two branches that qa_lead joins, in either order.
Join(first, second) ==
  [ticket_analyst |-> <<>>, repo_analyst |-> <<"ticket_analyst">>,
   security_reviewer |-> <<"repo_analyst">>, risk_auditor |-> <<"ticket_analyst">>,
   qa_lead |-> <<first, second>>]

\* An entry that the casefile does not come from.
Report == [data_analyst |-> <<>>, risk_auditor |-> <<"data_analyst">>]
ReportJoined ==
  [data_analyst |-> <<>>, ticket_analyst |-> <<>>,
   qa_lead |-> <<"data_analyst", "ticket_analyst">>, security_reviewer |-> <<"qa_lead">>]

-----------------------------------------------------------------------------
(* Issues. *)

Silent == [f \in Field |-> None]
IssueOf(words, patterns, payload, body, labels) ==
  [words |-> words, patterns |-> patterns, payload |-> payload,
   body |-> body, labels |-> labels, repository |-> TRUE]

\* Everything that may be said in words or in the payload, little by little.
Sparse ==
  {IssueOf(w, p, Silent, b, l) :
     w \in {{}, {"allow"}, {"shadow", "security"}},
     p \in SUBSET {"cwe", "file"}, b, l \in BOOLEAN}

Telling ==
  {IssueOf(w, {"package"}, [Silent EXCEPT !["severity"] = s, !["category"] = c], TRUE, FALSE) :
     w \in {{}, {"dependency", "low", "highlight"}, {"critical", "package", "info"}},
     s \in {None, "HIGH", "moderate", "sev1"}, c \in {None, "Dependency", "xss"}}

Typical == IssueOf({"dependency", "secrets", "high"}, {"file"}, Silent, TRUE, TRUE)
Silenced == IssueOf({}, {}, Silent, FALSE, FALSE)

-----------------------------------------------------------------------------
(* Casefiles given, and decisions. *)

\* One that another run has left: read, judged and scored.
Judged ==
  [BuildCasefile(Typical) EXCEPT
     !.repository_evidence = [repository |-> TRUE, file_exists |-> "false"],
     !.adjudication = [stale |-> TRUE, false_positive |-> FALSE, already_fixed |-> FALSE,
                       duplicate_of |-> None],
     !.risk = [risk_level |-> "low", automation_eligible |-> TRUE]]

\* One of evaluations (agents/test_engineer/eval.py), and one with an issue only.
Planned ==
  [BuildCasefile(Typical) EXCEPT
     !.remediation_plan = [strategy |-> "localized_code_fix", requires_human_approval |-> TRUE]]
Bare == [BuildCasefile(Typical) EXCEPT !.normalized_finding = None, !.repository_evidence = None]

\* Decisions that differ from what the tools say, of some casefile or of all here.
MCDecisions ==
  [ticket_analyst |->
     {[severity |-> None, scanner |-> None, category |-> "dependency", cwe |-> FALSE,
       package_name |-> TRUE, file_path |-> TRUE, confidence |-> 50]},
   security_reviewer |->
     {[stale |-> TRUE, false_positive |-> TRUE, already_fixed |-> FALSE,
       duplicate_of |-> "finding"]},
   risk_auditor |-> {[risk_level |-> "critical", automation_eligible |-> TRUE]},
   solutions_architect |-> {}, test_engineer |-> {[ready_for_review |-> TRUE]},
   qa_lead |-> {[ready |-> TRUE, next_phase |-> "triage"]}]

MCMissions ==
  {About(Pipeline, i, {"submission_engineer"}) :
     i \in {Typical, [Typical EXCEPT !.repository = FALSE], [Typical EXCEPT !.patterns = {}]}}
    \cup {About(FullPipeline, Typical, g) :
            g \in {{}, {"software_engineer", "submission_engineer"}}}
    \cup {About(Chain(<<"ticket_analyst", "security_reviewer", "risk_auditor">>), i, {}) :
            i \in Sparse \cup Telling}
    \cup {About(d, Typical, {}) :
            d \in {Join("security_reviewer", "risk_auditor"),
                   Join("risk_auditor", "security_reviewer"), Report, ReportJoined}}
    \cup {Entering(Chain(<<"test_engineer", "qa_lead", "repo_analyst", "security_reviewer">>),
                    s, {}) :
            s \in {CasefileOnly(Planned), CasefileOnly(Judged), CasefileOnly(Bare),
                   [casefile |-> Judged, source_issue |-> Silenced]}}
    \cup {Entering(Chain(<<"security_reviewer", "risk_auditor">>), CasefileOnly(Judged), {})}
    \* a casefile given in the middle, and one branch with a casefile of its own
    \cup {MissionOf(Chain(<<"ticket_analyst", "repo_analyst", "security_reviewer", "qa_lead">>),
                    [ticket_analyst |-> IssueOnly(Typical),
                     security_reviewer |-> CasefileOnly(Judged)],
                    {}),
          MissionOf(Join("risk_auditor", "security_reviewer"),
                    [ticket_analyst |-> IssueOnly(Typical), risk_auditor |-> CasefileOnly(Judged)],
                    {})}

\* file_exists is false only if the file is definitively absent, and none if that
\* could not be determined
\* (skills/code-location-verification/SKILL.md:35-36).
AbsentMeansAbsent ==
  out["repo_analyst"] # None /\ out["repo_analyst"].repository_evidence.file_exists = "false"
    => answer = "absent"
=============================================================================
