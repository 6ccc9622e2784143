--------------------------------- MODULE Catalog ---------------------------------
(***************************************************************************)
(* The agents as they declare themselves (agents/*/main.py) and the          *)
(* deterministic tools that give each of them the baseline of its section    *)
(* (tools/catalog).  A tool is an operator on what its agent's prompt shows. *)
(* Rationales, and the fields of a section that nothing decides on, are left *)
(* out.                                                                     *)
(*                                                                         *)
(* As in Supervisor, an unused definition directly before another with the  *)
(* same parameters is a mutation of it.                                     *)
(***************************************************************************)
EXTENDS Normalization

-----------------------------------------------------------------------------
(* The sections of a casefile (contracts/casefile.py). *)

Optional(S) == S \cup {None}

NormalizedFinding ==
  [severity : Optional(STRING), scanner : Optional(STRING), category : Optional(STRING),
   cwe : BOOLEAN, package_name : BOOLEAN, file_path : BOOLEAN,  \* are they there
   confidence : 0 .. 100]
RepositoryEvidence == [repository : BOOLEAN, file_exists : {"none", "true", "false"}]
FindingAdjudication ==
  [stale : BOOLEAN, false_positive : BOOLEAN, already_fixed : BOOLEAN,
   duplicate_of : Optional(STRING)]
RiskClassification ==
  [risk_level : {"low", "medium", "high", "critical"}, automation_eligible : BOOLEAN]
RemediationPlan == [strategy : STRING, requires_human_approval : BOOLEAN]
ValidationResult == [ready_for_review : BOOLEAN]
ExecutionResult == [applied : BOOLEAN, sandbox_session_id : Nat]
ReadinessVerdict == [ready : BOOLEAN, next_phase : Optional(STRING)]
SubmissionResult == [submitted : BOOLEAN, draft_pr : Nat]

SecurityCasefile ==
  [source_issue : Issue,
   normalized_finding : Optional(NormalizedFinding),
   repository_evidence : Optional(RepositoryEvidence),
   adjudication : Optional(FindingAdjudication), risk : Optional(RiskClassification),
   remediation_plan : Optional(RemediationPlan), validation : Optional(ValidationResult),
   execution : Optional(ExecutionResult), readiness : Optional(ReadinessVerdict),
   submission : Optional(SubmissionResult)]

-----------------------------------------------------------------------------
(* The agents: the section each produces, its tools, and those that write. *)

TicketAnalyst ==
  [section |-> "normalized_finding", model |-> NormalizedFinding,
   tools |-> {"normalize_finding"}, writes |-> {}]
RepoAnalyst ==
  [section |-> "repository_evidence", model |-> RepositoryEvidence,
   tools |-> {"resolve_repository", "verify_file_location", "repo_grep",
              "repo_parse_manifest", "git_log_path"},
   writes |-> {}]
SecurityReviewer ==
  [section |-> "adjudication", model |-> FindingAdjudication,
   tools |-> {"adjudication_signals", "graphiti_search"}, writes |-> {}]
RiskAuditor ==
  [section |-> "risk", model |-> RiskClassification, tools |-> {"score_severity"}, writes |-> {}]
SolutionsArchitect ==
  [section |-> "remediation_plan", model |-> RemediationPlan,
   tools |-> {"propose_remediation_strategy"}, writes |-> {}]
TestEngineer ==
  [section |-> "validation", model |-> ValidationResult,
   tools |-> {"propose_validation_checks", "run_validation_command"}, writes |-> {}]
SoftwareEngineer ==
  [section |-> "execution", model |-> ExecutionResult, tools |-> {"apply_remediation_change"},
   writes |-> {"apply_remediation_change"}]
QaLead ==
  [section |-> "readiness", model |-> ReadinessVerdict, tools |-> {"assess_readiness"},
   writes |-> {}]
SubmissionEngineer ==
  [section |-> "submission", model |-> SubmissionResult,
   tools |-> {"assess_readiness", "provider_create_draft_pr", "provider_add_issue_comment"},
   writes |-> {"provider_create_draft_pr", "provider_add_issue_comment"}]

\* Those that enrich a casefile, by the id that build_agent finds them under.
Agents ==
  [ticket_analyst |-> TicketAnalyst, repo_analyst |-> RepoAnalyst,
   security_reviewer |-> SecurityReviewer, risk_auditor |-> RiskAuditor,
   solutions_architect |-> SolutionsArchitect, test_engineer |-> TestEngineer,
   software_engineer |-> SoftwareEngineer, qa_lead |-> QaLead,
   submission_engineer |-> SubmissionEngineer]

CasefileAgents == DOMAIN Agents
DataAnalystTools == {"summarize_findings"}

\* Those whose prompts leave the section to the model, the tools' answers being a
\* baseline.  The others are to report what their tools have returned.
Deciding ==
  {"ticket_analyst", "security_reviewer", "risk_auditor", "solutions_architect",
   "test_engineer", "qa_lead"}

Sections == {Agents[a].section : a \in CasefileAgents}
Writes(a) == a \in CasefileAgents /\ Agents[a].writes # {}

\* get_tools: an agent that asks for a tool that is not there cannot be run.
CATALOG ==
  {"normalize_finding", "resolve_repository", "verify_file_location", "repo_grep",
   "repo_parse_manifest", "git_log_path", "score_severity", "adjudication_signals",
   "propose_remediation_strategy", "propose_validation_checks", "assess_readiness",
   "summarize_findings", "apply_remediation_change", "run_validation_command",
   "graphiti_search", "graphiti_add_episode", "provider_get_issue",
   "provider_search_issues", "provider_get_repo_metadata", "provider_create_draft_pr",
   "provider_add_issue_comment", "provider_add_pr_comment"}

ToolsOf(a) == IF a \in CasefileAgents THEN Agents[a].tools ELSE DataAnalystTools
ToolsKnown(a) == ToolsOf(a) \subseteq CATALOG

-----------------------------------------------------------------------------
(* Reading the repository. *)

\* resolve_repository: the repository that the issue came with.
ResolveRepository(issue) == issue.repository

\* verify_file_location: whatever the read raises is an absence.
VerifyFileLocation(answer) ==
  CASE answer = "none" -> "none"
    [] answer = "present" -> "true"
    [] answer \in {"absent", "failed"} -> "false"

-----------------------------------------------------------------------------
(* Judging the finding. *)

UnlessSeen(finding, evidence) ==
  finding.file_path /\ evidence # None /\ evidence.file_exists # "true"
Stale(finding, evidence) ==
  finding.file_path /\ evidence # None /\ evidence.file_exists = "false"

AdjudicationSignals(finding, evidence) ==
  [stale |-> Stale(finding, evidence),
   false_positive |-> finding.confidence < 50,
   already_fixed |-> Stale(finding, evidence),
   duplicate_of |-> None]

SEVERITY_TO_RISK ==
  [critical |-> "critical", high |-> "high", medium |-> "medium", moderate |-> "medium",
   low |-> "low", informational |-> "low", info |-> "low"]

ScoreSeverity(finding) ==
  LET severity == Lower(finding.severity)
      risk == IF severity \in DOMAIN SEVERITY_TO_RISK THEN SEVERITY_TO_RISK[severity]
              ELSE "medium"
  IN [risk_level |-> risk,
      automation_eligible |-> risk \in {"low", "medium"} /\ finding.category = "dependency"]

-----------------------------------------------------------------------------
(* Planning, validating, releasing. *)

\* The approval flag is the model's to set.
ProposeRemediationStrategy(finding, needs_human) ==
  [strategy |-> CASE finding.category = "dependency" -> "dependency_version_update"
                  [] finding.category = "sast" -> "localized_code_fix"
                  [] OTHER -> "manual_investigation",
   requires_human_approval |-> needs_human]

\* A command is run only if its executable is on the list; one that is not, or is
\* not installed, is rejected, and one that takes too long is stopped.
CommandEnds == {"zero", "nonzero", "timed_out", "not_found"}
RunValidationCommand(allowlisted, end) ==
  [ok |-> allowlisted /\ end = "zero", rejected |-> ~allowlisted \/ end = "not_found"]

\* The agent is told to treat anything else as a failure.
Verified == {RunValidationCommand(a, e) : a \in BOOLEAN, e \in CommandEnds}

ProposeValidationChecks(plan, result) ==
  [ready_for_review |-> plan # None /\ ~plan.requires_human_approval /\ result.ok]

\* A new sandbox, or that approval is needed.
ApplyRemediationChange(session) == [applied |-> session # 0, sandbox_session_id |-> session]

BlockingUnjudged(c) ==
  {s \in {"normalized_finding", "repository_evidence", "risk"} : c[s] = None}
Blocking(c) ==
  {s \in {"normalized_finding", "repository_evidence", "adjudication", "risk"} : c[s] = None}
AssessReadiness(c) ==
  [ready |-> Blocking(c) = {},
   next_phase |-> IF Blocking(c) = {} THEN "remediation-planning" ELSE "triage"]

\* A draft pull request, or that approval is pending.
Submit(draft) == [submitted |-> draft # 0, draft_pr |-> draft]
=============================================================================
