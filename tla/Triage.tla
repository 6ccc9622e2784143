---------------------------------- MODULE Triage ----------------------------------
(***************************************************************************)
(* What a mission makes of an issue: the tasks of a plan, one per agent,     *)
(* each of which takes a casefile from its constraints or from the artifacts *)
(* of its dependencies (agents/casefile_utils.py), adds its own section and  *)
(* hands the casefile on (agents/casefile_agent.py).  The supervisor runs    *)
(* them one at a time and stops at the first that fails or has a call held   *)
(* back; a task is tried up to MaxAttempts times, and an attempt that was    *)
(* given up may still do what it was about to do.  Supervisor and AgentTask  *)
(* have these in detail.  What a section says is up to the agent's model: it  *)
(* may adopt the baseline of the tools or decide otherwise, as the prompts    *)
(* of most agents let it.  The models of repo_analyst and of the two agents   *)
(* that write follow prompts that demand what the tools have returned.       *)
(*                                                                         *)
(* As in Supervisor, an unused definition directly before another with the  *)
(* same parameters is a mutation of it.                                     *)
(***************************************************************************)
EXTENDS Catalog

CONSTANTS
  Missions,    \* the plans to consider
  Decisions,   \* what the model of an agent may say beside its tools' baseline
  MaxAttempts

Task == CasefileAgents \cup {"data_analyst"}

\* What the constraints of a task may hold: any casefile, also one with judgments,
\* and an issue.
Constraints == [casefile : Optional(SecurityCasefile), source_issue : Optional(Issue)]

\* A plan has at most one task per agent, named after it.  `upstream` of a task is
\* the task and all it depends on, directly or not.
Mission ==
  [tasks : SUBSET Task,
   deps : [Task -> Seq(Task)],
   constraints : [Task -> Constraints],
   gated : SUBSET Task,
   upstream : [Task -> SUBSET Task]]

DepsOf(m, t) == {m.deps[t][i] : i \in DOMAIN m.deps[t]}

UpstreamIsClosed(m) ==
  \A t \in Task :
    /\ m.upstream[t] = {t} \cup UNION {m.upstream[d] : d \in DepsOf(m, t)}
    /\ \A u \in m.upstream[t] : m.upstream[u] \subseteq m.upstream[t]

ASSUME TriageAssumption ==
  /\ \A m \in Missions : m \in Mission /\ UpstreamIsClosed(m)
  /\ DOMAIN Decisions = Deciding
  /\ \A a \in Deciding : Decisions[a] \subseteq Agents[a].model
  /\ MaxAttempts \in Nat \ {0}
  /\ None \notin Task \cup RepositoryEvidence

VARIABLES
  plan,
  state,    \* of each task
  out,      \* the casefile in the artifact of each task
  current,  \* the attempt in flight
  answer,   \* what the read of the file answered that repo_analyst reported
  effects,  \* what write tools have done: the task and its attempt
  stray     \* attempts given up that may still write

vars == <<plan, state, out, current, answer, effects, stray>>

Idle == [task |-> None, attempt |-> 0, read |-> "none", wrote |-> "no"]
Attempt(t, n) == [Idle EXCEPT !.task = t, !.attempt = n]

Init ==
  /\ plan \in Missions
  /\ state = [t \in Task |-> "pending"]
  /\ out = [t \in Task |-> None]
  /\ current = Idle
  /\ answer = "none"
  /\ effects = {} /\ stray = {}

-----------------------------------------------------------------------------
(* The casefile of a task. *)

\* The first of the artifacts that has one; the data analyst's has none.
FirstWithCasefile(t) ==
  LET S == {i \in DOMAIN plan.deps[t] : out[plan.deps[t][i]] # None} IN
  IF S = {} THEN None ELSE out[plan.deps[t][CHOOSE i \in S : \A j \in S : i =< j]]

Seeds ==
  [t \in Task |->
     IF plan.constraints[t].casefile # None THEN plan.constraints[t].casefile
     ELSE IF plan.constraints[t].source_issue # None
          THEN BuildCasefile(plan.constraints[t].source_issue)
     ELSE None]

CasefileFromInvocation(t) ==
  IF Seeds[t] # None THEN Seeds[t] ELSE FirstWithCasefile(t)

\* setattr(casefile, section_field, section)
Rebuilt(c, t, section) == [BuildCasefile(c.source_issue) EXCEPT ![Agents[t].section] = section]
WithSection(c, t, section) == [c EXCEPT ![Agents[t].section] = section]

\* What an attempt reports: the attempt that wrote, or 0.
DoneIfAsked == IF current.wrote # "no" THEN current.attempt ELSE 0
Done == IF current.wrote = "yes" THEN current.attempt ELSE 0

\* The sections that follow from what the agent's tools return for casefile c.  A
\* tool that takes a finding has nothing to say without one.
OfFinding(c, sections) == IF c.normalized_finding = None THEN {} ELSE sections

Baseline(t, c) ==
  CASE t = "ticket_analyst" -> {NormalizeSourceIssue(c.source_issue)}
    [] t = "repo_analyst" ->
         {[repository |-> ResolveRepository(c.source_issue),
           file_exists |-> VerifyFileLocation(current.read)]}
    [] t = "security_reviewer" ->
         OfFinding(c, {AdjudicationSignals(c.normalized_finding, c.repository_evidence)})
    [] t = "risk_auditor" -> OfFinding(c, {ScoreSeverity(c.normalized_finding)})
    [] t = "solutions_architect" ->
         OfFinding(c, {ProposeRemediationStrategy(c.normalized_finding, b) : b \in BOOLEAN})
    [] t = "test_engineer" ->
         OfFinding(c, {ProposeValidationChecks(c.remediation_plan, r) : r \in Verified})
    [] t = "software_engineer" -> {ApplyRemediationChange(Done)}
    [] t = "qa_lead" -> {AssessReadiness(c)}
    [] t = "submission_engineer" -> {Submit(Done)}

\* The sections that the agent may produce: run.section, which is the model's.
Produced(t, c) == Baseline(t, c) \cup (IF t \in Deciding THEN Decisions[t] ELSE {})

-----------------------------------------------------------------------------
(* The supervisor. *)

Stopped == \E t \in plan.tasks : state[t] \in {"failed", "held"}

Ready(t) ==
  /\ state[t] = "pending"
  /\ \A d \in DepsOf(plan, t) : state[d] = "completed"

\* Without a casefile an agent has nothing to do, and fails.
Dispatch(t) ==
  /\ current.task = None /\ ~Stopped
  /\ t \in plan.tasks /\ Ready(t)
  /\ IF t \in CasefileAgents /\ CasefileFromInvocation(t) = None
     THEN state' = [state EXCEPT ![t] = "failed"] /\ UNCHANGED current
     ELSE state' = [state EXCEPT ![t] = "running"] /\ current' = Attempt(t, 1)
  /\ UNCHANGED <<plan, out, answer, effects, stray>>

Ends(t, verdict) ==
  /\ state' = [state EXCEPT ![t] = verdict]
  /\ current' = Idle

-----------------------------------------------------------------------------
(* The attempt in flight. *)

\* repo_analyst reads the file that the finding names from the repository found.
ReadFile(result) ==
  LET c == CasefileFromInvocation("repo_analyst") IN
  /\ current.task = "repo_analyst" /\ current.read = "none"
  /\ c.source_issue.repository /\ c.normalized_finding # None /\ c.normalized_finding.file_path
  /\ current' = [current EXCEPT !.read = result]
  /\ UNCHANGED <<plan, state, out, answer, effects, stray>>

\* A write tool is called once per attempt (bound).  The gate lets it through if
\* the task was approved; what the tool answers may not be heard.
LetThrough(t) == t \in plan.gated

CallWriteTool(heard) ==
  /\ Writes(current.task) /\ current.wrote = "no"
  /\ IF LetThrough(current.task)
     THEN /\ effects' = effects \cup {<<current.task, current.attempt>>}
          /\ current' = [current EXCEPT !.wrote = IF heard THEN "yes" ELSE "lost"]
     ELSE /\ current' = [current EXCEPT !.wrote = "held"]
          /\ UNCHANGED effects
  /\ UNCHANGED <<plan, state, out, answer, stray>>

\* The artifact is a copy: the casefile it was made from stays as it is.
OutUncopied(t, c) ==
  [u \in Task |-> IF u = t \/ (u \in DepsOf(plan, t) /\ out[u] # None) THEN c ELSE out[u]]
OutWith(t, c) == [out EXCEPT ![t] = c]

\* The model produces the section; the data analyst has a report of its own.
Complete ==
  LET t == current.task IN
  /\ t # None /\ ToolsKnown(t)
  /\ Ends(t, IF current.wrote = "held" THEN "held" ELSE "completed")
  /\ IF t \in CasefileAgents
     THEN LET c == CasefileFromInvocation(t) IN
          \E section \in Produced(t, c) : out' = OutWith(t, WithSection(c, t, section))
     ELSE UNCHANGED out
  /\ answer' = IF t = "repo_analyst" THEN current.read ELSE answer
  /\ UNCHANGED <<plan, effects, stray>>

\* It produces none.
NoSection ==
  /\ current.task \in CasefileAgents
  /\ Ends(current.task, "failed")
  /\ UNCHANGED <<plan, out, answer, effects, stray>>

\* The attempt raises, is lost with its worker, or takes too long; the next one
\* begins from the same casefile.
MayStillWrite ==
  IF Writes(current.task) /\ LetThrough(current.task) /\ current.wrote = "no"
  THEN {<<current.task, current.attempt>>} ELSE {}

LoseAttempt ==
  /\ current.task # None
  /\ stray' = stray \cup MayStillWrite
  /\ IF current.attempt < MaxAttempts
     THEN current' = Attempt(current.task, current.attempt + 1) /\ UNCHANGED state
     ELSE Ends(current.task, "failed")
  /\ UNCHANGED <<plan, out, answer, effects>>

\* An attempt given up, but not gone, writes.
StrayWrite(e) ==
  /\ e \in stray
  /\ effects' = effects \cup {e}
  /\ stray' = stray \ {e}
  /\ UNCHANGED <<plan, state, out, current, answer>>

Next ==
  \/ \E t \in Task : Dispatch(t)
  \/ \E result \in {"present", "absent", "failed"} : ReadFile(result)
  \/ \E heard \in BOOLEAN : CallWriteTool(heard)
  \/ Complete \/ NoSection \/ LoseAttempt
  \/ \E e \in stray : StrayWrite(e)

Spec == Init /\ [][Next]_vars

-----------------------------------------------------------------------------
\* Every section of a casefile is one that the task was seeded with, or is what
\* the agent it belongs to has produced in a task upstream: no section is made
\* up, taken from a later state of it, or put into a casefile handed on before
\* (agents/casefile_utils.py:12-23, agents/casefile_agent.py:121).
SectionsComeFromUpstream ==
  \A t \in Task : out[t] # None =>
    \A s \in Sections : out[t][s] # None =>
      \E u \in plan.upstream[t] :
        \/ Seeds[u] # None /\ out[t][s] = Seeds[u][s]
        \/ /\ u \in CasefileAgents /\ Agents[u].section = s
           /\ out[u] # None /\ out[t][s] = out[u][s]

\* Only entry tasks are seeded, and no task has several dependencies.
NoJoins ==
  \A t \in plan.tasks :
    /\ Len(plan.deps[t]) =< 1
    /\ Seeds[t] # None => plan.deps[t] = <<>>

\* In a plan without joins, like the planner's, a casefile has the sections of
\* all agents upstream, as these produced them (where tasks join, it has those of
\* one branch only: agents/casefile_utils.py:19-22).
ChainsLoseNothing ==
  NoJoins =>
    \A t \in Task : out[t] # None =>
      \A u \in plan.upstream[t] :
        /\ u \in CasefileAgents /\ out[u] # None
        /\ out[t][Agents[u].section] = out[u][Agents[u].section]

\* The model of an agent that judges has adopted what its tools said of the casefile
\* that it was given: that of its artifact, but for the agent's own section, which
\* they do not look at.
Adopted(t) == out[t] # None /\ out[t][Agents[t].section] \in Baseline(t, out[t])

\* If qa_lead adopts the verdict of assess_readiness and that is "ready", then its
\* casefile has an adjudication and a risk, and each was produced by the agent for it
\* in a task upstream that has completed, or came in with a casefile given to a task
\* upstream; that the agents have completed does not suffice where their branches
\* join (tools/catalog/readiness.py:10-22, agents/casefile_utils.py:13-22).
ReadyIsEarned ==
  LET c == out["qa_lead"]
      upstream == plan.upstream["qa_lead"]
  IN Adopted("qa_lead") /\ c.readiness.ready =>
       \A a \in {"security_reviewer", "risk_auditor"} :
         LET s == Agents[a].section IN
         \/ a \in upstream /\ state[a] = "completed" /\ out[a] # None /\ c[s] = out[a][s]
         \/ \E u \in upstream : Seeds[u] # None /\ Seeds[u][s] # None /\ c[s] = Seeds[u][s]

\* If security_reviewer adopts the signals of adjudication_signals, a finding is
\* stale only after repo_analyst, upstream, has tried to read a file and has not got
\* it, or if a casefile given upstream said that it is absent; and in a plan without
\* joins one whose file was definitively absent is stale.  Nothing is asked for where
\* the read failed: AbsentMeansAbsent is about that
\* (tools/catalog/adjudication.py:15, tools/catalog/repository.py:31-48).
StaleReflectsTheRead ==
  LET c == out["security_reviewer"]
      upstream == plan.upstream["security_reviewer"]
      given(u) == Seeds[u] # None /\ Seeds[u].repository_evidence # None
                  /\ Seeds[u].repository_evidence.file_exists = "false"
  IN Adopted("security_reviewer") =>
       /\ c.adjudication.stale =>
            \/ "repo_analyst" \in upstream /\ answer \in {"absent", "failed"}
            \/ \E u \in upstream : given(u)
       /\ "repo_analyst" \in upstream /\ NoJoins
            /\ answer = "absent" /\ c.normalized_finding.file_path => c.adjudication.stale

\* What an issue may tell about its finding.
Signals(issue) ==
  LET f == NormalizeSourceIssue(issue) IN
  Tenth(issue.body) + Tenth(issue.labels) + Tenth(f.severity # None) + Tenth(f.scanner # None)
    + Tenth(f.category # None) + Tenth(f.file_path \/ f.package_name)

\* The finding of a casefile is what normalize_finding makes of its issue.
Normalized(c) == c.normalized_finding = NormalizeSourceIssue(c.source_issue)

\* Upstream of a task nobody has decided otherwise: the casefiles given have such a
\* finding, and so has that of ticket_analyst, if it is there.
NormalizedUpstream(t) ==
  /\ \A u \in plan.upstream[t] : Seeds[u] # None => Normalized(Seeds[u])
  /\ "ticket_analyst" \in plan.upstream[t] =>
       out["ticket_analyst"] # None /\ Normalized(out["ticket_analyst"])

IssuesGiven(t) == {Seeds[u].source_issue : u \in {v \in plan.upstream[t] : Seeds[v] # None}}

\* A finding that nobody changed on the way is not called a false positive by the
\* signals, over all the tasks between the entry and the reviewer, if its issue tells at
\* least two of six things about it, whichever two.  What they should say of one that
\* tells less is left open: they do call it one, though low confidence is no proof of
\* that (skills/false-positive-evidence-review/SKILL.md:47)
\* (normalization.py:183-199, tools/catalog/adjudication.py:16).
TwoSignalsAreNoFalsePositive ==
  LET c == out["security_reviewer"] IN
  Adopted("security_reviewer") /\ NormalizedUpstream("security_reviewer")
    /\ Signals(c.source_issue) >= 20 => ~c.adjudication.false_positive

\* The severity that an issue states, in its payload or, failing that, anywhere.
StatesSerious(issue) ==
  IF issue.payload["severity"] # None THEN Lower(issue.payload["severity"]) \in {"critical", "high"}
  ELSE Occurs("critical", issue) \/ Occurs("high", issue)

\* If risk_auditor adopts the score of score_severity, no finding is eligible for
\* automation that is not about a dependency; nor, if nobody changed it on the way, one
\* whose issue, as it came in, states a high or critical severity, also next to a lower
\* one (tools/catalog/risk.py:28-34, normalization.py:78-94).
EligibleIsHarmless ==
  LET c == out["risk_auditor"] IN
  Adopted("risk_auditor") /\ c.risk.automation_eligible =>
    /\ c.normalized_finding.category = "dependency"
    /\ NormalizedUpstream("risk_auditor") =>
         c.source_issue \in IssuesGiven("risk_auditor") /\ ~StatesSerious(c.source_issue)

\* A task that reports a change or a draft pull request was approved, and the
\* attempt that it names has made it, over lost answers, given-up attempts and
\* their late writes; no task that was not approved has written anything
\* (tools/catalog/provider_write.py:18-24, tools/catalog/remediation.py:53-77).
Reported(t) ==
  IF t = "software_engineer" THEN out[t].execution.sandbox_session_id
  ELSE out[t].submission.draft_pr

SubmissionsAreReal ==
  /\ \A e \in effects : e[1] \in plan.gated
  /\ \A t \in Task :
       Writes(t) /\ out[t] # None /\ Reported(t) # 0 => <<t, Reported(t)>> \in effects
=============================================================================
