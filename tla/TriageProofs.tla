------------------------------ MODULE TriageProofs ------------------------------
(***************************************************************************)
(* Theorems about Triage: what its properties say of the casefile holds for  *)
(* every plan over the agents, with chains, forks and joins, whatever issues *)
(* and casefiles it is given, whatever the models decide, and for any number *)
(* of attempts.                                                             *)
(***************************************************************************)
EXTENDS Triage, FiniteSetTheorems, WellFoundedInduction, TLAPS

-----------------------------------------------------------------------------
(* The agents and the casefile. *)

Fields ==
  {"source_issue", "normalized_finding", "repository_evidence", "adjudication", "risk",
   "remediation_plan", "validation", "execution", "readiness", "submission"}

\* What is needed of a casefile: its fields, and an issue.
Casefile(c) == c = [f \in Fields |-> c[f]] /\ c.source_issue \in Issue

SectionOf ==
  [ticket_analyst |-> "normalized_finding", repo_analyst |-> "repository_evidence",
   security_reviewer |-> "adjudication", risk_auditor |-> "risk",
   solutions_architect |-> "remediation_plan", test_engineer |-> "validation",
   software_engineer |-> "execution", qa_lead |-> "readiness",
   submission_engineer |-> "submission"]

LEMMA CasefileAgentNames ==
  CasefileAgents =
    {"ticket_analyst", "repo_analyst", "security_reviewer", "risk_auditor",
     "solutions_architect", "test_engineer", "software_engineer", "qa_lead",
     "submission_engineer"}
BY DEF CasefileAgents, Agents

LEMMA SectionsByAgent ==
  ASSUME NEW a \in CasefileAgents PROVE Agents[a].section = SectionOf[a]
BY CasefileAgentNames
DEF Agents, SectionOf, TicketAnalyst, RepoAnalyst, SecurityReviewer, RiskAuditor,
    SolutionsArchitect, TestEngineer, SoftwareEngineer, QaLead, SubmissionEngineer

\* No two agents share a section, and none has the issue for its section.
LEMMA OwnSections ==
  ASSUME NEW a \in CasefileAgents
  PROVE  /\ Agents[a].section \in Fields \ {"source_issue"}
         /\ Agents[a].section \in Sections
         /\ \A b \in CasefileAgents : Agents[b].section = Agents[a].section => b = a
<1>1. SectionOf[a] \in Fields \ {"source_issue"}
  BY CasefileAgentNames DEF SectionOf, Fields
<1>2. \A b \in CasefileAgents : SectionOf[b] = SectionOf[a] => b = a
  BY CasefileAgentNames DEF SectionOf
<1> QED BY <1>1, <1>2, SectionsByAgent DEF Sections

LEMMA Writers ==
  ASSUME NEW t, Writes(t) PROVE t \in {"software_engineer", "submission_engineer"}
BY CasefileAgentNames
DEF Writes, Agents, TicketAnalyst, RepoAnalyst, SecurityReviewer, RiskAuditor,
    SolutionsArchitect, TestEngineer, QaLead

\* What a task is given is a casefile, or is made one.
LEMMA SeedsAreCasefiles ==
  ASSUME plan \in Missions, NEW t \in Task, Seeds[t] # None
  PROVE  Casefile(Seeds[t])
<1> DEFINE given == plan.constraints[t].casefile
           issue == plan.constraints[t].source_issue
<1>1. plan.constraints[t] \in Constraints
  BY TriageAssumption DEF Mission
<1>2. given \in SecurityCasefile \cup {None} /\ issue \in Issue \cup {None}
  BY <1>1 DEF Constraints, Optional
<1>3. Seeds[t] = IF given # None THEN given ELSE IF issue # None THEN BuildCasefile(issue) ELSE None
  BY DEF Seeds
<1> HIDE DEF given, issue
<1>4. CASE given # None
  <2>1. Seeds[t] \in SecurityCasefile
    BY <1>2, <1>3, <1>4
  <2> QED BY <2>1 DEF SecurityCasefile, Casefile, Fields
<1>5. CASE given = None
  <2>1. Seeds[t] = BuildCasefile(issue) /\ issue \in Issue
    BY <1>2, <1>3, <1>5
  <2> QED BY <2>1 DEF BuildCasefile, Casefile, Fields
<1> QED BY <1>4, <1>5

\* A non-empty set of numbers up to L has a least element: of the intervals
\* 1 .. n that end in the set, one contains no other.
LEMMA LeastNumber ==
  ASSUME NEW L \in Nat, NEW N, N \subseteq 1 .. L, N # {}
  PROVE  \E m \in N : \A n \in N : m =< n
<1> DEFINE T == {1 .. n : n \in N}
           Less == StrictSubsetOrdering(1 .. L)
           All == FiniteSubsetsOf(1 .. L)
<1>1. IsWellFoundedOn(Less, All)
  BY FS_StrictSubsetOrderingWellFounded
<1>2. T \subseteq All /\ T # {}
  <2>1. IsFiniteSet(1 .. L) BY FS_Interval
  <2>2. All = SUBSET (1 .. L) BY <2>1, FS_FiniteSubsetsOfFinite
  <2>3. ASSUME NEW n \in N PROVE 1 .. n \in All
    <3> HIDE DEF All
    <3> QED BY <2>2
  <2> HIDE DEF All
  <2> QED BY <2>3
<1>3. PICK x \in T : \A y \in T : <<y, x>> \notin Less
  <2> HIDE DEF T, Less, All
  <2> QED BY <1>1, <1>2, WFMin
<1>4. PICK m \in N : x = 1 .. m
  OBVIOUS
<1>5. ASSUME NEW n \in N PROVE m =< n
  <2>1. SUFFICES ASSUME n < m PROVE FALSE
    OBVIOUS
  <2>2. 1 .. n \subseteq 1 .. m /\ 1 .. n # 1 .. m
    BY <2>1
  <2>3. 1 .. n \in SUBSET (1 .. L) /\ 1 .. m \in SUBSET (1 .. L)
    OBVIOUS
  <2>4. <<1 .. n, x>> \in Less
    BY <2>2, <2>3, <1>4 DEF StrictSubsetOrdering
  <2> QED BY <2>4, <1>3
<1> QED BY <1>5
-----------------------------------------------------------------------------
(* The inductive invariant. *)

States == {"pending", "running", "completed", "failed", "held"}

TypeInv ==
  /\ plan \in Missions
  /\ state \in [Task -> States]
  /\ out = [t \in Task |-> out[t]]
  /\ current \in [task : Task \cup {None}, attempt : Nat,
                  read : {"none", "present", "absent", "failed"},
                  wrote : {"no", "yes", "lost", "held"}]
  /\ answer \in {"none", "present", "absent", "failed"}

\* Who runs is in flight, and nobody runs before all upstream have completed.
ProgressInv ==
  /\ \A t \in Task : state[t] = "running" <=> current.task = t
  /\ \A t \in Task : out[t] # None => t \in CasefileAgents /\ state[t] \in {"completed", "held"}
  /\ \A t \in Task : state[t] # "pending" =>
       \A u \in plan.upstream[t] : u = t \/ state[u] = "completed"
  /\ \A t \in CasefileAgents : current.task = t => CasefileFromInvocation(t) # None
  /\ \A t \in Task : current.task = t => t \in plan.tasks
  /\ \A t \in Task : out[t] # None => t \in plan.tasks

OutInv == \A t \in Task : out[t] # None => Casefile(out[t])

\* A casefile is about an issue that came in, and a finding that nobody changes on the
\* way stays that of its issue.
IssueInv ==
  \A t \in Task : out[t] # None =>
    /\ out[t].source_issue \in IssuesGiven(t)
    /\ NormalizedUpstream(t) => Normalized(out[t])

\* The evidence that repo_analyst has handed on is that of its read.
ReadInv ==
  out["repo_analyst"] # None =>
    LET e == out["repo_analyst"].repository_evidence IN
    e \in RepositoryEvidence /\ e.file_exists = VerifyFileLocation(answer)

\* What has written, or still may, was let through; and a tool that says that it
\* has written has.
WriteInv ==
  /\ \A e \in effects \cup stray : e[1] \in plan.gated
  /\ current.wrote = "yes" => <<current.task, current.attempt>> \in effects

IInv ==
  /\ TypeInv /\ ProgressInv /\ OutInv /\ IssueInv /\ ReadInv /\ WriteInv
  /\ SectionsComeFromUpstream /\ ChainsLoseNothing /\ SubmissionsAreReal

-----------------------------------------------------------------------------
(* Initially. *)

LEMMA InitTriage == Init => IInv
<1> SUFFICES ASSUME Init PROVE IInv
  OBVIOUS
<1> USE DEF Init
<1>1. TypeInv BY DEF TypeInv, Idle, States
<1>2. ProgressInv
  BY TriageAssumption DEF ProgressInv, Idle, Task
<1>3. OutInv /\ IssueInv /\ SectionsComeFromUpstream /\ ChainsLoseNothing /\ SubmissionsAreReal
  BY DEF OutInv, IssueInv, SectionsComeFromUpstream, ChainsLoseNothing, SubmissionsAreReal
<1>4. ReadInv /\ WriteInv
  BY CasefileAgentNames DEF ReadInv, WriteInv, Idle, Task
<1> QED BY <1>1, <1>2, <1>3, <1>4 DEF IInv

-----------------------------------------------------------------------------
(* Plans. *)

LEMMA PlanIsMission ==
  ASSUME TypeInv
  PROVE  /\ plan.deps \in [Task -> Seq(Task)]
         /\ plan.upstream \in [Task -> SUBSET Task]
         /\ UpstreamIsClosed(plan)
BY TriageAssumption DEF TypeInv, Mission

LEMMA DepsAreUpstream ==
  ASSUME TypeInv, NEW t \in Task
  PROVE  /\ t \in plan.upstream[t] /\ plan.upstream[t] \subseteq Task
         /\ \A d \in DepsOf(plan, t) : d \in plan.upstream[t] /\ d \in Task
         /\ \A u \in plan.upstream[t] : plan.upstream[u] \subseteq plan.upstream[t]
         /\ \A u \in plan.upstream[t] :
              u = t \/ \E d \in DepsOf(plan, t) : u \in plan.upstream[d]
<1>1. \A d \in DepsOf(plan, t) : d \in Task
  BY PlanIsMission DEF DepsOf
<1>2. \A d \in DepsOf(plan, t) : d \in plan.upstream[d]
  BY <1>1, PlanIsMission DEF UpstreamIsClosed
<1>3. plan.upstream[t] = {t} \cup UNION {plan.upstream[d] : d \in DepsOf(plan, t)}
  BY PlanIsMission DEF UpstreamIsClosed
<1> QED BY <1>1, <1>2, <1>3, PlanIsMission DEF UpstreamIsClosed

\* A task's casefile is its seed or the artifact of a dependency.
LEMMA WhereFrom ==
  ASSUME TypeInv, NEW t \in Task, CasefileFromInvocation(t) # None
  PROVE  \/ Seeds[t] # None /\ CasefileFromInvocation(t) = Seeds[t]
         \/ /\ Seeds[t] = None
            /\ \E d \in DepsOf(plan, t) :
                 d \in Task /\ out[d] # None /\ CasefileFromInvocation(t) = out[d]
<1> DEFINE S == {i \in DOMAIN plan.deps[t] : out[plan.deps[t][i]] # None}
           first == CHOOSE i \in S : \A j \in S : i =< j
<1> SUFFICES ASSUME Seeds[t] = None
             PROVE  \E d \in DepsOf(plan, t) :
                      d \in Task /\ out[d] # None /\ CasefileFromInvocation(t) = out[d]
  BY DEF CasefileFromInvocation
<1>1. plan.deps[t] \in Seq(Task)
  BY PlanIsMission
<1>2. S # {} /\ CasefileFromInvocation(t) = out[plan.deps[t][first]]
  BY DEF CasefileFromInvocation, FirstWithCasefile
<1>3. S \subseteq 1 .. Len(plan.deps[t]) /\ Len(plan.deps[t]) \in Nat
  BY <1>1
<1>4. \E i \in S : \A j \in S : i =< j
  <2> HIDE DEF S
  <2> QED BY <1>2, <1>3, LeastNumber
<1>5. first \in S
  <2> HIDE DEF S
  <2> QED BY <1>4
<1> HIDE DEF first
<1>6. plan.deps[t][first] \in DepsOf(plan, t)
  BY <1>5 DEF DepsOf
<1> QED BY <1>2, <1>5, <1>6, PlanIsMission DEF DepsOf
-----------------------------------------------------------------------------
(* Steps that complete no task leave the casefiles alone. *)

LEMMA CasefilesKept ==
  ASSUME IInv, UNCHANGED <<plan, out, answer>>
  PROVE  /\ OutInv' /\ IssueInv' /\ ReadInv' /\ SectionsComeFromUpstream' /\ ChainsLoseNothing'
         /\ \A t \in Task : CasefileFromInvocation(t)' = CasefileFromInvocation(t)
<1>1. Seeds' = Seeds
  BY DEF Seeds
<1>2. NoJoins' <=> NoJoins
  BY <1>1 DEF NoJoins
<1>3. SectionsComeFromUpstream'
  BY <1>1 DEF IInv, SectionsComeFromUpstream
<1>4. ChainsLoseNothing'
  BY <1>2 DEF IInv, ChainsLoseNothing
<1>5. OutInv' /\ ReadInv'
  BY DEF IInv, OutInv, ReadInv
<1>6. \A t \in Task : CasefileFromInvocation(t)' = CasefileFromInvocation(t)
  BY <1>1 DEF CasefileFromInvocation, FirstWithCasefile
<1>7. IssueInv'
  BY <1>1 DEF IInv, IssueInv, IssuesGiven, NormalizedUpstream, Normalized
<1> QED BY <1>3, <1>4, <1>5, <1>6, <1>7

LEMMA DispatchKeeps ==
  ASSUME IInv, NEW t \in Task, Dispatch(t) PROVE IInv'
<1> USE DEF IInv
<1>1. UNCHANGED <<plan, out, answer, effects, stray>>
  BY DEF Dispatch
<1>2. /\ state[t] = "pending" /\ t \in plan.tasks /\ current.task = None
      /\ \A d \in DepsOf(plan, t) : state[d] = "completed"
  BY DEF Dispatch, Ready
<1>3. \/ /\ CasefileFromInvocation(t) = None /\ t \in CasefileAgents
         /\ state' = [state EXCEPT ![t] = "failed"] /\ current' = current
      \/ /\ t \in CasefileAgents => CasefileFromInvocation(t) # None
         /\ state' = [state EXCEPT ![t] = "running"]
         /\ current' = [task |-> t, attempt |-> 1, read |-> "none", wrote |-> "no"]
  BY DEF Dispatch, Attempt, Idle
<1>4. TypeInv'
  BY <1>1, <1>3 DEF TypeInv, States
<1>5. \A u \in plan.upstream[t] : u = t \/ state[u] = "completed"
  <2> SUFFICES ASSUME NEW u \in plan.upstream[t], u # t PROVE state[u] = "completed"
    OBVIOUS
  <2>1. PICK d \in DepsOf(plan, t) : d \in Task /\ u \in plan.upstream[d]
    BY DepsAreUpstream
  <2> QED BY <1>2, <2>1 DEF ProgressInv
<1>6. \A v \in Task : state'[v] # state[v] => v = t
  BY <1>3 DEF TypeInv
<1>7. ProgressInv'
  <2>1. \A v \in Task : state'[v] = "running" <=> current'.task = v
    BY <1>2, <1>3, TriageAssumption DEF TypeInv, ProgressInv
  <2>2. \A v \in Task : out[v] # None => v \in CasefileAgents /\ state'[v] \in {"completed", "held"}
    BY <1>2, <1>6 DEF ProgressInv
  <2>3. \A v \in Task : state'[v] # "pending" =>
          \A u \in plan.upstream[v] : u = v \/ state'[u] = "completed"
    <3> SUFFICES ASSUME NEW v \in Task, state'[v] # "pending",
                        NEW u \in plan.upstream[v], u # v
                 PROVE  state'[u] = "completed"
      OBVIOUS
    <3>1. u \in Task /\ state[u] = "completed"
      BY <1>5, <1>6, DepsAreUpstream DEF ProgressInv
    <3> QED BY <3>1, <1>2, <1>6
  <2>4. \A v \in CasefileAgents : current'.task = v => CasefileFromInvocation(v)' # None
    <3>1. \A v \in CasefileAgents : current'.task = v => v = t /\ CasefileFromInvocation(t) # None
      BY <1>2, <1>3, TriageAssumption DEF Task
    <3> QED BY <3>1, <1>1, CasefilesKept
  <2>5. \A v \in Task : current'.task = v => v \in plan.tasks
    BY <1>2, <1>3, TriageAssumption
  <2> QED BY <2>1, <2>2, <2>3, <2>4, <2>5, <1>1 DEF ProgressInv
<1>8. WriteInv'
  BY <1>1, <1>2, <1>3 DEF WriteInv
<1>9. SubmissionsAreReal'
  BY <1>1 DEF SubmissionsAreReal, Reported
<1> QED BY <1>1, <1>4, <1>7, <1>8, <1>9, CasefilesKept

\* An attempt that goes on: who runs, and on what, stays the same.
LEMMA GoingOn ==
  ASSUME IInv, UNCHANGED <<plan, state, out, answer>>, current'.task = current.task
  PROVE  ProgressInv'
<1>1. \A t \in CasefileAgents : current'.task = t => CasefileFromInvocation(t)' # None
  BY CasefilesKept DEF IInv, ProgressInv, Task
<1> QED BY <1>1 DEF IInv, ProgressInv

LEMMA ReadFileKeeps ==
  ASSUME IInv, NEW result \in {"present", "absent", "failed"}, ReadFile(result)
  PROVE  IInv'
<1> USE DEF IInv
<1>1. UNCHANGED <<plan, state, out, answer, effects, stray>>
  BY DEF ReadFile
<1>2. /\ current.task = "repo_analyst"
      /\ current' = [current EXCEPT !.read = result]
  BY DEF ReadFile
<1>3. TypeInv'
  BY <1>1, <1>2 DEF TypeInv
<1>4. current'.task = current.task /\ current'.wrote = current.wrote
      /\ current'.attempt = current.attempt
  BY <1>2 DEF TypeInv
<1>5. WriteInv' /\ SubmissionsAreReal'
  BY <1>1, <1>4 DEF WriteInv, SubmissionsAreReal, Reported
<1> QED BY <1>1, <1>3, <1>4, <1>5, GoingOn, CasefilesKept

LEMMA CallWriteToolKeeps ==
  ASSUME IInv, NEW heard \in BOOLEAN, CallWriteTool(heard)
  PROVE  IInv'
<1> USE DEF IInv
<1>1. UNCHANGED <<plan, state, out, answer, stray>>
  BY DEF CallWriteTool
<1>2. current' \in [task : Task \cup {None}, attempt : Nat,
                   read : {"none", "present", "absent", "failed"},
                   wrote : {"no", "yes", "lost", "held"}]
      /\ current'.task = current.task /\ current'.attempt = current.attempt
      /\ current'.read = current.read
  BY DEF CallWriteTool, TypeInv
<1>3. \/ /\ current.task \in plan.gated
         /\ effects' = effects \cup {<<current.task, current.attempt>>}
      \/ effects' = effects /\ current'.wrote = "held"
  BY DEF CallWriteTool, LetThrough, TypeInv
<1>4. WriteInv'
  BY <1>1, <1>2, <1>3 DEF WriteInv
<1>5. SubmissionsAreReal'
  BY <1>1, <1>3 DEF SubmissionsAreReal, Reported
<1>6. TypeInv'
  BY <1>1, <1>2 DEF TypeInv
<1> QED BY <1>1, <1>2, <1>4, <1>5, <1>6, GoingOn, CasefilesKept

LEMMA StrayWriteKeeps ==
  ASSUME IInv, NEW e \in stray, StrayWrite(e)
  PROVE  IInv'
<1> USE DEF IInv
<1>1. UNCHANGED <<plan, state, out, current, answer>>
  BY DEF StrayWrite
<1>2. TypeInv'
  BY <1>1 DEF TypeInv
<1>3. WriteInv' /\ SubmissionsAreReal'
  BY <1>1 DEF StrayWrite, WriteInv, SubmissionsAreReal, Reported
<1> QED BY <1>1, <1>2, <1>3, GoingOn, CasefilesKept
-----------------------------------------------------------------------------
(* The end of a task. *)

LEMMA EndKeepsProgress ==
  ASSUME IInv, NEW t \in Task, current.task = t,
         NEW verdict \in {"completed", "failed", "held"}, Ends(t, verdict), plan' = plan,
         \A u \in Task \ {t} : out'[u] = out[u],
         out'[t] # None => t \in CasefileAgents /\ verdict # "failed"
  PROVE  ProgressInv'
<1> USE DEF IInv
<1>1. state' = [state EXCEPT ![t] = verdict] /\ current'.task = None
  BY DEF Ends, Idle
<1>2. state[t] = "running" /\ t \in plan.tasks
  BY DEF ProgressInv
<1>3. state'[t] = verdict /\ \A u \in Task \ {t} : state'[u] = state[u]
  BY <1>1 DEF TypeInv
<1>4. \A u \in Task : state'[u] = "running" <=> current'.task = u
  BY <1>1, <1>3, TriageAssumption DEF ProgressInv
<1>5. \A u \in Task : out'[u] # None => u \in CasefileAgents /\ state'[u] \in {"completed", "held"}
  BY <1>3 DEF ProgressInv
<1>6. \A v \in Task : state'[v] # "pending" =>
        \A u \in plan.upstream[v] : u = v \/ state'[u] = "completed"
  <2> SUFFICES ASSUME NEW v \in Task, state'[v] # "pending", NEW u \in plan.upstream[v], u # v
               PROVE  state'[u] = "completed"
    OBVIOUS
  <2>1. u \in Task /\ state[u] = "completed"
    BY <1>2, <1>3, DepsAreUpstream DEF ProgressInv
  <2> QED BY <1>2, <1>3, <2>1
<1>7. \A u \in CasefileAgents : current'.task # u
  BY <1>1, TriageAssumption DEF Task
<1>8. \A u \in Task : out'[u] # None => u \in plan.tasks
  BY <1>2 DEF ProgressInv
<1> QED BY <1>1, <1>4, <1>5, <1>6, <1>7, <1>8, TriageAssumption DEF ProgressInv

LEMMA NoSectionKeeps ==
  ASSUME IInv, NoSection PROVE IInv'
<1> USE DEF IInv
<1>1. UNCHANGED <<plan, out, answer, effects, stray>>
  BY DEF NoSection
<1>2. current.task \in Task /\ Ends(current.task, "failed")
  BY DEF NoSection, Task
<1>3. TypeInv'
  BY <1>1, <1>2 DEF TypeInv, Ends, Idle, States
<1>4. out[current.task] = None
  BY <1>2 DEF ProgressInv
<1>5. ProgressInv'
  BY <1>1, <1>2, <1>4, EndKeepsProgress
<1>6. WriteInv' /\ SubmissionsAreReal'
  BY <1>1, <1>2 DEF Ends, Idle, WriteInv, SubmissionsAreReal, Reported
<1> QED BY <1>1, <1>3, <1>5, <1>6, CasefilesKept

LEMMA LoseAttemptKeeps ==
  ASSUME IInv, LoseAttempt PROVE IInv'
<1> USE DEF IInv
<1>1. UNCHANGED <<plan, out, answer, effects>> /\ current.task \in Task
  BY DEF LoseAttempt, TypeInv
<1>2. \A e \in effects \cup stray' : e[1] \in plan.gated
  BY DEF LoseAttempt, MayStillWrite, LetThrough, WriteInv
<1>3. SubmissionsAreReal'
  BY <1>1 DEF SubmissionsAreReal, Reported
<1>4. CASE current.attempt < MaxAttempts
  <2>1. /\ current' = [task |-> current.task, attempt |-> current.attempt + 1,
                       read |-> "none", wrote |-> "no"]
        /\ state' = state
    BY <1>4 DEF LoseAttempt, Attempt, Idle
  <2>2. TypeInv' /\ WriteInv'
    BY <1>1, <1>2, <2>1 DEF TypeInv, WriteInv
  <2> QED BY <1>1, <1>3, <2>1, <2>2, GoingOn, CasefilesKept
<1>5. CASE ~(current.attempt < MaxAttempts)
  <2>1. Ends(current.task, "failed")
    BY <1>5 DEF LoseAttempt
  <2>2. TypeInv' /\ WriteInv'
    BY <1>1, <1>2, <2>1 DEF Ends, Idle, TypeInv, States, WriteInv
  <2>3. out[current.task] = None
    BY <1>1 DEF ProgressInv
  <2>4. ProgressInv'
    BY <1>1, <2>1, <2>3, EndKeepsProgress
  <2> QED BY <1>1, <1>3, <2>2, <2>4, CasefilesKept
<1> QED BY <1>4, <1>5

\* A new artifact: the casefile that the task was given, with its own section.
Enriched(t, c, section) ==
  /\ c = CasefileFromInvocation(t) /\ c # None
  /\ section \in Produced(t, c)
  /\ out' = [out EXCEPT ![t] = [c EXCEPT ![Agents[t].section] = section]]
  /\ plan' = plan
  /\ Ends(t, IF current.wrote = "held" THEN "held" ELSE "completed")
  /\ answer' = IF t = "repo_analyst" THEN current.read ELSE answer
  /\ UNCHANGED <<effects, stray>>

LEMMA NewArtifact ==
  ASSUME IInv, NEW t \in CasefileAgents, NEW c, NEW section, Enriched(t, c, section)
  PROVE  /\ Casefile(c) /\ Casefile(out'[t])
         /\ out'[t][Agents[t].section] = section
         /\ \A f \in Fields \ {Agents[t].section} : out'[t][f] = c[f]
         /\ \A u \in Task \ {t} : out'[u] = out[u]
<1> USE DEF IInv
<1>0. t \in Task
  BY DEF Task
<1>1. c = CasefileFromInvocation(t) /\ c # None /\ section \in Produced(t, c)
  BY DEF Enriched
<1>2. out' = [out EXCEPT ![t] = [c EXCEPT ![Agents[t].section] = section]]
  BY DEF Enriched
<1>3. Casefile(c)
  BY <1>0, <1>1, WhereFrom, SeedsAreCasefiles DEF OutInv, TypeInv
<1>4. out'[t] = [c EXCEPT ![Agents[t].section] = section]
      /\ \A u \in Task \ {t} : out'[u] = out[u]
  BY <1>0, <1>2 DEF TypeInv
<1>5. Agents[t].section \in Fields \ {"source_issue"}
  BY OwnSections
<1>6. /\ out'[t] = [f \in Fields |-> out'[t][f]]
      /\ out'[t][Agents[t].section] = section
      /\ \A f \in Fields \ {Agents[t].section} : out'[t][f] = c[f]
  BY <1>3, <1>4, <1>5 DEF Casefile
<1>7. Casefile(out'[t])
  BY <1>3, <1>5, <1>6 DEF Casefile, Fields
<1> QED BY <1>3, <1>4, <1>6, <1>7

LEMMA EnrichedKeepsSources ==
  ASSUME IInv, NEW t \in CasefileAgents, current.task = t, NEW c, NEW section,
         Enriched(t, c, section)
  PROVE  SectionsComeFromUpstream'
<1> USE DEF IInv
<1>0. t \in Task /\ plan' = plan /\ Seeds' = Seeds /\ out[t] = None
  BY DEF Enriched, Task, Seeds, ProgressInv
<1>1. \A u \in Task : out[u] # None => out'[u] = out[u]
  BY <1>0, NewArtifact
<1> DEFINE From(u, v, s) ==
             \/ Seeds[v] # None /\ out'[u][s] = Seeds[v][s]
             \/ /\ v \in CasefileAgents /\ Agents[v].section = s
                /\ out'[v] # None /\ out'[u][s] = out'[v][s]
<1>2. ASSUME NEW u \in Task, out[u] # None, NEW s \in Sections, out'[u][s] # None
      PROVE  \E v \in plan.upstream[u] : From(u, v, s)
  <2>1. PICK v \in plan.upstream[u] :
          \/ Seeds[v] # None /\ out[u][s] = Seeds[v][s]
          \/ /\ v \in CasefileAgents /\ Agents[v].section = s
             /\ out[v] # None /\ out[u][s] = out[v][s]
    BY <1>1, <1>2 DEF SectionsComeFromUpstream
  <2>2. v \in Task
    BY DepsAreUpstream
  <2> QED BY <1>1, <1>2, <2>1, <2>2
<1>3. ASSUME NEW s \in Sections, out'[t] # None, out'[t][s] # None
      PROVE  \E v \in plan.upstream[t] : From(t, v, s)
  <2>0. t \in plan.upstream[t]
    BY <1>0, DepsAreUpstream
  <2>1. CASE s = Agents[t].section
    BY <1>3, <2>0, <2>1
  <2>2. CASE s # Agents[t].section
    <3>1. s \in Fields
      BY OwnSections DEF Sections
    <3>2. out'[t][s] = c[s]
      BY <2>2, <3>1, NewArtifact
    <3>3. CASE Seeds[t] # None /\ c = Seeds[t]
      BY <2>0, <3>2, <3>3
    <3>4. CASE \E d \in DepsOf(plan, t) : d \in Task /\ out[d] # None /\ c = out[d]
      <4>1. PICK d \in DepsOf(plan, t) : d \in Task /\ out[d] # None /\ c = out[d]
        BY <3>4
      <4>2. out'[t][s] = out'[d][s]
        BY <1>1, <3>2, <4>1
      <4>3. PICK v \in plan.upstream[d] : From(d, v, s)
        BY <1>2, <1>3, <4>1, <4>2
      <4>4. v \in plan.upstream[t]
        BY <1>0, <4>1, DepsAreUpstream
      <4> QED BY <4>2, <4>3, <4>4
    <3> QED BY <1>0, <3>3, <3>4, WhereFrom DEF Enriched
  <2> QED BY <2>1, <2>2
<1>4. ASSUME NEW u \in Task, out'[u] # None, NEW s \in Sections, out'[u][s] # None
      PROVE  \E v \in plan.upstream[u] : From(u, v, s)
  BY <1>2, <1>3, <1>4, NewArtifact
<1> QED BY <1>0, <1>4 DEF SectionsComeFromUpstream
LEMMA EnrichedKeepsChains ==
  ASSUME IInv, NEW t \in CasefileAgents, current.task = t, NEW c, NEW section,
         Enriched(t, c, section)
  PROVE  ChainsLoseNothing'
<1> USE DEF IInv
<1>0. t \in Task /\ plan' = plan /\ Seeds' = Seeds /\ out[t] = None /\ t \in plan.tasks
  BY DEF Enriched, Task, Seeds, ProgressInv
<1>1. \A u \in Task : out[u] # None => out'[u] = out[u]
  BY <1>0, NewArtifact
<1>2. SUFFICES ASSUME NoJoins
               PROVE  \A u \in Task : out'[u] # None =>
                        \A v \in plan.upstream[u] :
                          /\ v \in CasefileAgents /\ out'[v] # None
                          /\ out'[u][Agents[v].section] = out'[v][Agents[v].section]
  BY <1>0 DEF ChainsLoseNothing, NoJoins
<1>3. ASSUME NEW u \in Task, out[u] # None, NEW v \in plan.upstream[u]
      PROVE  /\ v \in CasefileAgents /\ out[v] # None
             /\ out[u][Agents[v].section] = out[v][Agents[v].section]
             /\ out'[v] = out[v] /\ out'[u] = out[u]
  BY <1>1, <1>2, <1>3, DepsAreUpstream DEF ChainsLoseNothing
<1>4. ASSUME out'[t] # None, NEW v \in plan.upstream[t], v # t
      PROVE  /\ v \in CasefileAgents /\ out'[v] # None
             /\ out'[t][Agents[v].section] = out'[v][Agents[v].section]
  <2>1. PICK e \in DepsOf(plan, t) : v \in plan.upstream[e]
    BY <1>0, <1>4, DepsAreUpstream
  <2>2. Seeds[t] = None /\ Len(plan.deps[t]) = 1 /\ DepsOf(plan, t) = {e}
    <3>1. plan.deps[t] \in Seq(Task)
      BY <1>0, PlanIsMission
    <3>2. PICK i \in DOMAIN plan.deps[t] : e = plan.deps[t][i]
      BY <2>1 DEF DepsOf
    <3>3. Len(plan.deps[t]) =< 1 /\ (Seeds[t] # None => plan.deps[t] = <<>>)
      BY <1>0, <1>2 DEF NoJoins
    <3>4. Len(plan.deps[t]) = 1 /\ i = 1 /\ DOMAIN plan.deps[t] = {1}
      <4>1. i \in 1 .. Len(plan.deps[t]) /\ DOMAIN plan.deps[t] = 1 .. Len(plan.deps[t])
            /\ Len(plan.deps[t]) \in Nat
        BY <3>1, <3>2
      <4>2. ASSUME NEW n \in Nat, n =< 1, NEW k \in 1 .. n PROVE n = 1 /\ k = 1
        BY <4>2
      <4>3. Len(plan.deps[t]) = 1 /\ i = 1
        BY <3>3, <4>1, <4>2
      <4>4. 1 .. 1 = {1}
        OBVIOUS
      <4> QED BY <4>1, <4>3, <4>4
    <3>5. DepsOf(plan, t) = {e}
      BY <3>2, <3>4 DEF DepsOf
    <3> QED BY <3>3, <3>4, <3>5
  <2>3. e \in Task /\ out[e] # None /\ c = out[e]
    BY <1>0, <2>2, WhereFrom DEF Enriched
  <2>4. /\ v \in CasefileAgents /\ out[v] # None /\ out'[v] = out[v]
        /\ out[e][Agents[v].section] = out[v][Agents[v].section]
    BY <1>3, <2>1, <2>3
  <2>5. Agents[v].section \in Fields \ {Agents[t].section}
    BY <1>4, <2>4, OwnSections
  <2> QED BY <2>3, <2>4, <2>5, NewArtifact
<1> QED
  BY <1>0, <1>3, <1>4, NewArtifact

-----------------------------------------------------------------------------
\* repo_analyst hands on what its read has answered.
LEMMA EnrichedKeepsReads ==
  ASSUME IInv, NEW t \in CasefileAgents, current.task = t, NEW c, NEW section,
         Enriched(t, c, section)
  PROVE  ReadInv'
<1> USE DEF IInv
<1>0. /\ section \in Produced(t, c) /\ Agents[t].section = SectionOf[t]
      /\ answer' = IF t = "repo_analyst" THEN current.read ELSE answer
      /\ t \in Task /\ "repo_analyst" \in Task
  BY SectionsByAgent, CasefileAgentNames DEF Enriched, Task
<1>1. /\ out'[t][SectionOf[t]] = section
      /\ \A u \in Task \ {t} : out'[u] = out[u]
      /\ Casefile(c)
  BY <1>0, NewArtifact
<1>2. CASE t = "repo_analyst"
  <2>1. section = [repository |-> ResolveRepository(c.source_issue),
                   file_exists |-> VerifyFileLocation(current.read)]
    BY <1>0, <1>2 DEF Produced, Baseline, Deciding
  <2>2. c.source_issue.repository \in BOOLEAN
    BY <1>1 DEF Casefile, Issue
  <2>3. VerifyFileLocation(current.read) \in {"none", "true", "false"}
    BY DEF TypeInv, VerifyFileLocation
  <2>4. section \in RepositoryEvidence /\ section.file_exists = VerifyFileLocation(answer')
    BY <1>0, <1>2, <2>1, <2>2, <2>3 DEF ResolveRepository, RepositoryEvidence
  <2> QED BY <1>1, <1>2, <2>4 DEF ReadInv, SectionOf
<1>3. CASE t # "repo_analyst"
  BY <1>0, <1>1, <1>3 DEF ReadInv
<1> QED BY <1>2, <1>3

\* The casefile that a task is given is about an issue upstream of it, and has that
\* issue's finding unless somebody upstream decided otherwise.
LEMMA GivenUpstream ==
  ASSUME IInv, NEW t \in Task, CasefileFromInvocation(t) # None
  PROVE  LET c == CasefileFromInvocation(t) IN
         /\ c.source_issue \in IssuesGiven(t)
         /\ NormalizedUpstream(t) => Normalized(c)
<1> DEFINE c == CasefileFromInvocation(t)
<1>1. CASE Seeds[t] # None /\ c = Seeds[t]
  <2>1. t \in plan.upstream[t]
    BY DepsAreUpstream DEF IInv
  <2> QED BY <1>1, <2>1 DEF IssuesGiven, NormalizedUpstream
<1>2. CASE \E d \in DepsOf(plan, t) : d \in Task /\ out[d] # None /\ c = out[d]
  <2>1. PICK d \in DepsOf(plan, t) : d \in Task /\ out[d] # None /\ c = out[d]
    BY <1>2
  <2>2. plan.upstream[d] \subseteq plan.upstream[t]
    BY <2>1, DepsAreUpstream DEF IInv
  <2>3. IssuesGiven(d) \subseteq IssuesGiven(t)
    BY <2>2 DEF IssuesGiven
  <2>4. NormalizedUpstream(t) => NormalizedUpstream(d)
    BY <2>2 DEF NormalizedUpstream
  <2> QED BY <2>1, <2>3, <2>4 DEF IInv, IssueInv
<1> QED BY <1>1, <1>2, WhereFrom DEF IInv

LEMMA EnrichedKeepsIssues ==
  ASSUME IInv, NEW t \in CasefileAgents, current.task = t, NEW c, NEW section,
         Enriched(t, c, section)
  PROVE  IssueInv'
<1>0. /\ t \in Task /\ plan' = plan /\ Seeds' = Seeds /\ out[t] = None
      /\ c = CasefileFromInvocation(t) /\ c # None
      /\ "ticket_analyst" \in CasefileAgents
  BY CasefileAgentNames DEF Enriched, Task, Seeds, IInv, ProgressInv
<1>1. \A u \in Task \ {t} : out'[u] = out[u]
  BY NewArtifact
<1>2. IssuesGiven(t)' = IssuesGiven(t)
  BY <1>0 DEF IssuesGiven
<1>3. out'[t].source_issue = c.source_issue
  BY NewArtifact, OwnSections DEF Fields
<1>4. ASSUME NormalizedUpstream(t)' PROVE Normalized(out'[t])
  <2>1. CASE t = "ticket_analyst"
    <3>1. t \in plan.upstream[t]
      BY <1>0, DepsAreUpstream DEF IInv
    <3> QED BY <1>0, <1>4, <2>1, <3>1 DEF NormalizedUpstream, Normalized
  <2>2. CASE t # "ticket_analyst"
    <3>1. NormalizedUpstream(t)
      BY <1>0, <1>1, <1>4, <2>2 DEF NormalizedUpstream, Normalized, Task
    <3>2. Normalized(c)
      BY <1>0, <3>1, GivenUpstream
    <3>3. Agents[t].section # "normalized_finding"
      BY <2>2, SectionsByAgent, CasefileAgentNames DEF SectionOf
    <3>4. out'[t].normalized_finding = c.normalized_finding
      BY <3>3, NewArtifact DEF Fields
    <3> QED BY <1>3, <3>2, <3>4 DEF Normalized
  <2> QED BY <2>1, <2>2
<1>5. ASSUME NEW u \in Task, u # t, out'[u] # None
      PROVE  /\ out'[u].source_issue \in IssuesGiven(u)'
             /\ NormalizedUpstream(u)' => Normalized(out'[u])
  <2>1. out[u] # None /\ out'[u] = out[u] /\ IssuesGiven(u)' = IssuesGiven(u)
    BY <1>0, <1>1, <1>5 DEF IssuesGiven
  <2>2. ASSUME NormalizedUpstream(u)' PROVE NormalizedUpstream(u)
    <3>1. ASSUME "ticket_analyst" \in plan.upstream[u]
          PROVE  out["ticket_analyst"] # None /\ Normalized(out["ticket_analyst"])
      <4>1. "ticket_analyst" # t
        BY <1>0, <1>5, <2>1, <3>1 DEF IInv, ProgressInv
      <4> QED BY <1>0, <1>1, <2>2, <3>1, <4>1 DEF NormalizedUpstream, Normalized, Task
    <3> QED BY <1>0, <2>2, <3>1 DEF NormalizedUpstream, Normalized
  <2> QED BY <2>1, <2>2 DEF IInv, IssueInv, Normalized
<1>6. out'[t].source_issue \in IssuesGiven(t)'
  BY <1>0, <1>2, <1>3, GivenUpstream
<1> QED BY <1>4, <1>5, <1>6 DEF IssueInv, Normalized

LEMMA EnrichedKeepsReports ==
  ASSUME IInv, NEW t \in CasefileAgents, current.task = t, NEW c, NEW section,
         Enriched(t, c, section)
  PROVE  SubmissionsAreReal'
<1> USE DEF IInv
<1>0. /\ section \in Produced(t, c) /\ Agents[t].section = SectionOf[t]
      /\ plan' = plan /\ effects' = effects /\ t \in Task
  BY SectionsByAgent DEF Enriched, Task
<1>1. out'[t][SectionOf[t]] = section /\ \A u \in Task \ {t} : out'[u] = out[u]
  BY <1>0, NewArtifact
<1>2. Done # 0 => <<t, Done>> \in effects
  BY DEF Done, WriteInv
<1>3. ASSUME Writes(t) PROVE Reported(t)' = Done
  <2>1. CASE t = "software_engineer"
    <3>1. section = ApplyRemediationChange(Done)
      BY <1>0, <2>1 DEF Produced, Baseline, Deciding
    <3> QED BY <1>1, <2>1, <3>1 DEF Reported, SectionOf, ApplyRemediationChange
  <2>2. CASE t = "submission_engineer"
    <3>1. section = Submit(Done)
      BY <1>0, <2>2 DEF Produced, Baseline, Deciding
    <3> QED BY <1>1, <2>2, <3>1 DEF Reported, SectionOf, Submit
  <2> QED BY <1>3, <2>1, <2>2, Writers
<1>4. ASSUME NEW u \in Task, Writes(u), out'[u] # None, Reported(u)' # 0
      PROVE  <<u, Reported(u)'>> \in effects'
  <2>1. CASE u = t
    BY <1>0, <1>2, <1>3, <1>4, <2>1
  <2>2. CASE u # t
    <3>1. out'[u] = out[u] /\ Reported(u)' = Reported(u)
      BY <1>1, <1>4, <2>2 DEF Reported
    <3> QED BY <1>0, <1>4, <3>1 DEF SubmissionsAreReal
  <2> QED BY <2>1, <2>2
<1>5. \A e \in effects' : e[1] \in plan'.gated
  BY <1>0 DEF SubmissionsAreReal
<1> QED BY <1>4, <1>5 DEF SubmissionsAreReal

LEMMA CompleteKeeps ==
  ASSUME IInv, Complete PROVE IInv'
<1> USE DEF IInv
<1> DEFINE t == current.task
           verdict == IF current.wrote = "held" THEN "held" ELSE "completed"
<1>1. /\ t \in Task /\ Ends(t, verdict) /\ verdict \in {"completed", "held"}
      /\ answer' = IF t = "repo_analyst" THEN current.read ELSE answer
      /\ UNCHANGED <<plan, effects, stray>>
  BY DEF Complete, TypeInv
<1>2. state' \in [Task -> States] /\ current' = Idle
  BY <1>1 DEF Ends, TypeInv, States
<1>3. WriteInv'
  BY <1>1, <1>2 DEF WriteInv, Idle
<1>4. CASE t \in CasefileAgents
  <2>1. CasefileFromInvocation(t) # None
    BY <1>4 DEF ProgressInv
  <2>2. PICK section : Enriched(t, CasefileFromInvocation(t), section)
    BY <1>1, <1>4, <2>1 DEF Complete, OutWith, WithSection, Enriched
  <2> DEFINE c == CasefileFromInvocation(t)
  <2>3. /\ Casefile(out'[t])
        /\ \A u \in Task \ {t} : out'[u] = out[u]
    BY <1>4, <2>2, NewArtifact
  <2>4. OutInv'
    BY <1>1, <2>3 DEF OutInv
  <2>5. ProgressInv'
    BY <1>1, <1>4, <2>3, EndKeepsProgress
  <2>6. TypeInv'
    <3>1. out' = [u \in Task |-> out'[u]]
      BY <2>2, <1>1 DEF Enriched, TypeInv
    <3> QED BY <1>1, <1>2, <3>1 DEF TypeInv, Idle
  <2>7. SectionsComeFromUpstream' /\ ChainsLoseNothing' /\ IssueInv' /\ ReadInv'
        /\ SubmissionsAreReal'
    <3> HIDE DEF c, IInv
    <3> QED
      BY <1>4, <2>2, EnrichedKeepsSources, EnrichedKeepsChains, EnrichedKeepsIssues, EnrichedKeepsReads,
         EnrichedKeepsReports
  <2> QED BY <1>3, <2>4, <2>5, <2>6, <2>7
<1>5. CASE t \notin CasefileAgents
  <2>1. out' = out
    BY <1>5 DEF Complete
  <2>2. answer' = answer
    BY <1>1, <1>5, CasefileAgentNames
  <2>3. out[t] = None
    BY <1>1, <1>5 DEF ProgressInv
  <2>4. ProgressInv'
    BY <1>1, <2>1, <2>3, EndKeepsProgress
  <2>5. TypeInv'
    BY <1>1, <1>2, <2>1, <2>2 DEF TypeInv, Idle
  <2>6. SubmissionsAreReal'
    BY <1>1, <2>1 DEF SubmissionsAreReal, Reported
  <2> QED BY <1>1, <1>3, <2>1, <2>2, <2>4, <2>5, <2>6, CasefilesKept
<1> QED BY <1>4, <1>5

LEMMA StutterKeeps ==
  ASSUME IInv, UNCHANGED vars PROVE IInv'
<1> USE DEF IInv, vars
<1>1. TypeInv' /\ WriteInv' /\ SubmissionsAreReal'
  BY DEF TypeInv, WriteInv, SubmissionsAreReal, Reported
<1> QED BY <1>1, GoingOn, CasefilesKept

\* The invariant is one: it holds at the start and every step keeps it.
THEOREM TriageInvariance == Spec => []IInv
<1>1. IInv /\ [Next]_vars => IInv'
  <2> SUFFICES ASSUME IInv, [Next]_vars PROVE IInv'
    OBVIOUS
  <2>1. ASSUME NEW t \in Task, Dispatch(t) PROVE IInv'
    BY <2>1, DispatchKeeps
  <2>2. ASSUME NEW result \in {"present", "absent", "failed"}, ReadFile(result) PROVE IInv'
    BY <2>2, ReadFileKeeps
  <2>3. ASSUME NEW heard \in BOOLEAN, CallWriteTool(heard) PROVE IInv'
    BY <2>3, CallWriteToolKeeps
  <2>4. ASSUME NEW e \in stray, StrayWrite(e) PROVE IInv'
    BY <2>4, StrayWriteKeeps
  <2> QED
    BY <2>1, <2>2, <2>3, <2>4, CompleteKeeps, NoSectionKeeps, LoseAttemptKeeps, StutterKeeps
    DEF Next
<1> QED BY <1>1, InitTriage, PTL DEF Spec
-----------------------------------------------------------------------------
(* What the invariant says of judgments. *)

\* A section of an artifact upstream is settled: its task has completed.
LEMMA UpstreamSettled ==
  ASSUME IInv, NEW t \in Task, out[t] # None, NEW u \in plan.upstream[t], u # t
  PROVE  state[u] = "completed"
BY DEF IInv, ProgressInv

\* qa_lead's verdict, if it is the tool's, is about sections with a source upstream.
LEMMA ReadyByInvariant ==
  ASSUME IInv PROVE ReadyIsEarned
<1> USE DEF IInv
<1> DEFINE c == out["qa_lead"]
           upstream == plan.upstream["qa_lead"]
<1> SUFFICES ASSUME Adopted("qa_lead"), c.readiness.ready,
                    NEW a \in {"security_reviewer", "risk_auditor"}
             PROVE  LET s == Agents[a].section IN
                    \/ a \in upstream /\ state[a] = "completed" /\ out[a] # None /\ c[s] = out[a][s]
                    \/ \E u \in upstream : Seeds[u] # None /\ Seeds[u][s] # None /\ c[s] = Seeds[u][s]
  BY DEF ReadyIsEarned
<1>0. /\ {"qa_lead", "security_reviewer", "risk_auditor"} \subseteq CasefileAgents
      /\ "qa_lead" \in Task /\ Agents["qa_lead"].section = "readiness"
  BY CasefileAgentNames, SectionsByAgent DEF Task, SectionOf
<1>1. c # None /\ Blocking(c) = {}
  <2>1. c # None /\ c.readiness = AssessReadiness(c)
    BY <1>0 DEF Adopted, Baseline
  <2>2. AssessReadiness(c).ready <=> Blocking(c) = {}
    BY DEF AssessReadiness
  <2> QED BY <2>1, <2>2
<1> DEFINE s == Agents[a].section
<1>2. s \in {"adjudication", "risk"} /\ s \in Sections
  BY <1>0, SectionsByAgent, OwnSections DEF SectionOf
<1>3. c[s] # None
  BY <1>1, <1>2 DEF Blocking
<1> HIDE DEF s
<1>4. PICK u \in upstream :
        \/ Seeds[u] # None /\ c[s] = Seeds[u][s]
        \/ /\ u \in CasefileAgents /\ Agents[u].section = s
           /\ out[u] # None /\ c[s] = out[u][s]
  BY <1>0, <1>1, <1>2, <1>3 DEF SectionsComeFromUpstream
<1>5. CASE Seeds[u] # None /\ c[s] = Seeds[u][s]
  BY <1>3, <1>5 DEF s
<1>6. CASE ~(Seeds[u] # None /\ c[s] = Seeds[u][s])
  <2>1. u = a
    BY <1>0, <1>4, <1>6, OwnSections DEF s
  <2>2. state[a] = "completed"
    <3>1. a # "qa_lead" OBVIOUS
    <3> QED BY <1>0, <1>1, <1>4, <2>1, <3>1, UpstreamSettled
  <2> QED BY <1>4, <1>6, <2>1, <2>2 DEF s
<1> QED BY <1>5, <1>6

\* The signals that the reviewer may adopt are those of a finding and its evidence.
LEMMA SignalsAdopted ==
  ASSUME Adopted("security_reviewer")
  PROVE  LET c == out["security_reviewer"] IN
         /\ c # None
         /\ c.adjudication = AdjudicationSignals(c.normalized_finding, c.repository_evidence)
<1>1. Agents["security_reviewer"].section = "adjudication"
  BY CasefileAgentNames, SectionsByAgent DEF SectionOf
<1> QED BY <1>1 DEF Adopted, Baseline, OfFinding

\* The evidence that the reviewer judges is that of the read, or a casefile's given.
LEMMA StaleByInvariant ==
  ASSUME IInv PROVE StaleReflectsTheRead
<1> USE DEF IInv
<1> DEFINE c == out["security_reviewer"]
           e == c.repository_evidence
           upstream == plan.upstream["security_reviewer"]
           Given(u) == Seeds[u] # None /\ Seeds[u].repository_evidence # None
                       /\ Seeds[u].repository_evidence.file_exists = "false"
<1>1. SUFFICES ASSUME Adopted("security_reviewer")
               PROVE  /\ c.adjudication.stale =>
                           \/ "repo_analyst" \in upstream /\ answer \in {"absent", "failed"}
                           \/ \E u \in upstream : Given(u)
                      /\ "repo_analyst" \in upstream /\ NoJoins
                           /\ answer = "absent" /\ c.normalized_finding.file_path
                         => c.adjudication.stale
  BY DEF StaleReflectsTheRead
<1>0. {"repo_analyst", "security_reviewer"} \subseteq CasefileAgents
      /\ "security_reviewer" \in Task /\ "repo_analyst" \in Task
  BY CasefileAgentNames DEF Task
<1>2. /\ c # None
      /\ c.adjudication.stale <=>
           (c.normalized_finding.file_path /\ e # None /\ e.file_exists = "false")
  <2>1. c # None /\ c.adjudication = AdjudicationSignals(c.normalized_finding, e)
    BY <1>1, SignalsAdopted
  <2>2. AdjudicationSignals(c.normalized_finding, e).stale <=> Stale(c.normalized_finding, e)
    BY DEF AdjudicationSignals
  <2> QED BY <2>1, <2>2 DEF Stale
<1>3. Agents["repo_analyst"].section = "repository_evidence"
      /\ "repository_evidence" \in Sections
  BY <1>0, SectionsByAgent, OwnSections DEF SectionOf
<1>4. out["repo_analyst"] # None =>
        LET r == out["repo_analyst"].repository_evidence IN
        r # None /\ r.file_exists = VerifyFileLocation(answer)
  BY TriageAssumption DEF ReadInv
<1>5. ASSUME c.adjudication.stale
      PROVE  \/ "repo_analyst" \in upstream /\ answer \in {"absent", "failed"}
             \/ \E u \in upstream : Given(u)
  <2>1. e # None /\ e.file_exists = "false"
    BY <1>2, <1>5
  <2>2. PICK u \in upstream :
          \/ Seeds[u] # None /\ e = Seeds[u].repository_evidence
          \/ /\ u \in CasefileAgents /\ Agents[u].section = "repository_evidence"
             /\ out[u] # None /\ e = out[u].repository_evidence
    BY <1>0, <1>2, <1>3, <2>1 DEF SectionsComeFromUpstream
  <2>3. CASE Seeds[u] # None /\ e = Seeds[u].repository_evidence
    BY <2>1, <2>2, <2>3
  <2>4. CASE ~(Seeds[u] # None /\ e = Seeds[u].repository_evidence)
    <3>1. u = "repo_analyst"
      BY <1>0, <1>3, <2>2, <2>4, OwnSections
    <3>2. VerifyFileLocation(answer) = "false"
      BY <1>4, <2>1, <2>2, <2>4, <3>1
    <3>3. answer \in {"absent", "failed"}
      BY <3>2 DEF TypeInv, VerifyFileLocation
    <3> QED BY <2>2, <3>1, <3>3
  <2> QED BY <2>3, <2>4
<1>6. ASSUME "repo_analyst" \in upstream, NoJoins, answer = "absent",
             c.normalized_finding.file_path
      PROVE  c.adjudication.stale
  <2>1. out["repo_analyst"] # None /\ e = out["repo_analyst"].repository_evidence
    BY <1>0, <1>2, <1>3, <1>6 DEF ChainsLoseNothing
  <2>2. e # None /\ e.file_exists = "false"
    BY <1>4, <1>6, <2>1 DEF VerifyFileLocation
  <2> QED BY <1>2, <1>6, <2>2
<1> QED BY <1>5, <1>6

\* Two signals, of ten hundredths each, reach a half.
LEMMA SignalsByInvariant ==
  ASSUME IInv PROVE TwoSignalsAreNoFalsePositive
<1> DEFINE c == out["security_reviewer"]
           f == NormalizeSourceIssue(c.source_issue)
           signals == Signals(c.source_issue)
<1>1. SUFFICES ASSUME Adopted("security_reviewer"), NormalizedUpstream("security_reviewer"),
                      signals >= 20
               PROVE  ~c.adjudication.false_positive
  BY DEF TwoSignalsAreNoFalsePositive
<1>0. Normalized(c)
  BY <1>1, CasefileAgentNames, SignalsAdopted DEF IInv, IssueInv, Task
<1>2. c.adjudication.false_positive <=> f.confidence < 50
  <2>1. c.adjudication = AdjudicationSignals(f, c.repository_evidence)
    BY <1>0, <1>1, SignalsAdopted DEF Normalized
  <2>2. AdjudicationSignals(f, c.repository_evidence).false_positive <=> f.confidence < 50
    BY DEF AdjudicationSignals
  <2> QED BY <2>1, <2>2
<1>3. f.confidence = LET score == 35 + signals + (IF f.cwe THEN 5 ELSE 0) IN
                     IF score > 95 THEN 95 ELSE Summed(score)
  BY DEF Signals, NormalizeSourceIssue, ConfidenceFor, Placed, Tenth
<1>4. signals \in {0, 10, 20, 30, 40, 50, 60}
  BY DEF Signals, Tenth
<1> HIDE DEF signals, f
<1>5. ~(f.confidence < 50)
  BY <1>1, <1>3, <1>4 DEF Summed
<1> QED BY <1>2, <1>5

\* An issue that mentions a serious severity anywhere, and states none, has one.
LEMMA SeriousFirst ==
  ASSUME NEW issue, Occurs("critical", issue) \/ Occurs("high", issue)
  PROVE  FirstMatch(SEVERITIES, issue) \in {"critical", "high"}
<1> DEFINE hits == {i \in DOMAIN SEVERITIES : Occurs(SEVERITIES[i][1], issue)}
           first == CHOOSE i \in hits : \A j \in hits : i =< j
<1>1. DOMAIN SEVERITIES = 1 .. 7 /\ SEVERITIES[1] = <<"critical", "critical">>
      /\ SEVERITIES[2] = <<"high", "high">>
  BY DEF SEVERITIES
<1>2. hits \subseteq 1 .. 7
  BY <1>1
<1>3. 1 \in hits \/ 2 \in hits
  BY <1>1
<1> HIDE DEF hits
<1>4. \E i \in hits : \A j \in hits : i =< j
  BY <1>2, <1>3
<1>5. first \in hits /\ \A j \in hits : first =< j
  BY <1>4
<1>6. FirstMatch(SEVERITIES, issue) = SEVERITIES[first][2]
  BY <1>3 DEF FirstMatch, hits
<1> HIDE DEF first
<1>7. first \in {1, 2}
  BY <1>2, <1>3, <1>5
<1> QED BY <1>1, <1>6, <1>7

LEMMA HarmlessByInvariant ==
  ASSUME IInv PROVE EligibleIsHarmless
<1> DEFINE c == out["risk_auditor"]
           f == c.normalized_finding
           stated == c.source_issue.payload["severity"]
<1>1. SUFFICES ASSUME Adopted("risk_auditor"), c.risk.automation_eligible
               PROVE  /\ f.category = "dependency"
                      /\ NormalizedUpstream("risk_auditor") =>
                           /\ c.source_issue \in IssuesGiven("risk_auditor")
                           /\ ~StatesSerious(c.source_issue)
  BY DEF EligibleIsHarmless
<1>2. Agents["risk_auditor"].section = "risk"
  BY CasefileAgentNames, SectionsByAgent DEF SectionOf
<1>3. c.risk = ScoreSeverity(f)
  BY <1>1, <1>2 DEF Adopted, Baseline, OfFinding
<1>4. Normalized(c) =>
        f.severity = Lower(IF stated = None THEN FirstMatch(SEVERITIES, c.source_issue) ELSE stated)
  BY DEF Normalized, NormalizeSourceIssue, InferSeverity, FromPayload
<1> HIDE DEF f
<1>5. f.category = "dependency" /\ Lower(f.severity) \notin {"critical", "high"}
  <2> DEFINE severity == Lower(f.severity)
             risk == IF severity \in DOMAIN SEVERITY_TO_RISK THEN SEVERITY_TO_RISK[severity]
                     ELSE "medium"
  <2>1. ScoreSeverity(f).automation_eligible <=>
          (risk \in {"low", "medium"} /\ f.category = "dependency")
    BY DEF ScoreSeverity
  <2>2. risk \in {"low", "medium"} /\ f.category = "dependency"
    BY <1>1, <1>3, <2>1
  <2> HIDE DEF severity
  <2>3. severity \notin {"critical", "high"}
    BY <2>2 DEF SEVERITY_TO_RISK
  <2> QED BY <2>2, <2>3 DEF severity
<1>6. \A word \in {"critical", "high"} : Lower(word) = word
  BY DEF Lower, LowerCase
<1>7. f.severity \notin {"critical", "high"}
  BY <1>5, <1>6
<1>8. ASSUME Normalized(c) PROVE ~StatesSerious(c.source_issue)
  <2>1. CASE stated # None
    BY <1>4, <1>7, <1>8, <2>1 DEF StatesSerious
  <2>2. CASE stated = None
    <3>1. FirstMatch(SEVERITIES, c.source_issue) \notin {"critical", "high"}
      BY <1>4, <1>6, <1>7, <1>8, <2>2
    <3> QED BY <2>2, <3>1, SeriousFirst DEF StatesSerious
  <2> QED BY <2>1, <2>2
<1>9. ASSUME NormalizedUpstream("risk_auditor")
      PROVE  Normalized(c) /\ c.source_issue \in IssuesGiven("risk_auditor")
  BY <1>1, <1>9, CasefileAgentNames DEF Adopted, IInv, IssueInv, Task
<1> QED BY <1>5, <1>8, <1>9

-----------------------------------------------------------------------------
(* The theorems. *)

\* No section of a casefile is made up, newer than what was handed on, or written
\* into a casefile after it was, whatever the shape of the plan.
THEOREM SectionsHaveSources == Spec => []SectionsComeFromUpstream
BY TriageInvariance, PTL DEF IInv

\* Without joins no work of an agent upstream is lost on the way.
THEOREM WorkIsHandedOn == Spec => []ChainsLoseNothing
BY TriageInvariance, PTL DEF IInv

\* If the tool's verdict "ready" is adopted, the finding was judged and scored, by tasks
\* upstream or in a casefile given to one, also where branches join.
THEOREM ReadinessIsEarned == Spec => []ReadyIsEarned
BY TriageInvariance, ReadyByInvariant, PTL

\* If its signals are adopted, stale means that no read upstream has found the file, or
\* that a casefile given said so; and without joins an absent file is stale.
THEOREM StalenessFollowsReads == Spec => []StaleReflectsTheRead
BY TriageInvariance, StaleByInvariant, PTL

\* If its signals are adopted, and nobody has changed the finding, none that its issue
\* tells two things about is a false positive.
THEOREM TellingIssuesStay == Spec => []TwoSignalsAreNoFalsePositive
BY TriageInvariance, SignalsByInvariant, PTL

\* If its score is adopted, what may be automated is a dependency, whose issue states
\* nothing serious if nobody has changed the finding.
THEOREM AutomationIsHarmless == Spec => []EligibleIsHarmless
BY TriageInvariance, HarmlessByInvariant, PTL

\* What is reported as written was approved and written.
THEOREM ReportsAreReal == Spec => []SubmissionsAreReal
BY TriageInvariance, PTL DEF IInv

=============================================================================
