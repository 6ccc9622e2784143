# A formal model of ado-swarm

ado-swarm runs security-triage missions. A Temporal workflow, the supervisor, obtains a plan,
validates it and executes its tasks in dependency order; every task is a child workflow whose
one activity runs a model-driven agent; tasks that write to the outside world are held until a
human approves them. On the way from task to task a casefile collects what the agents found out
about an issue, and decisions are taken on it. The modules here state what that machinery must
guarantee, check it on small instances with TLC, and prove most of it for all instances with TLAPS.

Paths below are relative to the repository; `supervisor.py:47` is
`src/ado_swarm/workflows/supervisor.py`, line 47, and so on for the other files of the package.

## 1. The system and its parts

| Component | State it keeps | Operations | Talks to |
|---|---|---|---|
| Supervisor workflow, `workflows/supervisor.py` | `paused`, `cancel_requested`, `replan_requested`, `approvals`, the snapshot; in `run`: pending and completed tasks, artifacts per task | `run`; signals pause, resume, cancel; updates approve_task, reject_task, request_replan; query snapshot | planner activity, child workflows, operators |
| Plan validation, `domain/plan_validation.py` | the marks of a depth-first search | `validate_plan` | called by the supervisor inside the workflow |
| Planner, `activities/planning.py`, `runtime/graph_templates.py` | none beyond a call | `plan_mission`, `execution_order`, `build_plan_from_template` | source provider, supervisor |
| Agent task workflow and activity, `workflows/agent_task.py`, `activities/run_agent.py`, `temporal/policies.py` | Temporal's: attempt, what it knows of it | execute_activity with timeout and retries | agent, supervisor |
| Tool policy gate, `tools/policy.py`, `tools/policy_hook.py` | calls held back | `check`, the BeforeToolCall hook | agent, tools |
| Agents, `agents/` | one model run, or a swarm of runs under a budget; what each declares: section, tools, writes | model calls, tool calls, producing a section | model gateway, gate, tool catalog |
| Ticket normalization, `agents/ticket_analyst/normalization.py` | none | from an issue's text and payload to a finding with a confidence | casefile, ticket analyst |
| Casefile, `contracts/casefile.py`, `agents/casefile_utils.py` | the sections written so far | built from an issue, taken from constraints or artifacts, enriched, handed on | agents |
| Source providers, `tools/source_providers/` | an HTTP client | reads, listings, comments, draft pull requests | GitHub, Azure DevOps |
| Tool catalog, `tools/catalog/` | none | deterministic functions on a casefile | providers, sandbox |
| Model gateway, `model_gateway/` | a fake model's script and its index | build a model; stream a turn, forced or not | the Strands event loop, model APIs |
| Sandbox, `sandbox/` | a directory per session | create, run an allowlisted command with a timeout | tool catalog |
| Storage, `storage/` | connection pools per database, tables, migration ledger | get/set/close pools, appends, migrations | Postgres |
| Knowledge, `knowledge/` | a list, or none: a Graphiti client per call | add, search | Neo4j |
| API, command line, workers, configuration, telemetry, skills, evals | nothing of the running system | send one signal, update or query each; start-up; test harness | supervisor |

What is hard about it:

* **Interleaving.** Signals and updates run between any two awaits of the supervisor's coroutine,
  before it has started and while tasks run. Two attempts of one activity can run at once, since
  an attempt that has timed out is not told. Coroutines of one worker share pools. Two
  deployments can migrate one database.
* **Failure.** Activities, children, provider requests and migrations fail half way; answers are
  lost after the work was done; workers die.
* **Ordering and staleness.** Approvals arrive before their gate, after a cancel, for unknown
  tasks; a batch is computed once and used while the flags change; the migration ledger is read
  once; continuation tokens and page numbers refer to earlier answers; a task that joins two branches
  takes the casefile of one; forced calls of a scripted model come between those the script is for.
* **Numbers.** Retry-After may be anything; a page may be short; a budget is compared before a
  step of unknown size; a confidence is a sum of binary fractions compared with one half.
* **Termination.** Cyclic plans and templates, runs that wait for humans, agents that never end, a model
  that asks for tools for ever.

`PROJECT.json` lists every such hazard at its line, with the property that would catch it.

What makes each component correct:

* Supervisor: gated tasks run only on a decision about them and never after a cancel; tasks start
  after their dependencies, once, with what those produced; "completed" means all of it; once a
  plan is adopted, a cancel ends the run and nothing but a human holds it up.
* Plan validation: accepts exactly the plans whose execution cannot get stuck, and ends.
* Planner: builds plans that validation accepts and that mean what the template says.
* Agent task and gate: no unapproved write in any attempt; what was held back is reported; a
  swarm answers only after all its runs, each begun within the budget; the task ends.
* Casefile and decisions: a section is what its agent upstream made of it, and chains lose none;
  ready, stale, false positive and eligible, if taken over from the tools, rest on what they should; a
  reported change was approved and made.
* Providers: one call mutates at most once; waits are bounded; listings are complete.
* Scripted model: plays its script in order, tells tool uses apart, and always comes to an output.
* Migrations: the ledger tells the truth about the schema at every moment; a file is applied again only
  by a deployment that overlaps.
* Pools: a store gets a pool of its database, and no closing one but its own; nobody opens a second one
  who could have found the first.

## 2. The modules

| Module | What it is |
|---|---|
| `MissionPlan` | plans, their validity, results of tasks: shared by the supervisor and plan modules |
| `Mission` | abstract specification: what a run promises |
| `Supervisor`, `SupervisorProperties` | the workflow; its properties, its invariant, and its mapping to `Mission` |
| `PlanValidation` | `validate_plan` as a search with an explicit call stack |
| `Planning` | the activity that turns a template into a plan |
| `PlanDelivery` | the two composed: the planner's plan, or any other, before the validator |
| `AgentTask` | workflow, activity, attempts, agent, gate and swarm of one task |
| `Normalization` | how an issue becomes a finding and a casefile |
| `Catalog` | what the agents declare, and the deterministic tools that decide |
| `Triage` | the casefile on its way through a plan, with the two above and attempts that are lost, repeated or late |
| `ModelStream` | the scripted model, and the event loop that calls it |
| `ProviderCall` | one method of a provider as a sequence of HTTP requests with retries |
| `Listing` | the paginated methods |
| `PagedListing` | the two composed: each page a request with its own retries |
| `Migrations` | concurrent, failing migration runners |
| `Pool` | connection pools and the stores on top of them |
| `MCSupervisor`, `MCPlanDelivery`, `MCAgentTask`, `MCTriage`, `MCModelStream`, `MCPagedListing`, `MCMigrations`, `MCPool` | the instances TLC checks; some also hold a statement the code does not keep |
| `AgentTaskClaims` | a statement of the documentation about `AgentTask` that the code does not keep |
| `SupervisorProofs`, `PlanDeliveryProofs`, `AgentTaskProofs`, `TriageProofs`, `ModelStreamProofs`, `PagedListingProofs`, `MigrationsProofs`, `PoolProofs` | theorems of the module they are named after; `PlanDeliveryProofs` and `PagedListingProofs` also have those of the two parts of the composition |

How they fit together. The supervisor takes its plan from `Planning` through the test that
`PlanValidation` models, and `PlanDelivery` is that composition. `Supervisor` adopts a delivered plan iff
`ValidPlan` of it, `PlanValidation` shows that `validate_plan` decides exactly `ValidPlan`, and `Planning`
that what the planner builds satisfies it, so the state `stuck` of the supervisor is not reached with
this planner; that is `OwnPlansPass` of the composition, a theorem for every template. The supervisor's child workflow is an `AgentTask`: `Supervisor` lets a child return
any member of `Result` or fail, and `AgentTask`'s type invariant says that it returns a member of
`Result` if it returns. `Triage` is the two once more, with their control reduced to what a casefile can
tell apart (one task at a time, attempts, the gate, stop at a failure or a held call) and the data
that they leave out: sections and the tools that make them, from `Catalog` and `Normalization`. The tool
uses that `AgentTask` lets a model ask for are, in offline runs, those of `ModelStream`. The requests of
`Planning` are those of `ProviderCall`; those of `Listing` are composed with it in `PagedListing`.
`Migrations` and `Pool` are below all of this and share no state with it.

Convention: a definition that nothing uses and that stands directly before another with the same
parameters is a *mutation* of it, a plausible slip in the code it models. With the mutation in its
place TLC finds the property in the table violated; so each property depends on the code it is about.

| Property | Definition | Mutation: the slip |
|---|---|---|
| `GatedTasksAreApproved` | `GateReleased` | `ReleasedByAnyDecision`: the gate looks at any task's decision |
| `DependenciesHandedOver`, `ImplementsMission` | `RunnableTasks` | `AnyDependencyCompleted`: some instead of all |
| `NeverUnresolved` | `ValidPlan` | `CyclesUnchecked` |
| `OneTaskInFlight` | `StatesAfter` | `StateKeptOnFailure`: state set only on success |
| `CompletedMeansAllDone` | `Failed` | `FailureIgnored` |
| `EachTaskDispatchedOnce` | `PendingAfter` | `NothingPopped`: the task stays pending |
| `HeldRunStartsNoBatch` | `LoopVerdict` | `ReplanIgnored` |
| `NoGatedDispatchAfterCancel` | `GateVerdict` | `DecisionBeforeCancel`: tested in the other order |
| `CancelEndsRun` | `LoopReleased` | `ReleasedByResumeOnly` |
| `OnlyHumansHoldTheRun` | `GateReleased` | `ReleasedByApproverOnly`: a rejection does not wake the gate |
| `AcceptedPlansAreValid` | `Visit` | `VisitUnmarked`: visited on entry |
| `RefusalsAreReal` | `Marks` | `OneMark`: a finished task stays marked as being visited |
| `PlansAreValid` | `RunnableNodes` | `AnyResolved` |
| `PlanMatchesTemplate` | `TaskOf` | `Ungated` |
| `RefusedIffUnresolvable` | `CompletedWith` | `NothingCompleted` |
| `PlansAreJudged` | `Unresolved` | `NeverRefused` |
| `NothingUnapproved` | `NeedsApproval` | `WritesUngated` |
| `SilenceMeansExecuted` | `HeldSoFar` | `HeldLast`: only the last turn's |
| `ExhaustedSwarmStops` | `BudgetExceeded` | `JudgeUnchecked`: the budget is not looked at before the judge |
| `TaskEnds` | `Expires` | `NeverExpires`: no start-to-close timeout |
| `SectionsComeFromUpstream` | `OutWith` | `OutUncopied`: the agent writes into the casefile it was given |
| `ChainsLoseNothing` | `WithSection` | `Rebuilt`: the section goes into a casefile made anew from the issue |
| `ReadyIsEarned` | `Blocking` | `BlockingUnjudged`: the adjudication is forgotten |
| `StaleReflectsTheRead` | `Stale` | `UnlessSeen`: not true instead of false |
| `TwoSignalsAreNoFalsePositive` | `Placed` | `PlacedTwice`: file path and package in place of either |
| `EligibleIsHarmless` | `SEVERITIES` | `SeveritiesUpwards`: the least marker first |
| `SubmissionsAreReal` | `Done` | `DoneIfAsked`: a held or unanswered call counts as done |
| `ScriptInOrder` | `IndexAfterForced` | `IndexAfterAny`: forced calls consume steps |
| `IdsTellTurnsApart` | `DeterministicToolUseId` | `IdOfName`: the index is not in the seed |
| `RunsProduceOutput` | `NextStep` | `LastStepAgain`: the last step is repeated for ever |
| `WaitsAreBounded` | `RetryAfterSeconds` | `FlooredOnly` |
| `MutatesAtMostOnce` | `Retried` | `RetriedToo`: transport errors are retried |
| `ListsFirstItems` | `NextToken` | `AfterAsked`: the token is taken for what was asked |
| `LedgerIsTruthful` | `Uncommitted` | `Autocommitted`: SQL outside the transaction |
| `AppliedInOrder` | `NextMigration` | `LastMigration` |
| `AppliedAgainOnlyTogether` | `PendingMigrations` | `AllMigrations`: the ledger is not looked at |
| `ReturnedMeansApplied` | `Raised` | `Swallowed` |
| `OnlyStoresKeepClosedPools` | `Forgotten` | `ForgottenLater`: closed before forgotten |
| `OverwrittenOnlyByEarlierCallers` | `Known` | `HeldOnly`: the cache is not looked at |

### Supervisor

Temporal runs a workflow on one event loop, so a coroutine is interrupted at awaits only. `run` is
cut at its awaits: `scheduled` (not begun), `planning` (line 31), `loop` (the pause condition, line
47), `gate` (the approval condition, line 74), `child` (line 102), and the ends `returned`, `raised`
and `stuck`. The code between two awaits is one action, so the body of the `for` loop from
a child's result through the next task's gate or dispatch, or the end of the batch, or the end of
the run, is one step `ChildReturns`. Handlers are actions `Pause` to `RequestReplan`, possible while
the workflow is open. Instance attributes, locals and snapshot fields are variables under their
own names, except that the snapshot's map of approvals is `shown_approvals`, and `dispatched`,
`approved_context` and `input_refs` record which children were started and with what.

Approvals are texts in the code; all it does with one is to test whether there is one and whether
it starts with `rejected:`. So a decision is none, approved or rejected, and an operator who approves
with a text that begins like a rejection is an `ApproveTask` with the decision `rejected`, which does
not set `cancel_requested`.

Three states deserve a remark. When a child *fails* (its attempts are used up), the exception leaves
`run` and the snapshot goes on showing the task as RUNNING; `OneTaskInFlight` admits that state
explicitly. An *invalid plan* raises a plain ValueError inside the workflow, which Temporal takes for a
failure of the workflow task: it is retried for ever, and nothing but a termination ends the run; this
is `stuck`, which counts as an end nowhere: `CancelEndsRun` and `OnlyHumansHoldTheRun` are about runs
that have adopted a plan, and `PlanDelivery` shows that the planner of the package leads to no other. An *empty plan* completes at once, also if the run was paused or cancelled while planning.

### PlanValidation, Planning, PlanDelivery

`visit` recurses; its call stack is `path`, and `rest` is what is left of the loop over `depends_on` in
each active call. The order in which dependencies are visited is left open.
`Planning` runs `execution_order` round by round, then `build_plan_from_template` node by node;
`keyToTask` is `key_to_task_id`, where 0 stands for a missing key (a KeyError in the code), which
`TypeOK` excludes. What a node says about its agent is copied and left out. The activity always reads
issue `SEC-1`; GitHub's `get_issue` rejects that id, so with that provider every attempt fails
(`read_failed`).
In `PlanDelivery` the supervisor awaits the one and then calls the other; it also delivers every plan of
a small set, as another planner behind the same activity might.

### AgentTask

The server's side is `attempt`, `activity` and `result`; the workers' side is `agent`, a record for each
attempt, so that an attempt the server has given up can go on next to its successor. A worker
may die (`Vanish`), an answer of an old attempt is ignored (`Report`), and a timeout may pass with the
agent still working (`Timeout`). `ModelCall` is one turn: the model asks for any set of tools
and the gate lets them run, refuses them or holds them back. Tools are told apart as the policy does:
listed read tools, listed write tools, and all others. The swarm runs its reviewers and the judge one
after another in one attempt and looks at the budget before each. So it may go past the budget within a
run (`OvershootIsOneRun`); what it may not
do is to begin another run then, or to answer without one that it could not make (`ExhaustedSwarmStops`). The analyst builds a tool context
of its own and is a kind of its own for that reason.

A write that happened in an attempt that then timed out happens again in the next one:
`idempotency_key` is set on every task and nothing decides by it. This is a property of at-least-once
activities, stated nowhere as excluded, and the model shows it as two attempts with `write` in `used`.

### Normalization, Catalog, Triage

An issue's text is the set of its words (title, body, labels and payload): all that the code does with it is
to look whether a marker occurs somewhere in it, also inside another word, so a word stands for itself and the
markers it contains (`Inside`), and a table of markers is searched in its order. The regular expressions
for CWE, package and file path are attributes of the text: whether they match. Confidence is computed in
hundredths; the one sum that binary fractions put on the other side of one half is 0.35 + 0.1 + 0.05
(`Summed`), one signal and a CWE. No property says what should become of that one.

`Catalog` has the sections of a casefile, with the fields that something decides on
(`contracts/casefile.py`); and it has the declarations (`section`, `tools`, `writes` of each agent class; `CATALOG`, the table of
`get_tools`) and the tools, one operator each, named after the Python function.

`Triage` runs a plan. `Dispatch` is the supervisor's choice of a ready task and the activity's first step,
`casefile_from_invocation`: constraints first (`Seeds`: a casefile, or an issue to build one from; any casefile, also one with a
judgment in it), then the first artifact of a dependency that is a casefile; an agent without one fails. `ReadFile`, `CallWriteTool`
are the tools that touch the world, `Complete` ends an attempt with a section (`Produced`) and a copy of the
casefile as artifact, `NoSection` is the agent whose model made none. `LoseAttempt` is a crash, an
exception or a timeout: the next attempt begins from the same casefile, and an attempt that had not called
its write tool yet may still do that (`stray`, `StrayWrite`). Write tools answer, or do their work and the
answer is lost. `plan.upstream`, the transitive closure of the dependencies, is part of the constant
`Missions` and constrained by an assumption, so that no definition needs recursion.
What becomes the section is the model's structured output. The prompts of six agents leave it to the
model (`Deciding`): they name a tool for the baseline and ask the model to decide, and
`adjudication_signals` says "adopt or override". These produce the `Baseline` of their tools or any of
`Decisions`, a constant that the proofs leave arbitrary. repo_analyst and the two agents that write are
told to report what their tools returned, and are modelled as doing that; that a model goes against such
a prompt is left out. Within a baseline too a choice that a prompt leaves (whether a remediation needs a
human, which verification command ran and how it ended) is left open, and the tools that touch the world
a model may call or not.
So what the judgments rest on can be said where the tools' answer was adopted (`Adopted`), and
what depends on the finding where nobody upstream has decided on another one (`NormalizedUpstream`). Everything
else in the casefile may then be a decision or given. `StaleReflectsTheRead` asks nothing of a finding
whose read failed, and `TwoSignalsAreNoFalsePositive` nothing of one with fewer signals: there the code
does what a skill advises against, see below.

### ModelStream

`FakeModel.stream` yields events; the event loop consumes one at a time (`Yield`) and acts on a whole turn
(`Conclude`): tools that are asked for run and the model is called again, an end without output makes
the loop force the output tool, and the run ends when that has been called. `StreamStep` is an ordinary
call: the next step of the script, or past its end the default text. `StreamForcedStructuredOutput`
resolves an instance (responder, then mapping, then synthesis from the annotations of the required
fields); what a caller prepared, as responder or in the mapping, may be of another model, and then it
raises. Left out is that the output model of a forced call is not found and the call is
answered like an ordinary one (`strands_models.py:289-291`): the loop registers the output tool before it forces it. Runs of a swarm share a model and its index. The loop is external: modelled from how
`agents/model_runtime.py` uses it.

### ProviderCall, Listing, PagedListing

A call is the sequence of requests its method makes, each a read or a write, and the environment
answers, rate-limits, fails before or after carrying it out, or stays silent. Only a 429 is retried.
`applied` counts the writes carried out. External assumption: a provider that answers 429 has not
looked at the request. A Retry-After of `nan` (which `float` accepts) is not modelled.
`Listing` collects pages; GitHub's pages are numbered and sized by the client, Azure's are at most a
page and continue after a token. An Azure page that is empty and yet has a token ends the listing
in the code and is assumed not to occur.
In `PagedListing` the loop asks for a page (`AskPage`), which then is a call of `ProviderCall` with retries of
its own (`Request`), and takes it (`TakePage`) or gives up with it (`GiveUp`).

### Migrations, Pool

A migration file's SQL and its ledger row are one transaction; `INSERT ... ON CONFLICT DO NOTHING` makes
a second runner wait for the first one's commit and then do nothing, while its SQL runs again: that is
why the SQL must be idempotent. `AppliedAgainOnlyTogether` counts per runner: none applies a file twice,
and two do only if both were at work (`Working`) at some moment, which `together` records. Files are numbered in the
order of their names, and a later release only appends. The checksum column is written and never
compared, and left out.
`Pool` splits `get_pool` at its await. Coroutines that overlap in it are what the stores are open to, and
not yet what a worker does: `run_agent` appends the checkpoints of a result, and no agent returns any.
`asked` records how many pools there were when a caller looked for one. `set_pool` and `close_pools` have no caller in the package; they
are actions of `Spec` and not of `WorkerSpec`, which is what a worker process does today. A store
keeps the pool it got and hands it out also when `close_pools` has closed it (`Known`);
`OnlyStoresKeepClosedPools` says that this is the only way to a closed pool.

## 3. The runs

All bounds are in the `.cfg` files or the `MC` modules. Deadlock checking is off throughout:
in every module the modelled activity ends (a run has returned, a call has its outcome, a listing or a
plan is complete) and nothing remains to be done; `Pool` stops when `MaxPools` have been made; only
`Migrations` goes on for ever. That nothing stops *early* is what the liveness properties say.

| Run | What it asks | Bounds, and why they are enough |
|---|---|---|
| `supervisor` | five invariants, three action properties, the refinement of `Mission` and two liveness properties, under every interleaving of operators (136 583 states) | 3 tasks in 9 plans: a chain with a gated end, a batch of two with a join, two gated tasks in one batch, a plan whose order is not its dependency order, a single task with two ids it does not have, no task, a cycle, an unknown dependency, a duplicate. Three tasks are the least with a batch before and after another; all signals may be repeated without bound |
| `plan` | plans are valid and what the template says, refusals are exact, verdicts are exact, and there always is one (28 658 states) | planner: the registered template of 7 nodes, every relation over 3 agents in an order that differs from most of them, all lists of at most 3 nodes over 2 ids. Validator: what these yield, and every relation over 3 tasks with 4 lists of ids: cycles of length 1, 2 and 3, shared dependencies, missing and duplicate ids |
| `agent_task` | gate, held calls, exhausted budget, termination (1 895 847 states) | two attempts (enough to overlap), two reviewers and a judge, budget 4, up to 2 tool turns per model run; 10 tasks over all kinds, approved or not, high risk or not, with and without casefile |
| `triage` | where sections come from, what the judgments mean, what was written (42 715 states) | two attempts; the planner's pipeline for issues with and without repository and file, a pipeline of eight with engineer and lead, with and without approvals, two joins of two branches (both orders), an entry without casefile, alone and joined; casefiles given at the entry, in the middle and to one branch, with a plan, with judgments, without a finding; for five of the agents that decide, one decision against the tools; 84 issues over words, words inside words, payload, patterns, body and labels: from none to all of the six signals, severities in words, in the payload, in both, in none, several at once |
| `model_stream` | script order, ids, output (44 601 states) | every script of at most 3 steps out of 5 (text, one tool, two, the same twice, a given id), for one run or a swarm of three runs, each responder and each mapping, right and wrong ones; every output model; `MaxCalls` 6 is not reached: a run makes at most two calls more than the script has steps (`TypeOK`, proved for every script) |
| `provider` | one mutation at most; bounded waits; complete listings over retries (137 307 states) | the code's retry limit 3, delays 1 and 30; headers missing, unparsable, negative, zero, short, too long; every method. Pages of 3, 0 to 8 items, limits 0 to 9: nothing, part of a page, full pages, several and a part |
| `migrations` | truthful ledger, order, repetition only in overlaps (1 875 states) | two runners with releases of 2 and 3 files, failing and restarting without bound |
| `pool` | which pools are overwritten, who goes on with closed ones (1 700 598 states) | two callers, three stores of two databases, 3 pools in all: one for each database and one that replaces another |
| `cancelled_is_cancelled`, `held_calls_surface`, `pages_add_up`, `absent_means_absent` | the findings below | as for the runs of the same modules, and a plan of one task; the smallest counterexamples have one task, one swarm, two pages, one failed read |

### Findings

* `cancelled_is_cancelled`: `tests/workflow/test_supervisor_workflow.py:254` says of a run of one task,
  cancelled while the task runs, that "a cancel signal drives the run to RunStatus.CANCELLED" (asserted in
  line 295). The loop looks at the flag at its head only, and after the last task it is not entered again
  (`supervisor.py:46-49`, `121`): the run returns COMPLETED. `CancelEndsRun` says only that it *ends*.
* `held_calls_surface`: ADR-0009 says that a held call surfaces as `requires_approval`. The swarm path
  (`agents/security_reviewer/main.py:149-159`) builds its result without it.
* `pages_add_up`: GitHub's last page is asked for with a smaller size and the number that counts
  pages of the full size (`github.py:85-89`, `130-132`), so items are repeated and others skipped unless
  the limit is a multiple of the page size. `ListsFirstItems` states the condition under which it works.
* `absent_means_absent`: `skills/code-location-verification/SKILL.md:35` says that `file_exists` is never coerced
  from unknown to false. `verify_file_location_impl` (`tools/catalog/repository.py:36-42`) answers false for every
  exception, and the finding becomes stale and already fixed (`adjudication.py:15-17`).

Disagreements between texts and code that the models show and that no run is kept for:

* "One pool per distinct database URL" (`storage/pool.py:15`): `get_pool` does not look again after its await
  (`pool.py:28-31`), so two first calls that overlap would open two pools, and the one stored first is lost.
  Latent, since nothing calls the stores concurrently today. `OverwrittenOnlyByEarlierCallers` and
  `PoolsPerUrlBounded` say how far it goes.
* `skills/false-positive-evidence-review/SKILL.md:47-48` does not take low confidence for a proof of a false
  positive; `adjudication_signals` does (`tools/catalog/adjudication.py:16`) when an issue tells too little.
  The reviewer's model may override it. `TwoSignalsAreNoFalsePositive` says when it does not come to that.
* The reason given with a cancel is overwritten by "cancel requested" (`supervisor.py:50`, `81`).
* A pause during planning is honoured but shown as RUNNING (`supervisor.py:41`).
* ADR-0009 says that write and high-risk tools need an approved context. `data_analyst` (`main.py:53`) builds its
  context without the risk level, so its one tool, a read, runs on a high-risk task that nobody approved.
* `docs/architecture.md` has the casefile handed from task to task; where branches join, the task continues
  the first of them and the sections of the other are not in what it hands on
  (`agents/casefile_utils.py:19-22`). `ChainsLoseNothing` says where nothing is lost, `ReadyIsEarned` that at least
  readiness is not claimed then. The planner's pipeline has no join.
* A severity that no table knows counts as medium (`tools/catalog/risk.py:31`), which is eligible for
  automation, where the skill on automation eligibility has every uncertainty default to not eligible.
  `EligibleIsHarmless` speaks of stated severities.
* Four skills say that the harness sets `final_disposition` of a casefile; nothing does.
* No agent lists `graphiti_add_episode`, so no mission stores what a later `graphiti_search` could recall.
* Two calls of one tool in one scripted step get the same generated id (`strands_models.py:205-207`);
  `IdsTellTurnsApart` allows for it.
* An exhausted swarm budget raises `BudgetExceededError`, which `temporal/policies.py:18` does not list among
  the errors that are not retried: the swarm runs again from the start, with a budget of its own.
* The planner always reads `SEC-1` (`activities/planning.py:63`).
* The checksum of a migration is stored and never compared (`storage/migrations.py:109`).
* A store goes on using its pool after `close_pools` has closed it (`storage/checkpoints.py:19`).
* A task result that requires approval ends the run (`supervisor.py:111-114`), where
  `docs/implementation-plan-2026-06.md:237` describes a task parked for an update.
* The swarm's docstring (`swarm_cell.py:68-70`) promises to fail fast when a step *would* exceed the budget,
  and ADR-0009 (line 20) calls the budget a hard one; the code compares before a run of several calls
  (`swarm_cell.py:80`, `107`), so a swarm can answer after more calls than its budget has.
  `OvershootIsOneRun` says by how much, `ExhaustedSwarmStops` what still holds.

## 4. Fairness

* `Supervisor`: weak fairness of `Workflow`, the steps of the coroutine together. Temporal delivers every
  activity and child result, possibly a failure, and wakes the coroutine when its condition holds.
  No fairness for operators: they may stay silent for ever, so the properties speak of runs that are
  cancelled, or not held by a human.
* `AgentTask`: weak fairness of `Pickup` (workers poll the queue) and of `Timeout` (Temporal's timers
  fire), and none of agents: a model may hang, which is why the timeout matters. Nothing in the code
  bounds the time in the queue (there is no schedule-to-start timeout), so polling workers are an assumption.
* `PlanDelivery`: weak fairness of the whole: sequential code that runs to its end; the one await of the
  planner is a request with a timeout, and the server delivers what an activity returns.
* `ModelStream`: weak fairness of the whole: a run is one coroutine, and the scripted model awaits nothing.
* `Triage`, `PagedListing`, `Migrations`, `Pool` have no liveness properties and no fairness: `TaskEnds` and the
  supervisor's say that tasks and runs end, and nothing in the last two has to end.

## 5. What is proved

Each theorem holds for every value of the constants that satisfies the module's assumption; these say
what the constants range over (`PlansAssumption`, `PlansOverTasks`, `PlanningAssumption`,
`DeliveryAssumption`, `AgentTaskAssumption`, `TriageAssumption`, `ModelStreamAssumption`,
`ProviderCallAssumption`, `ListingAssumption`, `MigrationsAssumption`, `PoolAssumption` with finitely many
callers, and for `ProviderCall` also that delays double to a number,
`BackoffAssumption`), and TLC evaluates them on the instances. In
particular plans, templates, scripts and lists may be of any length, issues may say anything, models of
agents that decide may decide anything, casefiles of any content may be given to any task, and tasks, attempts,
reviewers, runs, runners, callers, stores and retries may be any number. Every proof goes by one inductive
invariant; its parts are next to the properties of the module or at the head of the proofs. Type
correctness is a part of it everywhere and proved, not run: `TypeCorrect` in each module (`PlannerTypeCorrect`
and `ListingTypeCorrect` for the parts of a composition), `TypeInv` in `TriageProofs`.

* `SupervisorProofs`. `InductiveInvariant`: types; `PlanShape` (pending and completed divide the adopted,
  valid plan); `LoopShape` (what `run` has in hand at each await: in a batch, the current task and those
  left are pending and have their dependencies complete); `StateShape`; and the properties. None of the
  properties is inductive alone: `DependenciesHandedOver` needs to know that what the batch still holds was
  runnable when the batch was computed and stays so, `NeverUnresolved` needs that the plan is valid and that
  pending tasks, a non-empty set at `loop`, have a member that depends on nothing pending
  (acyclicity). From it: `TypeCorrect`, `GateSafety`, `DependencySafety`, `ValidatedPlansResolve`, `SingleFlight`,
  `CompletionIsSound`, the action properties `UniqueChildren`, `HeldRunsStartNothingNew`,
  `CancelClosesTheGate`, and `Refinement`: the workflow implements `Mission`. `RunIsFinite` is below.
* `PlanDeliveryProofs`. For the validator, `SearchInvariant`: the stack is a simple path (`PathShape`), active
  calls have visited or will visit their dependencies (`RestShape`), the visited tasks are closed under
  dependency and acyclic (`VisitedShape`), none is forgotten. A back edge closes a cycle along the path; a task
  that is left is added to an acyclic closed set. From it `Soundness`, `Completeness`, and in `TypeCorrect` the
  bound of the recursion depth by the number of tasks.
  For the planner, `PlanningInvariant`: the order lists each node once and after what it depends on, a key's
  task is of a node of that id, tasks match. From it `PlansInOrder`, `PlannerNeverRefused` (a plan in order is
  acyclic: the least task of any set depends on none of it), `PlanIsTemplate`, `RefusalsAreExact`.
  For the composition, `DeliveryInvariant`: up to the delivery the planner's invariant holds and the search has
  not begun; after it the search has its own invariant, and if the plan is this planner's it is still
  `Delivered`, what was built. From it what the two promise holds in the composition too
  (`DeliveredPlansAreValid`, `DeliveryRefusalsAreReal`, `DeliveredPlanIsTemplate`), and what neither can say alone:
  `PlannersPlansPass`. A refusal names a fault of the plan, and the plan that was built has none.
* `AgentTaskProofs`. `TaskInvariant`: what each attempt used and was refused is the gate's image of what it
  asked for, and the returned result is that of the attempt waited for. From it `ApprovalSafety`,
  `SilenceIsExecution`, `ExhaustionStops`, `SwarmBudget` (`OvershootIsOneRun`), `AttemptsBounded`. `DecisionsStand` (`ServerGoesForward`): an attempt that was
  given up, or one that answers twice, changes neither the attempt that is awaited nor the result.
* `TriageProofs`. `IInv`: who runs is in flight and all upstream of a task that has begun have completed
  (`ProgressInv`), which is why no artifact upstream changes any more; an artifact is a casefile
  (`OutInv`), about an issue that came in upstream and, where nobody upstream decided otherwise, with the finding
  that this issue gives (`IssueInv`); the evidence of repo_analyst is that of its read (`ReadInv`);
  what has written was let through (`WriteInv`). `SectionsHaveSources` and `WorkIsHandedOn` go along the
  dependencies: a new artifact is that of a dependency, or a seed, with one section more, and no two
  agents share a section. `ReadinessIsEarned`: the sections that an adopted verdict needs are there, and by the
  first of these two theorems each was given or is the work of its agent, which has completed because it is upstream.
  `StalenessFollowsReads` likewise for the evidence. `TellingIssuesStay` is arithmetic over six
  signals of ten hundredths, `AutomationIsHarmless` that the first marker found is the most serious, both on top
  of `IssueInv`. `ReportsAreReal` goes over lost answers and late writes. Nothing is used of `Decisions` but
  that they have the type of the agent's section.
* `ModelStreamProofs`. `StreamInvariant`: what was heard of a turn is the beginning of the step the turn is made
  of, and what is left to yield its end (`StreamShape`, by arithmetic on the three events of each tool use); the
  index is the number of calls that were not forced, over all runs (`CallsShape`); a generated id carries the
  index its turn began with, which goes up by one with each call that is not forced, and the call before a forced
  one left no id (`IdsShape`). From it `ScriptIsPlayed`, `IdsDiffer` and, in `TypeCorrect`, the number of calls.
  The last is why no run asks for tools for ever: after the script comes a text, after the text the forced call.
  `OnlyPreparedRaise` (an exception is over an answer that the caller prepared, by responder or mapping) rests
  on `EveryModelIsMade`, that every output model of the package can be synthesized
  field by field, and so breaks when an output model gets a field of a type that the synthesis does not know.
* `PagedListingProofs`. For `ProviderCall`, `AtMostOneMutation` and `BoundedWaits`; for `Listing`, `ListingComplete`, along: what was
  collected is the beginning of the list and the next request continues it. For the composition the two
  invariants hold together, since a step of the one that the other does not see leaves its variables alone:
  `MethodsMutateAtMostOnce`, `MethodsWaitBounded`, `RetriedListingsComplete`.
* `MigrationsProofs` (`LedgerCorrect`, `PrefixApplied`, `ReturnIsSound`, along: the ledger is a first part of the files
  and what a runner has pending is a last part of its release; `AppliedOnce`, along `Overlap`: a file that a
  runner has still before it was applied, if at all, by a runner with which it is or was at work).
* `PoolProofs`. `PoolInvariant`: types; the cache has no pool that is closing or closed (`CachedPoolsStayOpen`); what
  is cached and what a store keeps serve the database asked for; whoever waits for a new pool finds in the cache
  none that was there when it asked. From it `DatabasesKeptApart`, `LateStoresHadAsked` and the action property
  `NoClosingPool`: a pool handed out is the store's own, the cached one, or new.
  `FewPools` is about the callers alone (`WorkerSpec`): a worker never opens more of them than it has coroutines, because whoever opens one
  had asked before there was any (`CreationShape`: the pools of a database and the coroutines that are opening one
  are together no more than the coroutines).

Four theorems prove what is in the liveness properties apart from fairness: no step is taken in vain.

* `RunIsFinite` (`RunGoesForward`): each step of the supervisor's coroutine completes one more task of the plan, or
  comes nearer to the dispatch of the current one, or ends the run; and no signal or update moves the
  coroutine. So a run has a bounded number of steps, whatever operators do, and only waiting can keep it open.
* `DeliveryComesToAnEnd` (`DeliveryEnds`): each step of the planner orders a node, builds a task or goes to the next
  stage; each step of the search leaves a task, takes a dependency from the loop over it, or enters a task.
  That holds for cyclic templates and plans as well.
* `RunsComeToAnEnd` (`StreamEnds`): each step of the scripted model and its loop decreases, lexicographically, the
  runs left, the turns left of the run, and the events left of the turn.
* `DecisionsStand`: the server goes from an attempt to the next, of which there are only so many, and otherwise
  towards the end of the current one.

These statements, `OwnPlansPass`, `OnlyPreparedAnswersRaise`, `PoolsServeTheirUrl`, `PoolsPerUrlBounded`,
`OvershootIsOneRun` and `AttemptsHonoured` are proved and not run: each is a consequence that the theorems make, and the runs are kept for what also has to be tested
against slips in the code.

Only model-checked: the five liveness properties (`CancelEndsRun`, `OnlyHumansHoldTheRun`, `PlansAreJudged`, `TaskEnds`,
`RunsProduceOutput`). Beyond the above they need that the next step is possible whenever it is needed and that fairness
lets it happen; that is ENABLED, which the provers do not have. Every invariant and every action property that a
run checks, and the refinement, are theorems, but for the four statements of the findings, which are false.

## 6. Not modelled

* Contents of sections, prompts, comments, plans: payloads nothing here branches on. What the models of
  agents that decide put into their sections is arbitrary in `Triage`; that repo_analyst or an agent that writes reports
  something else than its tools returned, against its prompt, is not.
* Of the tool catalog: grep, manifest and history of a file, provider reads, the findings summary, the
  knowledge tools. They answer with text or lists that are shown to a model, and change nothing.
* Knowledge store: a list, or a Graphiti client that each call builds and closes; every error becomes an
  empty answer, and nothing decides on an answer.
* Model adapters of real providers: classes of Strands; the gateway only chooses one and passes settings.
  Token counts and costs are collected and reported, and only the number of calls is ever compared (`AgentTask`).
* Sandbox files and cleanup: nothing reads the one, nothing calls the other.
* API and command line: each endpoint or command is an operator action of `Supervisor`, or writes files from
  templates. Workers, configuration, telemetry, skills loader: start-up code and texts.
* Stub provider, evals, swarm experiment: test harness and one pure check without a caller.
* Checkpoints, artifacts and events in tables: inserted with fresh ids, read by nothing; all agents return no
  checkpoints.
* Temporal itself: replay, timers and delivery are assumed, in the form stated under Fairness.

## 7. Where to go on

What is left of the system is listed above, with the reason why a model of it would say nothing. Of what is
modelled, two things could be joined further:

1. `Supervisor` with a full `AgentTask` as its child, instead of the set of results that its theorems justify:
   a cancel of the run while an attempt hangs is two modules away now. The product of the two is large
   (the second alone has two million states), so it would first need a smaller abstract agent task.
2. `Triage` under the planner's plans for every template, instead of the assumption that `plan.upstream` is closed;
   `PlanValidation` shows that an accepted plan is acyclic, so the closure exists.
