------------------------------- MODULE ModelStream -------------------------------
(***************************************************************************)
(* The deterministic model behind the agents' offline runs, FakeModel        *)
(* (model_gateway/strands_models.py), and the event loop of Strands that     *)
(* calls it, which is external.  A run of an agent (agents/model_runtime.py) *)
(* calls the model until it has the run's output: the loop executes the      *)
(* tools that a turn asks for and calls again; a turn that ends without      *)
(* output makes it force the output tool.  The runs of a swarm share their   *)
(* model, one after the other.  Texts, tool inputs and token counts are left *)
(* out, and what the tools do is in AgentTask.                              *)
(*                                                                         *)
(* As in Supervisor, an unused definition directly before another with the  *)
(* same parameters is a mutation of it.                                     *)
(***************************************************************************)
EXTENDS Integers, Sequences

CONSTANTS
  Scenarios,  \* models, and the runs that are made with each
  MaxCalls,   \* bound: model calls of a run
  None

-----------------------------------------------------------------------------
(* Output models: the annotations of their required fields. *)

Of(kind) == [kind |-> kind, of |-> <<>>]

OutputModels ==
  [NormalizedFinding |-> <<Of("str"), Of("str")>>,
   RepositoryEvidence |-> <<>>,
   FindingAdjudication |-> <<Of("str")>>,
   RiskClassification |-> <<Of("enum"), Of("str"), Of("bool"), Of("str")>>,
   RemediationPlan |-> <<Of("str"), Of("str"), Of("list")>>,
   ValidationResult |-> <<>>, ExecutionResult |-> <<>>, ReadinessVerdict |-> <<>>,
   SubmissionResult |-> <<>>, CampaignReport |-> <<>>,
   \* those of tests/unit/test_strands_models.py
   NestedModel |-> <<Of("bool")>>,
   Finding |-> <<Of("str"), Of("int"), Of("float"), Of("enum"), Of("list"),
                 [kind |-> "model", of |-> <<"NestedModel">>], Of("datetime")>>]

Zeros == {"enum", "bool", "int", "float", "str", "bytes", "datetime", "date", "list", "dict"}

\* The kind of the value made up for an annotation that is no model; None if there
\* is none, which no annotation allows.
SynthesizeValue(kind) == IF kind \in Zeros THEN kind ELSE None

\* Whether a model can be made: its fields are, and those of the models in it.
SynthesizeModel[model \in DOMAIN OutputModels] ==
  \A i \in DOMAIN OutputModels[model] :
    LET annotation == OutputModels[model][i] IN
    IF annotation.kind = "model" THEN SynthesizeModel[annotation.of[1]]
    ELSE SynthesizeValue(annotation.kind) = annotation.kind

-----------------------------------------------------------------------------
Providers == {"fake", "ollama", "openai", "openai_compatible", "litellm", "bedrock"}

Step == [calls : Seq([name : STRING, id : STRING \cup {None}])]  \* none: a text

\* What a test prepares as an answer: nothing, an instance of the output model, or one
\* of another model.
Prepared == {"none", "exact", "wrong"}

Scenario ==
  [provider : STRING,
   script : Seq(Step),
   responder : Prepared,                          \* structured_responder
   mapped : [DOMAIN OutputModels -> Prepared],    \* structured_outputs
   runs : Seq(DOMAIN OutputModels)]

ASSUME ModelStreamAssumption ==
  /\ Scenarios \subseteq Scenario
  /\ \A s \in Scenarios : s.runs # <<>>
  /\ MaxCalls \in Nat \ {0}

VARIABLES
  scenario,
  run,         \* the one of scenario.runs that is made
  phase,       \* "build", "call", "stream", "done", "raised"
  forced,      \* the loop has forced the output tool
  step_index,
  stream,      \* what the model has still to yield
  heard,       \* what the loop has taken from the turn so far
  played,      \* the turns heard in answer to calls that were not forced
  ids,         \* tool uses of the run, with the turn each was in
  turns        \* turns of this run

vars == <<scenario, run, phase, forced, step_index, stream, heard, played, ids, turns>>

\* The tools that the turn asks for, and why it stops.
NothingHeard == [tools |-> <<>>, reason |-> None]

Init ==
  /\ scenario \in Scenarios
  /\ run = 1 /\ phase = "build" /\ forced = FALSE
  /\ step_index = 0 /\ stream = <<>> /\ heard = NothingHeard /\ played = <<>>
  /\ ids = <<>> /\ turns = 0

OutputModel == scenario.runs[run]

\* build_strands_model; the models of other providers are not modelled.
BuildStrandsModel ==
  /\ phase = "build"
  /\ phase' = IF scenario.provider = "fake" THEN "call"
              ELSE IF scenario.provider \in Providers THEN "elsewhere" ELSE "raised"
  /\ UNCHANGED <<scenario, run, forced, step_index, stream, heard, played, ids, turns>>

-----------------------------------------------------------------------------
(* The model: stream, with the events of a turn as a sequence. *)

Event(kind, of) == [kind |-> kind, of |-> of]

ToolUse(name, id) ==
  <<Event("contentBlockStart", <<name, id>>), Event("contentBlockDelta", <<>>),
    Event("contentBlockStop", <<>>)>>
Text ==
  <<Event("contentBlockStart", <<>>), Event("contentBlockDelta", <<>>),
    Event("contentBlockStop", <<>>)>>

Turn(blocks, reason) ==
  <<Event("messageStart", <<>>)>> \o blocks
    \o <<Event("messageStop", <<reason>>), Event("metadata", <<>>)>>

\* Everything after uuid5, which keeps different seeds apart.
IdOfName(index, name) == [seed |-> name]
DeterministicToolUseId(index, name) == [seed |-> <<index, name>>]

DefaultStep == [calls |-> <<>>]

\* The step of a call, and the index after it; past the end of the script it is
\* the default answer, and without a script nothing is counted.
LastStepAgain ==
  LET n == Len(scenario.script) IN
  IF n = 0 THEN DefaultStep ELSE scenario.script[IF step_index < n THEN step_index + 1 ELSE n]
NextStep ==
  IF step_index < Len(scenario.script) THEN scenario.script[step_index + 1] ELSE DefaultStep
IndexAfter == IF scenario.script = <<>> THEN step_index ELSE step_index + 1

\* One block for each tool call, with an id of the index after the step.
IdOf(call, index) ==
  IF call.id # None THEN [given |-> call.id] ELSE DeterministicToolUseId(index, call.name)

Generated(id) == "seed" \in DOMAIN id

Blocks(step, index) ==
  [e \in 1 .. 3 * Len(step.calls) |->
     LET call == step.calls[1 + ((e - 1) \div 3)] IN
     ToolUse(call.name, IdOf(call, index))[1 + ((e - 1) % 3)]]

StepTurn(step, index) ==
  IF step.calls # <<>> THEN Turn(Blocks(step, index), "tool_use") ELSE Turn(Text, "end_turn")

\* The responder decides before the mapping, whose entry decides before synthesis; an
\* instance of another model raises, whichever of the two it comes from.
PreparedAnswer(model) ==
  IF scenario.responder # "none" THEN scenario.responder ELSE scenario.mapped[model]

ResolveStructuredInstance(model) ==
  \/ PreparedAnswer(model) = "exact"
  \/ PreparedAnswer(model) = "none" /\ SynthesizeModel[model]

\* A forced call is answered like a step that calls the output tool.  That its output
\* model is not found, and it is answered like an ordinary call (lines 289-291), is left
\* out: the loop registers the tool with the agent that it hands over before it forces it.
ForcedStep == [calls |-> <<[name |-> OutputModel, id |-> None]>>]

\* An ordinary call consumes a step, a forced one none.
IndexAfterAny == IndexAfter
IndexAfterForced == step_index

StreamStep ==
  /\ phase = "call" /\ ~forced /\ turns < MaxCalls
  /\ stream' = StepTurn(NextStep, IndexAfter)
  /\ step_index' = IndexAfter
  /\ phase' = "stream" /\ heard' = NothingHeard /\ turns' = turns + 1
  /\ UNCHANGED <<scenario, run, forced, played, ids>>

StreamForcedStructuredOutput ==
  /\ phase = "call" /\ forced /\ turns < MaxCalls
  /\ IF ResolveStructuredInstance(OutputModel)
     THEN /\ stream' = StepTurn(ForcedStep, step_index)
          /\ phase' = "stream"
     ELSE phase' = "raised" /\ UNCHANGED stream
  /\ step_index' = IndexAfterForced
  /\ heard' = NothingHeard /\ turns' = turns + 1
  /\ UNCHANGED <<scenario, run, forced, played, ids>>

\* The loop takes one event after the other.
StartsTool(event) == event.kind = "contentBlockStart" /\ event.of # <<>>

Yield ==
  /\ phase = "stream" /\ stream # <<>>
  /\ LET event == Head(stream) IN
     IF StartsTool(event)
     THEN /\ heard' = [heard EXCEPT !.tools = Append(@, event.of[1])]
          /\ ids' = Append(ids, [id |-> event.of[2], name |-> event.of[1], turn |-> turns])
     ELSE /\ heard' = IF event.kind = "messageStop" THEN [heard EXCEPT !.reason = event.of[1]]
                      ELSE heard
          /\ UNCHANGED ids
  /\ stream' = Tail(stream)
  /\ UNCHANGED <<scenario, run, phase, forced, step_index, played, turns>>

-----------------------------------------------------------------------------
(* The loop, when it has heard a turn. *)

\* The run has its output, and the next begins.
EndRun ==
  /\ phase' = IF run < Len(scenario.runs) THEN "call" ELSE "done"
  /\ run' = IF run < Len(scenario.runs) THEN run + 1 ELSE run
  /\ forced' = FALSE /\ ids' = <<>> /\ turns' = 0

\* The tools run, and the model is called again; or it is made to answer.
Conclude ==
  /\ phase = "stream" /\ stream = <<>>
  /\ IF heard.reason = "tool_use" /\ \E i \in DOMAIN heard.tools : heard.tools[i] = OutputModel
     THEN EndRun
     ELSE /\ phase' = IF forced THEN "raised" ELSE "call"
          /\ forced' = (heard.reason = "end_turn")
          /\ UNCHANGED <<run, ids, turns>>
  /\ played' = IF forced THEN played ELSE Append(played, heard.tools)
  /\ UNCHANGED <<scenario, step_index, stream, heard>>

Next ==
  BuildStrandsModel \/ StreamStep \/ StreamForcedStructuredOutput \/ Yield \/ Conclude

\* A run is one coroutine, and the model awaits nothing from outside.
Spec == Init /\ [][Next]_vars /\ WF_vars(Next)

-----------------------------------------------------------------------------
\* The calls that the loop does not force are answered by the script, step for
\* step and over all runs that share the model, and after its end by texts; forced
\* calls between them take no step away
\* (model_gateway/strands_models.py:180-188 and 237-248).
ScriptInOrder ==
  \A k \in DOMAIN played :
    played[k] = IF k =< Len(scenario.script)
                THEN [i \in DOMAIN scenario.script[k].calls |-> scenario.script[k].calls[i].name]
                ELSE <<>>

\* Within a run, two tool uses have the same generated id only if one step calls the
\* same tool twice, so a result finds its call over any number of turns
\* (model_gateway/strands_models.py:205-207, 340 and 479-483).
IdsTellTurnsApart ==
  \A i, j \in DOMAIN ids :
    Generated(ids[i].id) /\ ids[i].id = ids[j].id =>
      ids[i].turn = ids[j].turn /\ ids[i].name = ids[j].name

\* Every run ends, also after a script that only calls tools, and has its output,
\* also if none was prepared; only an answer that was prepared and is of another model
\* raises (model_gateway/strands_models.py:244-246 and 368-389).
RunsProduceOutput ==
  <>(\/ phase = "done"
     \/ phase \in {"raised", "elsewhere"} /\ scenario.provider # "fake"
     \/ phase = "raised" /\ PreparedAnswer(OutputModel) = "wrong")

-----------------------------------------------------------------------------
\* The output tool has the name of its model.
Names == STRING \cup DOMAIN OutputModels
ToolUseIds == [given : STRING] \cup [seed : Nat \X Names]

\* Every variable keeps its type.  A run calls the model at most once more than the
\* script has steps, and once to make it answer: MaxCalls binds nothing above that.
TypeOK ==
  /\ scenario \in Scenarios
  /\ run \in DOMAIN scenario.runs
  /\ phase \in {"build", "call", "stream", "done", "raised", "elsewhere"}
  /\ forced \in BOOLEAN
  /\ step_index \in Nat
  /\ phase # "stream" => stream = <<>>
  /\ heard \in [tools : Seq(Names), reason : {None, "tool_use", "end_turn"}]
  /\ played \in Seq(Seq(Names))
  /\ ids \in Seq([id : ToolUseIds, name : Names, turn : Nat])
  /\ turns \in 0 .. Len(scenario.script) + 2

\* An exception is raised over an unknown provider or an instance that is none of the
\* output model, and never because a model that was made to answer did not
\* (model_gateway/strands_models.py:316 and 388-401).
RaisesForAReason ==
  phase = "raised" =>
    \/ scenario.provider \notin Providers
    \/ forced /\ ~ResolveStructuredInstance(OutputModel)

\* It is over an answer prepared by the caller, then, by the responder or, without one,
\* in the mapping: everything else comes to an output, since every output model can be
\* made (model_gateway/strands_models.py:368-412).
OnlyPreparedAnswersRaise ==
  phase = "raised" /\ scenario.provider = "fake" => PreparedAnswer(OutputModel) = "wrong"

\* What is left to do: runs, turns of the run, events of the turn.
RunsLeft == IF phase = "done" THEN 0 ELSE Len(scenario.runs) - run + 1
TurnsLeft == Len(scenario.script) + 2 - turns
EventsLeft == IF phase = "build" THEN 1 ELSE IF phase = "stream" THEN Len(stream) + 1 ELSE 0

\* Every step leaves less to do, so the runs come to an end, also if the script only
\* calls tools (model_gateway/strands_models.py:237-248).
StreamAdvances ==
  /\ RunsLeft' \in Nat /\ TurnsLeft' \in Nat /\ EventsLeft' \in Nat
  /\ \/ RunsLeft' < RunsLeft
     \/ RunsLeft' = RunsLeft /\ TurnsLeft' < TurnsLeft
     \/ RunsLeft' = RunsLeft /\ TurnsLeft' = TurnsLeft /\ EventsLeft' < EventsLeft
StreamEnds == [][StreamAdvances]_vars

-----------------------------------------------------------------------------
(* Why these hold. *)

\* The step a turn is made of, in all runs together: one for each turn not forced.
StepOf(k) == IF k =< Len(scenario.script) THEN scenario.script[k] ELSE DefaultStep
Current == IF forced THEN ForcedStep ELSE StepOf(Len(played) + 1)

\* A turn that is being heard is the current step's: what is left to yield is its
\* end, and what was taken is what its beginning says.
StreamShape ==
  phase = "stream" =>
    LET whole == StepTurn(Current, step_index)
        n == Len(whole) - Len(stream)
        m == Len(heard.tools) IN
    /\ stream = [i \in 1 .. Len(whole) - n |-> whole[n + i]] /\ n \in 0 .. Len(whole)
    /\ m =< Len(Current.calls)
    /\ m = 0 \/ 3 * m - 1 =< n
    /\ m = Len(Current.calls) \/ n < 3 * m + 2
    /\ heard.tools = [k \in 1 .. m |-> Current.calls[k].name]
    /\ heard.reason = IF n < Len(whole) - 1 THEN None
                      ELSE IF Current.calls = <<>> THEN "end_turn" ELSE "tool_use"

\* Calls of this run that were not forced, and all that there were.
Unforced == IF forced /\ phase # "call" THEN turns - 1 ELSE turns
Begun == Len(played) + IF phase = "stream" /\ ~forced THEN 1 ELSE 0

\* The index counts the calls that were not forced; within a run only the last of
\* these is not a step of the script, or one without tools.
CallsShape ==
  /\ step_index = IF scenario.script = <<>> THEN 0 ELSE Begun
  /\ Unforced \in 0 .. Begun /\ Unforced =< Len(scenario.script) + 1
  /\ phase = "call" /\ ~forced => Unforced =< Len(scenario.script)
  /\ phase \in {"build", "done"} => ~forced /\ turns = 0 /\ ids = <<>>
  /\ phase \in {"call", "stream", "done"} => scenario.provider = "fake"
  /\ phase = "stream" => turns >= 1

\* A generated id has the index that its turn began with; the call before a forced
\* one has left no tool use.
IdsShape ==
  /\ \A i \in DOMAIN ids :
       LET t == ids[i].turn
           index == IF t = Unforced + 1 THEN step_index ELSE step_index - (Unforced - t) IN
       /\ t \in 1 .. turns
       /\ scenario.script = <<>> => t = Unforced + 1
       /\ forced => t # Unforced
       /\ Generated(ids[i].id) => ids[i].id = DeterministicToolUseId(index, ids[i].name)
  /\ phase = "stream" /\ heard.tools = <<>> => \A i \in DOMAIN ids : ids[i].turn # turns

StreamInvariant ==
  /\ TypeOK /\ RaisesForAReason /\ ScriptInOrder
  /\ StreamShape /\ CallsShape /\ IdsShape
=============================================================================
