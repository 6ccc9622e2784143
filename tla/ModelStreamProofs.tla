--------------------------- MODULE ModelStreamProofs ---------------------------
(***************************************************************************)
(* Theorems of ModelStream, for any scripts and runs.  The invariant relates *)
(* what is left of a turn's events and what the loop has taken from them to  *)
(* the step that the turn is made of, and the index to the calls made.       *)
(***************************************************************************)
EXTENDS ModelStream, SequenceTheorems, TLAPS

-----------------------------------------------------------------------------
(* The events of a turn. *)

LEMMA Framed ==
  ASSUME NEW S, NEW x \in S, NEW s \in Seq(S), NEW y \in S, NEW z \in S
  PROVE  LET w == <<x>> \o s \o <<y, z>> IN
         /\ w \in Seq(S) /\ Len(w) = Len(s) + 3
         /\ w[1] = x
         /\ \A i \in 1 .. Len(s) : w[i + 1] = s[i]
         /\ w[Len(s) + 2] = y /\ w[Len(s) + 3] = z
  <1> DEFINE v == <<x>> \o s
  <1>1. v \in Seq(S) /\ Len(v) = Len(s) + 1 /\ v[1] = x
        /\ \A i \in 1 .. Len(s) : v[i + 1] = s[i]
    OBVIOUS
  <1>2. <<y, z>> \in Seq(S) /\ Len(<<y, z>>) = 2 /\ <<y, z>>[1] = y /\ <<y, z>>[2] = z
    OBVIOUS
  <1> HIDE DEF v
  <1>3. LET w == v \o <<y, z>> IN
        /\ w \in Seq(S) /\ Len(w) = Len(v) + 2
        /\ \A i \in 1 .. Len(v) : w[i] = v[i]
        /\ w[Len(v) + 1] = y /\ w[Len(v) + 2] = z
    BY <1>1, <1>2
  <1> QED
    BY <1>1, <1>3 DEF v

Reason(step) == IF step.calls = <<>> THEN "end_turn" ELSE "tool_use"

\* The tools of a step start at every third event, in their order; the last but one
\* event says why the turn stops.
TurnIs(w, step, index) ==
  LET c == Len(step.calls) IN
  /\ Len(w) \in Nat /\ w = [n \in 1 .. Len(w) |-> w[n]]
  /\ c \in Nat /\ Len(w) >= 3 * c + 3
  /\ step.calls = <<>> <=> c = 0
  /\ \A n \in 1 .. Len(w) : StartsTool(w[n]) => \E i \in 1 .. c : n = 3 * i - 1
  /\ \A i \in 1 .. c :
       /\ StartsTool(w[3 * i - 1])
       /\ w[3 * i - 1].of = <<step.calls[i].name, IdOf(step.calls[i], index)>>
  /\ \A n \in 1 .. Len(w) : w[n].kind = "messageStop" => n = Len(w) - 1
  /\ w[Len(w) - 1].kind = "messageStop" /\ w[Len(w) - 1].of = <<Reason(step)>>

LEMMA ToolTurn ==
  ASSUME NEW step, NEW S, step.calls \in Seq(S), step.calls # <<>>, NEW index
  PROVE  TurnIs(StepTurn(step, index), step, index)
  <1> DEFINE c == Len(step.calls)
             b == Blocks(step, index)
             first == Event("messageStart", <<>>)
             stop == Event("messageStop", <<"tool_use">>)
             last == Event("metadata", <<>>)
             w == <<first>> \o b \o <<stop, last>>
             T == {b[e] : e \in 1 .. 3 * c} \cup {first, stop, last}
  <1>1. c \in Nat /\ c # 0
    OBVIOUS
  <1>2. b \in Seq(T) /\ Len(b) = 3 * c
    <2>1. b = [e \in 1 .. 3 * c |-> b[e]]
      BY DEF Blocks
    <2>2. 3 * c \in Nat
      BY <1>1
    <2> HIDE DEF b, c
    <2>3. b \in [1 .. 3 * c -> T]
      BY <2>1
    <2> QED
      BY <2>2, <2>3
  <1>3. \A i \in 1 .. c :
          LET call == step.calls[i]
              use == ToolUse(call.name, IdOf(call, index)) IN
          b[3 * i - 2] = use[1] /\ b[3 * i - 1] = use[2] /\ b[3 * i] = use[3]
    <2> TAKE i \in 1 .. c
    <2> DEFINE use(k) == ToolUse(step.calls[k].name, IdOf(step.calls[k], index))
    <2>1. \A e \in 1 .. 3 * c : b[e] = use(1 + ((e - 1) \div 3))[1 + ((e - 1) % 3)]
      BY DEF Blocks
    <2>2. /\ 3 * i - 2 \in 1 .. 3 * c /\ 3 * i - 1 \in 1 .. 3 * c /\ 3 * i \in 1 .. 3 * c
      BY <1>1
    <2>3. /\ 1 + ((3 * i - 2 - 1) \div 3) = i /\ 1 + ((3 * i - 2 - 1) % 3) = 1
          /\ 1 + ((3 * i - 1 - 1) \div 3) = i /\ 1 + ((3 * i - 1 - 1) % 3) = 2
          /\ 1 + ((3 * i - 1) \div 3) = i /\ 1 + ((3 * i - 1) % 3) = 3
      BY <1>1
    <2> HIDE DEF use, b
    <2>4. b[3 * i - 2] = use(i)[1] /\ b[3 * i - 1] = use(i)[2] /\ b[3 * i] = use(i)[3]
      BY <2>1, <2>2, <2>3
    <2> QED
      BY <2>4 DEF use
  <1>4. /\ w \in Seq(T) /\ Len(w) = 3 * c + 3
        /\ w[1] = first
        /\ \A i \in 1 .. 3 * c : w[i + 1] = b[i]
        /\ w[3 * c + 2] = stop /\ w[3 * c + 3] = last
    <2> HIDE DEF b, first, stop, last, c
    <2> QED
      BY <1>2, Framed
  <1>5. \A i \in 1 .. c :
          LET call == step.calls[i] IN
          /\ w[3 * i - 1] = Event("contentBlockStart", <<call.name, IdOf(call, index)>>)
          /\ w[3 * i] = Event("contentBlockDelta", <<>>)
          /\ w[3 * i + 1] = Event("contentBlockStop", <<>>)
    <2> TAKE i \in 1 .. c
    <2>1. /\ 3 * i - 2 \in 1 .. 3 * c /\ 3 * i - 1 \in 1 .. 3 * c /\ 3 * i \in 1 .. 3 * c
          /\ (3 * i - 2) + 1 = 3 * i - 1 /\ (3 * i - 1) + 1 = 3 * i
      BY <1>1
    <2> HIDE DEF b, w, c
    <2>2. w[3 * i - 1] = b[3 * i - 2] /\ w[3 * i] = b[3 * i - 1] /\ w[3 * i + 1] = b[3 * i]
      BY <1>4, <2>1
    <2> QED
      BY <2>2, <1>3 DEF ToolUse
  <1>6. \A n \in 1 .. 3 * c + 3 :
          \/ n = 1 \/ n = 3 * c + 2 \/ n = 3 * c + 3
          \/ \E i \in 1 .. c : n = 3 * i - 1 \/ n = 3 * i \/ n = 3 * i + 1
    <2> TAKE n \in 1 .. 3 * c + 3
    <2> HIDE DEF c
    <2>1. SUFFICES ASSUME n \in 2 .. 3 * c + 1
                   PROVE  \E i \in 1 .. c : n = 3 * i - 1 \/ n = 3 * i \/ n = 3 * i + 1
      BY <1>1
    <2>2. (n + 1) \div 3 \in 1 .. c
      BY <1>1, <2>1
    <2>3. LET i == (n + 1) \div 3 IN n = 3 * i - 1 \/ n = 3 * i \/ n = 3 * i + 1
      BY <2>1
    <2> QED
      BY <2>2, <2>3
  <1>7. StepTurn(step, index) = w
    BY DEF StepTurn, Turn
  <1> HIDE DEF w, c, T, b
  <1>8. w = [n \in 1 .. Len(w) |-> w[n]] /\ Len(w) \in Nat
    BY <1>4
  <1>9. step.calls = <<>> <=> c = 0
    BY <1>1
  <1>10. \A n \in 1 .. Len(w) : StartsTool(w[n]) => \E i \in 1 .. c : n = 3 * i - 1
    <2>1. ~StartsTool(first) /\ ~StartsTool(stop) /\ ~StartsTool(last)
          /\ ~StartsTool(Event("contentBlockDelta", <<>>))
          /\ ~StartsTool(Event("contentBlockStop", <<>>))
      BY DEF StartsTool, Event
    <2> HIDE DEF first, stop, last
    <2> TAKE n \in 1 .. Len(w)
    <2>2. CASE n = 1 \/ n = 3 * c + 2 \/ n = 3 * c + 3
      BY <1>4, <2>1, <2>2
    <2>3. CASE \E i \in 1 .. c : n = 3 * i - 1 \/ n = 3 * i \/ n = 3 * i + 1
      BY <1>5, <2>1, <2>3
    <2> QED
      BY <1>1, <1>4, <1>6, <2>2, <2>3
  <1>11. \A i \in 1 .. c :
           /\ StartsTool(w[3 * i - 1])
           /\ w[3 * i - 1].of = <<step.calls[i].name, IdOf(step.calls[i], index)>>
    <2>1. \A name, id : LET e == Event("contentBlockStart", <<name, id>>) IN
            StartsTool(e) /\ e.of = <<name, id>>
      BY DEF StartsTool, Event
    <2> QED
      BY <1>5, <2>1
  <1>12. \A n \in 1 .. Len(w) : w[n].kind = "messageStop" => n = Len(w) - 1
    <2>1. first.kind # "messageStop" /\ last.kind # "messageStop"
          /\ \A of : /\ Event("contentBlockStart", of).kind # "messageStop"
                     /\ Event("contentBlockDelta", of).kind # "messageStop"
                     /\ Event("contentBlockStop", of).kind # "messageStop"
      BY DEF Event
    <2> HIDE DEF first, stop, last
    <2> TAKE n \in 1 .. Len(w)
    <2>2. CASE n = 1 \/ n = 3 * c + 2 \/ n = 3 * c + 3
      BY <1>1, <1>4, <2>1, <2>2
    <2>3. CASE \E i \in 1 .. c : n = 3 * i - 1 \/ n = 3 * i \/ n = 3 * i + 1
      BY <1>5, <2>1, <2>3
    <2> QED
      BY <1>1, <1>4, <1>6, <2>2, <2>3
  <1>13. w[Len(w) - 1].kind = "messageStop" /\ w[Len(w) - 1].of = <<Reason(step)>>
    <2>1. stop.kind = "messageStop" /\ stop.of = <<"tool_use">>
      BY DEF Event
    <2> QED
      BY <1>1, <1>4, <2>1 DEF Reason
  <1>14. Len(w) >= 3 * c + 3
    BY <1>1, <1>4
  <1> QED
    BY <1>1, <1>7, <1>8, <1>9, <1>10, <1>11, <1>12, <1>13, <1>14 DEF TurnIs, c

LEMMA TextTurn ==
  ASSUME NEW step, step.calls = <<>>, NEW index
  PROVE  TurnIs(StepTurn(step, index), step, index)
  <1> DEFINE first == Event("messageStart", <<>>)
             stop == Event("messageStop", <<"end_turn">>)
             last == Event("metadata", <<>>)
             text == Text
             w == <<first>> \o text \o <<stop, last>>
             T == {text[1], text[2], text[3], first, stop, last}
  <1>1. Len(text) = 3
    BY DEF Text
  <1>2. text \in Seq(T)
    BY DEF Text
  <1>3. /\ w \in Seq(T) /\ Len(w) = 6
        /\ w[1] = first
        /\ \A i \in 1 .. 3 : w[i + 1] = text[i]
        /\ w[5] = stop /\ w[6] = last
    <2>1. first \in T /\ stop \in T /\ last \in T
      OBVIOUS
    <2> HIDE DEF first, stop, last, text, T
    <2>2. /\ w \in Seq(T) /\ Len(w) = Len(text) + 3
          /\ w[1] = first
          /\ \A i \in 1 .. Len(text) : w[i + 1] = text[i]
          /\ w[Len(text) + 2] = stop /\ w[Len(text) + 3] = last
      BY <1>2, <2>1, Framed
    <2> QED
      BY <1>1, <2>2
  <1>4. w[2] = Text[1] /\ w[3] = Text[2] /\ w[4] = Text[3]
    <2> HIDE DEF w
    <2> QED
      BY <1>3
  <1>5. StepTurn(step, index) = w
    BY DEF StepTurn, Turn
  <1> HIDE DEF w
  <1>6. \A n \in 1 .. 6 : n = 1 \/ n = 2 \/ n = 3 \/ n = 4 \/ n = 5 \/ n = 6
    OBVIOUS
  <1>7. \A n \in 1 .. 6 : ~StartsTool(w[n])
    BY <1>3, <1>4, <1>6 DEF StartsTool, Event, Text
  <1>8. \A n \in 1 .. 6 : w[n].kind = "messageStop" => n = 5
    BY <1>3, <1>4, <1>6 DEF Event, Text
  <1>9. w[5].kind = "messageStop" /\ w[5].of = <<Reason(step)>>
    BY <1>3 DEF Event, Reason
  <1>10. Len(step.calls) = 0
    OBVIOUS
  <1>11. w = [n \in 1 .. Len(w) |-> w[n]]
    BY <1>3
  <1>12. /\ Len(w) = 6 /\ Len(w) - 1 = 5 /\ 3 * 0 + 3 = 3
    BY <1>3
  <1> QED
    BY <1>5, <1>7, <1>8, <1>9, <1>10, <1>11, <1>12 DEF TurnIs

\* The turn of any step.
LEMMA Turns ==
  ASSUME NEW step, NEW S, step.calls \in Seq(S), NEW index
  PROVE  TurnIs(StepTurn(step, index), step, index)
  BY ToolTurn, TextTurn

-----------------------------------------------------------------------------
(* Synthesis: the function is defined, and never fails. *)

THEOREM EveryModelIsMade == \A model \in DOMAIN OutputModels : SynthesizeModel[model]
  <1> DEFINE D == DOMAIN OutputModels
             IsMade(f, model) ==
               \A i \in DOMAIN OutputModels[model] :
                 LET annotation == OutputModels[model][i] IN
                 IF annotation.kind = "model" THEN f[annotation.of[1]]
                 ELSE SynthesizeValue(annotation.kind) = annotation.kind
             Solves(f) == f = [model \in D |-> IsMade(f, model)]
             all == [model \in D |-> TRUE]
  <1>1. \A model \in D : \A i \in DOMAIN OutputModels[model] :
          LET annotation == OutputModels[model][i] IN
          \/ annotation.kind = "model" /\ annotation.of[1] = "NestedModel"
          \/ annotation.kind \in Zeros
    BY DEF OutputModels, Of, Zeros
  <1>2. "NestedModel" \in D /\ OutputModels["NestedModel"] = <<Of("bool")>>
    BY DEF OutputModels
  <1>3. \A kind \in Zeros : SynthesizeValue(kind) = kind /\ kind # "model"
    BY DEF SynthesizeValue, Zeros
  <1> HIDE DEF D
  <1>4. \A model \in D : IsMade(all, model)
    BY <1>1, <1>2, <1>3
  <1>5. Solves(all)
    BY <1>4
  <1>6. ASSUME NEW f, Solves(f), NEW model \in D
        PROVE  f[model]
    <2>1. \A m \in D : f[m] = IsMade(f, m)
      BY <1>6
    <2>2. IsMade(f, "NestedModel")
      BY <1>2, <1>3 DEF Of, Zeros
    <2>3. f["NestedModel"]
      BY <1>2, <2>1, <2>2
    <2>4. IsMade(f, model)
      BY <1>1, <1>3, <1>6, <2>3
    <2> QED
      BY <1>6, <2>1, <2>4
  <1>7. SynthesizeModel = CHOOSE f : Solves(f)
    BY DEF SynthesizeModel, D
  <1>8. Solves(SynthesizeModel)
    BY <1>5, <1>7
  <1> QED
    BY <1>6, <1>8 DEF D

-----------------------------------------------------------------------------
(* The invariant. *)

Call == [name : Names, id : STRING \cup {None}]

LEMMA MoreIn ==
  ASSUME NEW S, NEW T, S \subseteq T, NEW s \in Seq(S)
  PROVE  s \in Seq(T)
  <1>1. Len(s) \in Nat /\ s \in [1 .. Len(s) -> T]
    OBVIOUS
  <1> QED
    BY <1>1

\* The steps that turns are made of.
LEMMA StepsTyped ==
  ASSUME TypeOK, NEW k \in Nat \ {0}
  PROVE  /\ StepOf(k).calls \in Seq(Call)
         /\ StepOf(k).calls # <<>> => k =< Len(scenario.script)
  <1>1. scenario.script \in Seq(Step)
    BY ModelStreamAssumption DEF TypeOK, Scenario
  <1>2. CASE k =< Len(scenario.script)
    <2>1. StepOf(k) \in Step
      BY <1>1, <1>2 DEF StepOf
    <2> DEFINE Given == [name : STRING, id : STRING \cup {None}]
    <2>2. StepOf(k).calls \in Seq(Given)
      BY <2>1 DEF Step
    <2>3. Given \subseteq Call
      BY DEF Call, Names
    <2>4. StepOf(k).calls \in Seq(Call)
      <3> HIDE DEF Given
      <3> QED
        BY <2>2, <2>3, MoreIn
    <2> QED
      BY <1>2, <2>4
  <1>3. CASE ~(k =< Len(scenario.script))
    <2>1. StepOf(k).calls = <<>>
      BY <1>3 DEF StepOf, DefaultStep
    <2>2. <<>> \in Seq(Call)
      OBVIOUS
    <2> QED
      BY <2>1, <2>2
  <1> QED
    BY <1>2, <1>3

LEMMA ForcedTyped ==
  ASSUME TypeOK
  PROVE  /\ ForcedStep.calls \in Seq(Call) /\ ForcedStep.calls # <<>>
         /\ Len(ForcedStep.calls) = 1 /\ ForcedStep.calls[1].name = OutputModel
         /\ ForcedStep.calls[1].id = None
  <1>1. OutputModel \in Names
    BY ModelStreamAssumption DEF TypeOK, Scenario, OutputModel, Names
  <1>2. [name |-> OutputModel, id |-> None] \in Call
    BY <1>1 DEF Call
  <1>3. ForcedStep.calls = <<[name |-> OutputModel, id |-> None]>>
    BY DEF ForcedStep
  <1> QED
    BY <1>2, <1>3

LEMMA InitInvariant == Init => StreamInvariant
  <1> SUFFICES ASSUME Init PROVE StreamInvariant
    OBVIOUS
  <1>1. scenario \in Scenario /\ scenario.runs # <<>>
    BY ModelStreamAssumption DEF Init
  <1>2. 1 \in DOMAIN scenario.runs /\ Len(scenario.script) \in Nat
    BY <1>1 DEF Scenario
  <1>3. NothingHeard \in [tools : Seq(Names), reason : {None, "tool_use", "end_turn"}]
    BY DEF NothingHeard
  <1>4. TypeOK
    <2>1. heard \in [tools : Seq(Names), reason : {None, "tool_use", "end_turn"}]
      BY <1>3 DEF Init
    <2>2. 0 \in 0 .. Len(scenario.script) + 2
      BY <1>2
    <2>3. played \in Seq(Seq(Names)) /\ ids \in Seq([id : ToolUseIds, name : Names, turn : Nat])
      BY DEF Init
    <2> QED
      BY <1>2, <2>1, <2>2, <2>3 DEF Init, TypeOK
  <1>5. RaisesForAReason /\ ScriptInOrder /\ StreamShape
    BY DEF Init, RaisesForAReason, ScriptInOrder, StreamShape
  <1>6. CallsShape
    BY <1>2 DEF Init, CallsShape, Begun, Unforced
  <1>7. IdsShape
    BY DEF Init, IdsShape
  <1> QED
    BY <1>4, <1>5, <1>6, <1>7 DEF StreamInvariant

LEMMA BuildKeeps ==
  ASSUME StreamInvariant, BuildStrandsModel
  PROVE  StreamInvariant'
  <1> USE DEF StreamInvariant, BuildStrandsModel
  <1>1. TypeOK'
    BY DEF TypeOK
  <1>2. ScriptInOrder' /\ StreamShape'
    BY DEF ScriptInOrder, StreamShape
  <1>3. RaisesForAReason'
    BY DEF RaisesForAReason
  <1>4. ~forced /\ turns = 0 /\ ids = <<>> /\ Begun' = Begun
    BY DEF CallsShape, Begun
  <1>5. Unforced = 0 /\ Unforced' = 0 /\ Len(scenario.script) \in Nat
    BY <1>4, ModelStreamAssumption DEF Unforced, TypeOK, Scenario
  <1>6. CallsShape'
    BY <1>4, <1>5 DEF CallsShape
  <1>7. IdsShape'
    BY <1>4 DEF IdsShape
  <1> QED
    BY <1>1, <1>2, <1>3, <1>6, <1>7

\* A turn that begins: nothing of it has been heard.
LEMMA TurnBegins ==
  ASSUME NEW step, step.calls \in Seq(Call), NEW index,
         heard' = NothingHeard, stream' = StepTurn(step, index),
         Current' = step, step_index' = index
  PROVE  StreamShape'
  <1> DEFINE whole == StepTurn(step, index)
  <1>1. TurnIs(whole, step, index)
    BY Turns
  <1>2. /\ Len(whole) \in Nat /\ whole = [i \in 1 .. Len(whole) |-> whole[i]]
        /\ Len(whole) >= 3
        /\ Len(step.calls) \in Nat
    BY <1>1 DEF TurnIs
  <1>3. heard'.tools = <<>> /\ heard'.reason = None
    BY DEF NothingHeard
  <1>4. heard'.tools = [k \in 1 .. 0 |-> step.calls[k].name] /\ Len(heard'.tools) = 0
    BY <1>3
  <1> HIDE DEF whole
  <1>5. stream' = [i \in 1 .. Len(whole) - 0 |-> whole[0 + i]]
    BY <1>2 DEF whole
  <1>6. Len(stream') = Len(whole)
    BY <1>2 DEF whole
  <1> QED
    BY <1>2, <1>3, <1>4, <1>5, <1>6 DEF StreamShape, whole

LEMMA StreamStepKeeps ==
  ASSUME StreamInvariant, StreamStep
  PROVE  StreamInvariant'
  <1> DEFINE k == Len(played) + 1
             n == Len(scenario.script)
  <1>1. /\ k \in Nat \ {0} /\ Len(played) \in Nat
        /\ n \in Nat /\ (scenario.script = <<>> <=> n = 0)
        /\ turns \in Nat /\ step_index \in Nat
    BY ModelStreamAssumption DEF StreamInvariant, TypeOK, Scenario
  <1>2. /\ phase = "call" /\ ~forced /\ phase' = "stream" /\ ~forced'
        /\ turns' = turns + 1 /\ step_index' = IndexAfter /\ heard' = NothingHeard
        /\ UNCHANGED <<scenario, run, forced, played, ids>>
    BY DEF StreamStep, StreamInvariant, TypeOK
  <1>3. step_index = (IF scenario.script = <<>> THEN 0 ELSE Len(played))
        /\ turns \in 0 .. Len(played) /\ turns =< n /\ scenario.provider = "fake"
    BY <1>1, <1>2 DEF StreamInvariant, CallsShape, Begun, Unforced
  <1>4. NextStep = StepOf(k) /\ Current' = StepOf(k)
    <2>1. NextStep = StepOf(k)
      BY <1>1, <1>3 DEF NextStep, StepOf
    <2> QED
      BY <1>2, <2>1 DEF Current, StepOf
  <1>5. step_index' = (IF scenario.script = <<>> THEN 0 ELSE k) /\ step_index' \in Nat
    BY <1>1, <1>2, <1>3 DEF IndexAfter
  <1>6. Begun' = k /\ Unforced' = turns + 1 /\ Unforced = turns
    BY <1>2 DEF Begun, Unforced
  <1>7. TypeOK'
    <2>1. heard' \in [tools : Seq(Names), reason : {None, "tool_use", "end_turn"}]
      BY <1>2 DEF NothingHeard
    <2>2. turns' \in 0 .. n + 2
      BY <1>1, <1>2, <1>3
    <2> QED
      BY <1>2, <1>5, <2>1, <2>2 DEF TypeOK, StreamInvariant
  <1>8. StreamShape'
    <2>1. StepOf(k).calls \in Seq(Call)
      BY <1>1, StepsTyped DEF StreamInvariant
    <2>2. stream' = StepTurn(StepOf(k), step_index')
      BY <1>2, <1>4 DEF StreamStep
    <2> QED
      BY <1>2, <1>4, <2>1, <2>2, TurnBegins
  <1>9. RaisesForAReason' /\ ScriptInOrder'
    BY <1>2 DEF RaisesForAReason, ScriptInOrder, StreamInvariant
  <1>10. CallsShape'
    BY <1>1, <1>2, <1>3, <1>5, <1>6 DEF CallsShape
  <1>11. IdsShape'
    <2>1. ASSUME NEW i \in DOMAIN ids
          PROVE  LET t == ids[i].turn IN
                 /\ t \in 1 .. turns /\ scenario.script # <<>>
                 /\ Generated(ids[i].id) =>
                      ids[i].id = DeterministicToolUseId(step_index' - (turns + 1 - t), ids[i].name)
      <3>1. /\ ids[i].turn \in 1 .. turns
            /\ scenario.script = <<>> => ids[i].turn = turns + 1
        BY <1>6 DEF StreamInvariant, IdsShape
      <3>2. scenario.script # <<>> /\ ids[i].turn # turns + 1
        BY <1>1, <3>1
      <3>3. step_index' - (turns + 1 - ids[i].turn) = step_index - (turns - ids[i].turn)
        BY <1>1, <1>3, <1>5, <3>1, <3>2
      <3>4. Generated(ids[i].id) =>
              ids[i].id = DeterministicToolUseId(step_index - (turns - ids[i].turn), ids[i].name)
        BY <1>6, <3>2 DEF StreamInvariant, IdsShape
      <3> QED
        BY <3>1, <3>2, <3>3, <3>4
    <2>2. \A i \in DOMAIN ids : ids[i].turn # turns + 1 /\ ids[i].turn # turns + 2
                                /\ ids[i].turn \in 1 .. turns + 1
      BY <1>1, <2>1
    <2> QED
      BY <1>2, <1>6, <1>1, <2>1, <2>2 DEF IdsShape
  <1> QED
    BY <1>7, <1>8, <1>9, <1>10, <1>11 DEF StreamInvariant

LEMMA ForcedStepKeeps ==
  ASSUME StreamInvariant, StreamForcedStructuredOutput
  PROVE  StreamInvariant'
  <1> DEFINE n == Len(scenario.script)
  <1>1. /\ n \in Nat /\ (scenario.script = <<>> <=> n = 0)
        /\ turns \in Nat /\ step_index \in Nat /\ Len(played) \in Nat
    BY ModelStreamAssumption DEF StreamInvariant, TypeOK, Scenario
  <1>2. /\ phase = "call" /\ forced /\ phase' \in {"stream", "raised"} /\ forced'
        /\ turns' = turns + 1 /\ step_index' = step_index /\ heard' = NothingHeard
        /\ UNCHANGED <<scenario, run, forced, played, ids>>
    BY DEF StreamForcedStructuredOutput, IndexAfterForced
  <1>3. Unforced = turns /\ Unforced' = turns /\ Begun = Len(played) /\ Begun' = Len(played)
    BY <1>1, <1>2 DEF Unforced, Begun
  <1>4. turns \in 0 .. Len(played) /\ turns =< n + 1
    BY <1>3 DEF StreamInvariant, CallsShape
  <1>5. TypeOK'
    <2>1. heard' \in [tools : Seq(Names), reason : {None, "tool_use", "end_turn"}]
      BY <1>2 DEF NothingHeard
    <2>2. turns' \in 0 .. n + 2
      BY <1>1, <1>2, <1>4
    <2>3. phase' # "stream" => stream' = <<>>
      BY <1>2 DEF StreamForcedStructuredOutput, StreamInvariant, TypeOK
    <2> QED
      BY <1>2, <2>1, <2>2, <2>3 DEF TypeOK, StreamInvariant
  <1>6. StreamShape'
    <2>1. CASE phase' = "raised"
      BY <2>1 DEF StreamShape
    <2>2. CASE phase' = "stream"
      <3>1. ForcedStep.calls \in Seq(Call)
        BY ForcedTyped DEF StreamInvariant
      <3>2. Current' = ForcedStep
        BY <1>2 DEF Current, ForcedStep, OutputModel
      <3>3. stream' = StepTurn(ForcedStep, step_index)
        BY <2>2 DEF StreamForcedStructuredOutput
      <3> QED
        BY <1>2, <3>1, <3>2, <3>3, TurnBegins
    <2> QED
      BY <1>2, <2>1, <2>2
  <1>7. RaisesForAReason'
    BY <1>2 DEF RaisesForAReason, StreamForcedStructuredOutput, ResolveStructuredInstance,
                  PreparedAnswer, OutputModel
  <1>8. ScriptInOrder'
    BY <1>2 DEF ScriptInOrder, StreamInvariant
  <1>9. CallsShape'
    BY <1>1, <1>2, <1>3, <1>4 DEF CallsShape, StreamInvariant
  <1>10. IdsShape'
    <2>1. \A i \in DOMAIN ids : ids[i].turn \in 1 .. turns
      BY DEF StreamInvariant, IdsShape
    <2>2. \A i \in DOMAIN ids : ids[i].turn \in 1 .. turns + 1 /\ ids[i].turn # turns + 1
      BY <1>1, <2>1
    <2> QED
      BY <1>2, <1>3, <2>2 DEF IdsShape, StreamInvariant
  <1> QED
    BY <1>5, <1>6, <1>7, <1>8, <1>9, <1>10 DEF StreamInvariant

\* A turn that is being heard, in the words of the lemmas about it.
LEMMA Hearing ==
  ASSUME StreamInvariant, phase = "stream"
  PROVE  LET w == StepTurn(Current, step_index)
             n == Len(w) - Len(stream)
             m == Len(heard.tools)
             c == Len(Current.calls) IN
         /\ Current.calls \in Seq(Call) /\ c \in Nat
         /\ TurnIs(w, Current, step_index)
         /\ Len(w) \in Nat /\ n \in 0 .. Len(w)
         /\ stream = [i \in 1 .. Len(w) - n |-> w[n + i]] /\ Len(stream) = Len(w) - n
         /\ m \in 0 .. c
         /\ m = 0 \/ 3 * m - 1 =< n
         /\ m = c \/ n < 3 * m + 2
         /\ heard.tools = [k \in 1 .. m |-> Current.calls[k].name]
         /\ heard.reason = IF n < Len(w) - 1 THEN None ELSE Reason(Current)
         /\ ~forced /\ Current.calls # <<>> => Len(played) + 1 =< Len(scenario.script)
  <1>1. Current.calls \in Seq(Call)
        /\ (~forced /\ Current.calls # <<>> => Len(played) + 1 =< Len(scenario.script))
    <2>1. CASE forced
      BY <2>1, ForcedTyped DEF Current, StreamInvariant
    <2>2. CASE ~forced
      <3>1. Len(played) + 1 \in Nat \ {0}
        BY DEF StreamInvariant, TypeOK
      <3> QED
        BY <2>2, <3>1, StepsTyped DEF Current, StreamInvariant
    <2> QED
      BY <2>1, <2>2
  <1>2. TurnIs(StepTurn(Current, step_index), Current, step_index)
    BY <1>1, Turns
  <1>3. Len(StepTurn(Current, step_index)) \in Nat
    BY <1>2 DEF TurnIs
  <1>4. Len(heard.tools) \in Nat /\ Len(Current.calls) \in Nat
    BY <1>1 DEF StreamInvariant, TypeOK
  <1>5. StreamShape
    BY DEF StreamInvariant
  <1> DEFINE w == StepTurn(Current, step_index)
             n == Len(w) - Len(stream)
  <1>6. n \in 0 .. Len(w) /\ stream = [i \in 1 .. Len(w) - n |-> w[n + i]]
    BY <1>5 DEF StreamShape
  <1>7. Len(stream) = Len(w) - n
    <2> HIDE DEF w, n
    <2> QED
      BY <1>3, <1>6 DEF w
  <1> QED
    BY <1>1, <1>2, <1>3, <1>4, <1>5, <1>6, <1>7 DEF StreamShape, Reason

LEMMA TailIs ==
  ASSUME NEW S, NEW s \in Seq(S), s # <<>>
  PROVE  Tail(s) = [i \in 1 .. Len(s) - 1 |-> s[i + 1]] /\ Len(Tail(s)) = Len(s) - 1
  <1>1. /\ Tail(s) \in Seq(S) /\ Len(Tail(s)) = Len(s) - 1
        /\ \A i \in 1 .. Len(Tail(s)) : Tail(s)[i] = s[i + 1]
    BY HeadTailProperties
  <1>2. \A t \in Seq(S) : t = [i \in 1 .. Len(t) |-> t[i]]
    OBVIOUS
  <1> QED
    BY <1>1, <1>2

LEMMA HeardMore ==
  ASSUME NEW h \in [tools : Seq(Names), reason : {None, "tool_use", "end_turn"}],
         NEW t \in Seq(Names), NEW r \in {"tool_use", "end_turn"}
  PROVE  /\ [h EXCEPT !.tools = t] \in [tools : Seq(Names), reason : {None, "tool_use", "end_turn"}]
         /\ [h EXCEPT !.reason = r] \in [tools : Seq(Names), reason : {None, "tool_use", "end_turn"}]
  OBVIOUS

LEMMA YieldKeeps ==
  ASSUME StreamInvariant, Yield
  PROVE  StreamInvariant'
  <1> DEFINE w == StepTurn(Current, step_index)
             n == Len(w) - Len(stream)
             m == Len(heard.tools)
             c == Len(Current.calls)
             e == Head(stream)
  <1>1. /\ phase = "stream" /\ stream # <<>> /\ stream' = Tail(stream)
        /\ UNCHANGED <<scenario, run, phase, forced, step_index, played, turns>>
        /\ Current' = Current
    BY DEF Yield, Current, StepOf, ForcedStep, OutputModel
  <1>2. /\ Current.calls \in Seq(Call) /\ c \in Nat
        /\ TurnIs(w, Current, step_index)
        /\ Len(w) \in Nat /\ n \in 0 .. Len(w)
        /\ stream = [i \in 1 .. Len(w) - n |-> w[n + i]] /\ Len(stream) = Len(w) - n
        /\ m \in 0 .. c
        /\ m = 0 \/ 3 * m - 1 =< n
        /\ m = c \/ n < 3 * m + 2
        /\ heard.tools = [k \in 1 .. m |-> Current.calls[k].name]
        /\ heard.reason = IF n < Len(w) - 1 THEN None ELSE Reason(Current)
    BY <1>1, Hearing
  <1>3. /\ heard \in [tools : Seq(Names), reason : {None, "tool_use", "end_turn"}]
        /\ ids \in Seq([id : ToolUseIds, name : Names, turn : Nat]) /\ turns \in Nat
        /\ step_index \in Nat
    BY DEF StreamInvariant, TypeOK
  <1>4. n < Len(w) /\ e = w[n + 1]
        /\ stream' = [i \in 1 .. Len(w) - (n + 1) |-> w[n + 1 + i]]
        /\ Len(stream') = Len(w) - (n + 1)
    <2> HIDE DEF w, n
    <2>1. n < Len(w)
      BY <1>1, <1>2
    <2>2. stream \in Seq({w[i] : i \in 1 .. Len(w)})
      <3>1. Len(w) - n \in Nat
        BY <1>2
      <3>2. stream \in [1 .. Len(w) - n -> {w[i] : i \in 1 .. Len(w)}]
        BY <1>2
      <3> QED
        BY <3>1, <3>2
    <2>7. Len(w) - n - 1 = Len(w) - (n + 1) /\ Len(stream) - 1 = Len(w) - (n + 1)
      BY <1>2
    <2>4. stream' = [i \in 1 .. Len(stream) - 1 |-> stream[i + 1]] /\ Len(stream') = Len(stream) - 1
      BY <1>1, <2>2, TailIs
    <2>3. Len(stream') = Len(w) - (n + 1)
      BY <2>4, <2>7
    <2>5. \A i \in 1 .. Len(w) - (n + 1) : stream[i + 1] = w[n + 1 + i]
      BY <1>2, <2>1
    <2>6. stream' = [i \in 1 .. Len(w) - (n + 1) |-> w[n + 1 + i]]
      BY <2>4, <2>5, <2>7
    <2> QED
      BY <1>2, <2>1, <2>3, <2>6
  <1>5. \A p \in 1 .. Len(w) : StartsTool(w[p]) => \E i \in 1 .. c : p = 3 * i - 1
    BY <1>2 DEF TurnIs
  <1>13. \A i \in 1 .. c :
           /\ StartsTool(w[3 * i - 1])
           /\ w[3 * i - 1].of = <<Current.calls[i].name, IdOf(Current.calls[i], step_index)>>
    BY <1>2 DEF TurnIs
  <1>14. /\ \A p \in 1 .. Len(w) : w[p].kind = "messageStop" => p = Len(w) - 1
         /\ w[Len(w) - 1].kind = "messageStop" /\ w[Len(w) - 1].of = <<Reason(Current)>>
    BY <1>2 DEF TurnIs
  <1>15. /\ Len(w) \in Nat /\ n \in Nat /\ n < Len(w) /\ n + 1 \in 1 .. Len(w)
         /\ c \in Nat /\ m \in Nat /\ m =< c /\ Len(w) >= 3 * c + 3
         /\ m = 0 \/ 3 * m - 1 =< n
         /\ m = c \/ n < 3 * m + 2
    <2>1. Len(w) >= 3 * c + 3
      BY <1>2 DEF TurnIs
    <2>2. /\ Len(w) \in Nat /\ n \in 0 .. Len(w) /\ c \in Nat /\ m \in 0 .. c
          /\ m = 0 \/ 3 * m - 1 =< n
          /\ m = c \/ n < 3 * m + 2
      BY <1>2
    <2>3. n < Len(w)
      BY <1>4
    <2> HIDE DEF w, n, c, m
    <2> QED
      BY <2>1, <2>2, <2>3
  <1>6. /\ turns' = turns /\ Unforced' = Unforced /\ Begun' = Begun
    BY <1>1 DEF Unforced, Begun
  <1>7. RaisesForAReason' /\ ScriptInOrder'
    BY <1>1 DEF RaisesForAReason, ScriptInOrder, StreamInvariant
  <1>8. CallsShape'
    BY <1>1, <1>6 DEF CallsShape, StreamInvariant
  <1>9. ASSUME heard' \in [tools : Seq(Names), reason : {None, "tool_use", "end_turn"}],
               ids' \in Seq([id : ToolUseIds, name : Names, turn : Nat])
        PROVE  TypeOK'
    BY <1>1, <1>9 DEF TypeOK, StreamInvariant
  <1>10. ASSUME NEW q \in 0 .. c, Len(heard'.tools) = q,
                q = 0 \/ 3 * q - 1 =< n + 1, q = c \/ n + 1 < 3 * q + 2,
                heard'.tools = [k \in 1 .. q |-> Current.calls[k].name],
                heard'.reason = IF n + 1 < Len(w) - 1 THEN None ELSE Reason(Current)
         PROVE  StreamShape'
    <2>1. StepTurn(Current, step_index)' = w
      BY <1>1
    <2>2. Len(w) - Len(stream') = n + 1 /\ n + 1 \in 0 .. Len(w)
      BY <1>2, <1>4
    <2> DEFINE N == Len(w) - Len(stream')
    <2>3. /\ N = n + 1 /\ N \in 0 .. Len(w)
          /\ stream' = [i \in 1 .. Len(w) - N |-> w[N + i]]
          /\ q = 0 \/ 3 * q - 1 =< N
          /\ q = c \/ N < 3 * q + 2
          /\ heard'.reason = IF N < Len(w) - 1 THEN None ELSE Reason(Current)
      <3>1. N = n + 1 /\ N \in 0 .. Len(w)
        BY <2>2
      <3> HIDE DEF w, n, N
      <3> QED
        BY <1>4, <1>10, <3>1
    <2>4. Len(heard'.tools) = q /\ q =< c
      BY <1>10
    <2>5. /\ stream' = [i \in 1 .. Len(w) - N |-> w[N + i]] /\ N \in 0 .. Len(w)
          /\ Len(heard'.tools) =< Len(Current'.calls)
          /\ Len(heard'.tools) = 0 \/ 3 * Len(heard'.tools) - 1 =< N
          /\ Len(heard'.tools) = Len(Current'.calls) \/ N < 3 * Len(heard'.tools) + 2
          /\ heard'.tools = [k \in 1 .. Len(heard'.tools) |-> Current'.calls[k].name]
          /\ heard'.reason = IF N < Len(w) - 1 THEN None
                             ELSE IF Current'.calls = <<>> THEN "end_turn" ELSE "tool_use"
      <3> HIDE DEF w, n, N
      <3> QED
        BY <1>1, <1>10, <2>3, <2>4 DEF Reason
    <2> QED
      BY <2>1, <2>5 DEF StreamShape
  <1>11. CASE StartsTool(e)
    <2>1. heard' = [heard EXCEPT !.tools = Append(@, e.of[1])]
          /\ ids' = Append(ids, [id |-> e.of[2], name |-> e.of[1], turn |-> turns])
      BY <1>11 DEF Yield
    <2> DEFINE call == Current.calls[m + 1]
               use == [id |-> IdOf(call, step_index), name |-> call.name, turn |-> turns]
    <2>2. m + 1 \in 1 .. c /\ n + 1 = 3 * (m + 1) - 1
      <3>1. PICK i \in 1 .. c : n + 1 = 3 * i - 1
        BY <1>4, <1>5, <1>11, <1>15
      <3> HIDE DEF w, n, c, m
      <3> QED
        BY <1>15, <3>1
    <2>3. e.of = <<call.name, IdOf(call, step_index)>>
      <3> HIDE DEF w, n, c, m, e
      <3> QED
        BY <1>4, <1>13, <2>2
    <2>4. heard'.tools = Append(heard.tools, call.name) /\ heard'.reason = heard.reason
          /\ ids' = Append(ids, use)
      BY <1>3, <2>1, <2>3
    <2>5. call.name \in Names /\ call.id \in STRING \cup {None}
      <3>1. call \in Call
        <4> HIDE DEF m, n
        <4> QED
          BY <1>2, <2>2
      <3> HIDE DEF call
      <3> QED
        BY <3>1 DEF Call
    <2>6. IdOf(call, step_index) \in ToolUseIds
          /\ (Generated(IdOf(call, step_index)) =>
                IdOf(call, step_index) = DeterministicToolUseId(step_index, call.name))
      <3>1. CASE call.id = None
        BY <1>3, <2>5, <3>1 DEF IdOf, DeterministicToolUseId, ToolUseIds
      <3>2. CASE call.id # None
        BY <2>5, <3>2 DEF IdOf, ToolUseIds, Generated
      <3> QED
        BY <3>1, <3>2
    <2>7. use \in [id : ToolUseIds, name : Names, turn : Nat]
      BY <1>3, <2>5, <2>6
    <2>8. TypeOK'
      <3>1. Append(heard.tools, e.of[1]) \in Seq(Names)
        BY <1>3, <2>3, <2>5
      <3>2. heard' \in [tools : Seq(Names), reason : {None, "tool_use", "end_turn"}]
        <4> HIDE DEF e
        <4> QED
          BY <1>3, <2>1, <3>1, HeardMore
      <3>3. ids' \in Seq([id : ToolUseIds, name : Names, turn : Nat])
        <4> HIDE DEF use
        <4> QED
          BY <1>3, <2>4, <2>7
      <3> QED
        BY <1>9, <3>2, <3>3
    <2>9. StreamShape'
      <3> HIDE DEF w, n, c
      <3>1. Len(heard'.tools) = m + 1
            /\ heard'.tools = [k \in 1 .. m + 1 |-> Current.calls[k].name]
        <4>1. heard.tools \in Seq(Names)
          BY <1>3
        <4>2. Append(heard.tools, call.name) = [k \in 1 .. m + 1 |-> Current.calls[k].name]
          BY <1>2, <2>2, <2>5, <4>1
        <4> QED
          BY <2>4, <4>1, <4>2, <2>5
      <3>2. heard'.reason = IF n + 1 < Len(w) - 1 THEN None ELSE Reason(Current)
        <4>1. n < Len(w) - 1 /\ n + 1 < Len(w) - 1
          <5> HIDE DEF m
          <5> QED
            BY <1>15, <2>2
        <4>2. heard.reason = IF n < Len(w) - 1 THEN None ELSE Reason(Current)
          BY <1>2
        <4> QED
          BY <2>4, <4>1, <4>2
      <3>3. /\ m + 1 \in 0 .. c /\ 3 * (m + 1) - 1 =< n + 1
            /\ m + 1 = c \/ n + 1 < 3 * (m + 1) + 2
        BY <1>15, <2>2
      <3> HIDE DEF m
      <3> QED
        BY <1>10, <3>1, <3>2, <3>3
    <2>10. IdsShape'
      <3>1. /\ turns \in 1 .. turns
            /\ scenario.script = <<>> => turns = Unforced + 1
            /\ forced => turns # Unforced
            /\ (turns = Unforced + 1 \/ step_index - (Unforced - turns) = step_index)
        <4>1. CASE forced
          <5>1. Unforced = turns - 1 /\ Unforced >= 0
            BY <1>1, <1>3, <4>1 DEF Unforced, StreamInvariant, CallsShape
          <5> QED
            BY <1>3, <5>1
        <4>2. CASE ~forced
          <5>1. Unforced = turns
            BY <4>2 DEF Unforced
          <5>2. Current.calls # <<>>
            BY <2>2
          <5>3. Len(played) + 1 =< Len(scenario.script) /\ Len(played) \in Nat
            BY <1>1, <4>2, <5>2, Hearing DEF StreamInvariant, TypeOK
          <5>4. scenario.script # <<>>
            BY <5>3
          <5>5. turns >= 1
            BY <1>1, <1>3, <4>2 DEF StreamInvariant, CallsShape
          <5> QED
            BY <1>3, <4>2, <5>1, <5>4, <5>5
        <4> QED
          BY <4>1, <4>2
      <3>2. \A i \in DOMAIN ids' : (i \in DOMAIN ids /\ ids'[i] = ids[i]) \/ ids'[i] = use
        <4> HIDE DEF use
        <4> QED
          BY <1>3, <2>4, <2>7
      <3>3. heard'.tools # <<>>
        BY <1>3, <2>4, <2>5
      <3> QED
        BY <1>1, <1>6, <2>6, <3>1, <3>2, <3>3 DEF IdsShape, StreamInvariant
    <2> QED
      BY <1>7, <1>8, <2>8, <2>9, <2>10 DEF StreamInvariant
  <1>12. CASE ~StartsTool(e)
    <2>1. heard' = (IF e.kind = "messageStop" THEN [heard EXCEPT !.reason = e.of[1]] ELSE heard)
          /\ ids' = ids
      BY <1>12 DEF Yield
    <2>2. e.kind = "messageStop" <=> n + 1 = Len(w) - 1
      <3> HIDE DEF w, n, c, m, e
      <3> QED
        BY <1>4, <1>14, <1>15
    <2>3. heard'.tools = heard.tools
          /\ heard'.reason = IF n + 1 = Len(w) - 1 THEN Reason(Current) ELSE heard.reason
      <3> HIDE DEF w, n, c, m, e
      <3> QED
        BY <1>3, <1>4, <1>14, <1>15, <2>1, <2>2
    <2>4. TypeOK'
      <3>1. Reason(Current) \in {"tool_use", "end_turn"}
        BY DEF Reason
      <3>2. e.kind = "messageStop" => e.of[1] = Reason(Current)
        <4> HIDE DEF w, n, e
        <4> QED
          BY <1>4, <1>14, <2>2
      <3>3. heard' \in [tools : Seq(Names), reason : {None, "tool_use", "end_turn"}]
        <4>1. heard.tools \in Seq(Names)
          BY <1>3
        <4> HIDE DEF e
        <4>2. CASE e.kind = "messageStop"
          BY <1>3, <2>1, <3>1, <3>2, <4>1, <4>2, HeardMore
        <4>3. CASE e.kind # "messageStop"
          BY <1>3, <2>1, <4>3
        <4> QED
          BY <4>2, <4>3
      <3> QED
        BY <1>3, <1>9, <2>1, <3>3
    <2>5. StreamShape'
      <3> HIDE DEF w, n, c, e
      <3>1. heard'.reason = IF n + 1 < Len(w) - 1 THEN None ELSE Reason(Current)
        <4>1. heard.reason = IF n < Len(w) - 1 THEN None ELSE Reason(Current)
          BY <1>2
        <4> QED
          BY <1>15, <2>3, <4>1
      <3>2. m = c \/ n + 1 < 3 * m + 2
        <4>1. SUFFICES ASSUME m # c, n + 1 = 3 * m + 2
                       PROVE  FALSE
          <5> HIDE DEF m
          <5> QED
            BY <1>15
        <4>2. m + 1 \in 1 .. c /\ 3 * (m + 1) - 1 = n + 1
          <5> HIDE DEF m
          <5> QED
            BY <1>15, <4>1
        <4>3. StartsTool(w[n + 1])
          <5> HIDE DEF m
          <5> QED
            BY <1>13, <4>2
        <4> QED
          BY <1>4, <1>12, <4>3
      <3>3. m = 0 \/ 3 * m - 1 =< n + 1
        <4> HIDE DEF m
        <4> QED
          BY <1>15
      <3>4. Len(heard'.tools) = m
        BY <2>3
      <3> QED
        BY <1>2, <1>10, <2>3, <3>1, <3>2, <3>3, <3>4
    <2>6. IdsShape'
      BY <1>1, <1>6, <2>1, <2>3 DEF IdsShape, StreamInvariant
    <2> QED
      BY <1>7, <1>8, <2>4, <2>5, <2>6 DEF StreamInvariant
  <1> QED
    BY <1>11, <1>12

\* The loop has heard a whole turn, and a forced one has the output.
LEMMA Heard ==
  ASSUME StreamInvariant, Conclude
  PROVE  LET c == Len(Current.calls) IN
         /\ Current.calls \in Seq(Call) /\ c \in Nat
         /\ heard.tools = [k \in 1 .. c |-> Current.calls[k].name]
         /\ heard.reason = Reason(Current)
         /\ ~forced /\ Current.calls # <<>> => Len(played) + 1 =< Len(scenario.script)
         /\ forced => EndRun
  <1> DEFINE w == StepTurn(Current, step_index)
             n == Len(w) - Len(stream)
             m == Len(heard.tools)
             c == Len(Current.calls)
  <1>1. /\ Current.calls \in Seq(Call) /\ c \in Nat
        /\ TurnIs(w, Current, step_index)
        /\ Len(w) \in Nat /\ m \in 0 .. c
        /\ m = c \/ n < 3 * m + 2
        /\ heard.tools = [k \in 1 .. m |-> Current.calls[k].name]
        /\ heard.reason = IF n < Len(w) - 1 THEN None ELSE Reason(Current)
        /\ ~forced /\ Current.calls # <<>> => Len(played) + 1 =< Len(scenario.script)
    BY Hearing DEF Conclude
  <1>2. Len(w) >= 3 * c + 3
    BY <1>1 DEF TurnIs
  <1>3. Len(stream) = 0
    BY DEF Conclude
  <1>4. n = Len(w) /\ m = c
    <2>1. n = Len(w)
      <3> HIDE DEF w
      <3> QED
        BY <1>1, <1>3
    <2> HIDE DEF w, n, m, c
    <2> QED
      BY <1>1, <1>2, <2>1
  <1>5. heard.reason = Reason(Current)
    <2> HIDE DEF w, n
    <2> QED
      BY <1>1, <1>4
  <1>6. ASSUME forced PROVE EndRun
    <2>1. Current = ForcedStep
      BY <1>6 DEF Current
    <2>2. Current.calls # <<>> /\ c = 1 /\ Current.calls[1].name = OutputModel
      BY <2>1, ForcedTyped DEF StreamInvariant
    <2>3. heard.tools = [k \in 1 .. 1 |-> Current.calls[k].name]
      BY <1>1, <1>4, <2>2
    <2>4. 1 \in DOMAIN heard.tools /\ heard.tools[1] = OutputModel
      BY <2>2, <2>3
    <2> QED
      BY <1>5, <2>2, <2>4 DEF Conclude, Reason
  <1> QED
    BY <1>1, <1>4, <1>5, <1>6

LEMMA AppendIs ==
  ASSUME NEW S, NEW s \in Seq(S), NEW x \in S, NEW k \in DOMAIN Append(s, x)
  PROVE  \/ k \in DOMAIN s /\ Append(s, x)[k] = s[k]
         \/ k = Len(s) + 1 /\ Append(s, x)[k] = x
  <1>1. /\ Len(s) \in Nat /\ DOMAIN s = 1 .. Len(s)
        /\ DOMAIN Append(s, x) = 1 .. Len(s) + 1
        /\ \A i \in 1 .. Len(s) : Append(s, x)[i] = s[i]
        /\ Append(s, x)[Len(s) + 1] = x
    BY AppendProperties
  <1> QED
    BY <1>1

LEMMA ConcludeKeeps ==
  ASSUME StreamInvariant, Conclude
  PROVE  StreamInvariant'
  <1> DEFINE n == Len(scenario.script)
             c == Len(Current.calls)
  <1>1. /\ scenario \in Scenario /\ n \in Nat /\ (scenario.script = <<>> <=> n = 0)
        /\ turns \in Nat /\ step_index \in Nat /\ Len(played) \in Nat
        /\ played \in Seq(Seq(Names)) /\ heard.tools \in Seq(Names)
        /\ run \in DOMAIN scenario.runs /\ scenario.runs \in Seq(DOMAIN OutputModels)
    BY ModelStreamAssumption DEF StreamInvariant, TypeOK, Scenario
  <1>2. /\ phase = "stream" /\ stream = <<>>
        /\ played' = IF forced THEN played ELSE Append(played, heard.tools)
        /\ UNCHANGED <<scenario, step_index, stream, heard>>
        /\ \/ EndRun
           \/ ~forced /\ phase' = "call" /\ forced' = (heard.reason = "end_turn")
              /\ UNCHANGED <<run, ids, turns>>
    BY Heard DEF Conclude
  <1>3. /\ c \in Nat /\ Current.calls \in Seq(Call)
        /\ heard.tools = [k \in 1 .. c |-> Current.calls[k].name]
        /\ heard.reason = Reason(Current)
        /\ ~forced /\ Current.calls # <<>> => Len(played) + 1 =< n
    BY Heard
  <1>4. played' \in Seq(Seq(Names)) /\ Len(played') = Begun
    BY <1>1, <1>2 DEF Begun
  <1>5. phase' # "stream" /\ phase' # "raised" /\ Begun' = Begun
    <2>1. phase' # "stream" /\ phase' # "raised"
      BY <1>2 DEF EndRun
    <2> QED
      BY <1>1, <1>4, <2>1 DEF Begun
  <1>6. scenario.provider = "fake"
        /\ step_index = (IF scenario.script = <<>> THEN 0 ELSE Begun)
        /\ Unforced \in 0 .. Begun /\ Unforced =< n + 1 /\ Begun \in Nat
    BY <1>1, <1>2 DEF StreamInvariant, CallsShape, Begun
  <1>7. ScriptInOrder'
    <2>1. CASE forced
      BY <1>2, <2>1 DEF ScriptInOrder, StreamInvariant
    <2>2. CASE ~forced
      <3> DEFINE p == Len(played) + 1
                 Plays(k, turn) == turn = IF k =< n
                   THEN [i \in DOMAIN scenario.script[k].calls |-> scenario.script[k].calls[i].name]
                   ELSE <<>>
      <3>1. Current = StepOf(p)
        BY <2>2 DEF Current
      <3>2. DOMAIN Current.calls = 1 .. c
        BY <1>3
      <3>3. Plays(p, heard.tools)
        <4>1. CASE p =< n
          BY <1>3, <3>1, <3>2, <4>1 DEF StepOf
        <4>2. CASE ~(p =< n)
          <5>1. Current.calls = <<>>
            BY <3>1, <4>2 DEF StepOf, DefaultStep
          <5>2. Len(heard.tools) = 0
            BY <1>1, <1>3, <5>1
          <5>3. heard.tools = <<>>
            BY <1>1, <5>2
          <5> QED
            BY <4>2, <5>3
        <4> QED
          BY <4>1, <4>2
      <3>4. \A k \in DOMAIN played : Plays(k, played[k])
        BY DEF StreamInvariant, ScriptInOrder
      <3>5. played' = Append(played, heard.tools)
        BY <1>2, <2>2
      <3>6. \A k \in DOMAIN played' :
              \/ k \in DOMAIN played /\ played'[k] = played[k]
              \/ k = p /\ played'[k] = heard.tools
        <4> TAKE k \in DOMAIN played'
        <4>1. k \in DOMAIN Append(played, heard.tools)
          BY <3>5
        <4>2. \/ k \in DOMAIN played /\ Append(played, heard.tools)[k] = played[k]
              \/ k = p /\ Append(played, heard.tools)[k] = heard.tools
          BY <1>1, <4>1, AppendIs
        <4> QED
          BY <3>5, <4>2
      <3>7. \A k \in DOMAIN played' : Plays(k, played'[k])
        <4> HIDE DEF Plays, p
        <4> QED
          BY <3>3, <3>4, <3>6
      <3> QED
        BY <1>2, <3>7 DEF ScriptInOrder
    <2> QED
      BY <2>1, <2>2
  <1>8. RaisesForAReason' /\ StreamShape'
    BY <1>5 DEF RaisesForAReason, StreamShape
  <1>9. CASE EndRun
    <2>1. /\ phase' \in {"call", "done"} /\ forced' = FALSE /\ ids' = <<>> /\ turns' = 0
          /\ run' \in DOMAIN scenario.runs
      BY <1>1, <1>9 DEF EndRun
    <2>2. TypeOK'
      <3>1. 0 \in 0 .. n + 2
        BY <1>1
      <3>2. <<>> \in Seq([id : ToolUseIds, name : Names, turn : Nat])
        OBVIOUS
      <3> QED
        BY <1>2, <1>4, <2>1, <3>1, <3>2 DEF TypeOK, StreamInvariant
    <2>3. Unforced' = 0
      BY <2>1 DEF Unforced
    <2>4. CallsShape'
      BY <1>1, <1>2, <1>5, <1>6, <2>1, <2>3 DEF CallsShape
    <2>5. IdsShape'
      BY <1>5, <2>1 DEF IdsShape
    <2> QED
      BY <1>7, <1>8, <2>2, <2>4, <2>5 DEF StreamInvariant
  <1>10. CASE ~EndRun
    <2>1. ~forced /\ phase' = "call" /\ forced' = (heard.reason = "end_turn")
          /\ UNCHANGED <<run, ids, turns>>
      BY <1>2, <1>10
    <2>2. TypeOK'
      BY <1>2, <1>4, <2>1 DEF TypeOK, StreamInvariant
    <2>3. Unforced = turns /\ Unforced' = turns
      BY <2>1 DEF Unforced
    <2>4. ~forced' => Unforced' =< n
      <3>1. ASSUME ~forced' PROVE Current.calls # <<>>
        BY <1>3, <2>1, <3>1 DEF Reason
      <3>2. Begun = Len(played) + 1
        BY <1>2, <2>1 DEF Begun
      <3> QED
        BY <1>1, <1>3, <1>6, <2>1, <2>3, <3>1, <3>2
    <2>5. CallsShape'
      BY <1>1, <1>2, <1>5, <1>6, <2>1, <2>3, <2>4 DEF CallsShape
    <2>6. forced' => \A i \in DOMAIN ids : ids[i].turn # turns
      <3>1. ASSUME forced' PROVE heard.tools = <<>>
        <4>1. Current.calls = <<>>
          BY <1>3, <2>1, <3>1 DEF Reason
        <4>2. Len(heard.tools) = 0
          BY <1>1, <1>3, <4>1
        <4> QED
          BY <1>1, <4>2
      <3> QED
        BY <1>2, <3>1 DEF IdsShape, StreamInvariant
    <2>7. IdsShape'
      BY <1>2, <1>5, <2>1, <2>3, <2>6 DEF IdsShape, StreamInvariant
    <2> QED
      BY <1>7, <1>8, <2>2, <2>5, <2>7 DEF StreamInvariant
  <1> QED
    BY <1>9, <1>10

LEMMA StepInvariant == StreamInvariant /\ [Next]_vars => StreamInvariant'
  <1> SUFFICES ASSUME StreamInvariant, [Next]_vars PROVE StreamInvariant'
    OBVIOUS
  <1>1. CASE BuildStrandsModel
    BY <1>1, BuildKeeps
  <1>2. CASE StreamStep
    BY <1>2, StreamStepKeeps
  <1>3. CASE StreamForcedStructuredOutput
    BY <1>3, ForcedStepKeeps
  <1>4. CASE Yield
    BY <1>4, YieldKeeps
  <1>5. CASE Conclude
    BY <1>5, ConcludeKeeps
  <1>6. CASE UNCHANGED vars
    <2> USE <1>6 DEF vars
    <2>1. TypeOK' /\ ScriptInOrder'
      BY DEF StreamInvariant, TypeOK, ScriptInOrder
    <2>2. OutputModel' = OutputModel /\ Current' = Current
      BY DEF OutputModel, Current, StepOf, ForcedStep
    <2>3. RaisesForAReason'
      BY <2>2 DEF StreamInvariant, RaisesForAReason, ResolveStructuredInstance, PreparedAnswer
    <2>4. StreamShape'
      BY <2>2 DEF StreamInvariant, StreamShape
    <2>5. CallsShape' /\ IdsShape'
      BY DEF StreamInvariant, CallsShape, IdsShape, Unforced, Begun
    <2> QED
      BY <2>1, <2>3, <2>4, <2>5 DEF StreamInvariant
  <1> QED
    BY <1>1, <1>2, <1>3, <1>4, <1>5, <1>6 DEF Next

-----------------------------------------------------------------------------
(* The theorems. *)

THEOREM StreamInvariance == Spec => []StreamInvariant
  BY InitInvariant, StepInvariant, PTL DEF Spec

\* Types; and no run calls the model more often than the script has steps and twice
\* more, however long it asks for tools.
THEOREM TypeCorrect == Spec => []TypeOK
  <1>1. StreamInvariant => TypeOK
    BY DEF StreamInvariant
  <1> QED
    BY <1>1, StreamInvariance, PTL

\* Any script is played in order, whatever is forced between its steps.
THEOREM ScriptIsPlayed == Spec => []ScriptInOrder
  <1>1. StreamInvariant => ScriptInOrder
    BY DEF StreamInvariant
  <1> QED
    BY <1>1, StreamInvariance, PTL

\* The index, with which ids are generated, grows from turn to turn, but for a forced
\* turn, and then the turn before it had no tool use.
THEOREM IdsDiffer == Spec => []IdsTellTurnsApart
  <1>1. StreamInvariant => IdsTellTurnsApart
    <2> SUFFICES ASSUME StreamInvariant,
                        NEW i \in DOMAIN ids, NEW j \in DOMAIN ids,
                        Generated(ids[i].id), ids[i].id = ids[j].id
                 PROVE  ids[i].turn = ids[j].turn /\ ids[i].name = ids[j].name
      BY DEF IdsTellTurnsApart
    <2> DEFINE Index(t) == IF t = Unforced + 1 THEN step_index ELSE step_index - (Unforced - t)
    <2>1. \A k \in {i, j} :
            /\ ids[k].turn \in 1 .. turns /\ Generated(ids[k].id)
            /\ scenario.script = <<>> => ids[k].turn = Unforced + 1
            /\ forced => ids[k].turn # Unforced
            /\ ids[k].id = DeterministicToolUseId(Index(ids[k].turn), ids[k].name)
      BY DEF StreamInvariant, IdsShape
    <2>2. Index(ids[i].turn) = Index(ids[j].turn) /\ ids[i].name = ids[j].name
      <3>1. \A a, b, x, y : [seed |-> <<a, x>>] = [seed |-> <<b, y>>] => a = b /\ x = y
        <4> SUFFICES ASSUME NEW a, NEW b, NEW x, NEW y,
                            [seed |-> <<a, x>>] = [seed |-> <<b, y>>]
                     PROVE  a = b /\ x = y
          OBVIOUS
        <4>1. [seed |-> <<a, x>>].seed = [seed |-> <<b, y>>].seed
          OBVIOUS
        <4> QED
          BY <4>1
      <3> HIDE DEF Index
      <3> QED
        BY <2>1, <3>1 DEF DeterministicToolUseId
    <2>3. /\ turns \in Nat /\ step_index \in Nat
          /\ Unforced \in Nat /\ turns =< Unforced + 1 /\ (~forced => turns = Unforced)
      BY DEF StreamInvariant, TypeOK, CallsShape, Unforced, Begun
    <2> QED
      BY <2>1, <2>2, <2>3
  <1> QED
    BY <1>1, StreamInvariance, PTL

\* With the offline model an exception is the fault of an answer that was prepared, by
\* the responder or, without one, by an entry of the mapping: everything else comes to
\* an output, since a model that was made to answer does, and every output model can be
\* made (model_gateway/strands_models.py:368-412).
THEOREM OnlyPreparedRaise == Spec => []OnlyPreparedAnswersRaise
  <1>1. StreamInvariant => OnlyPreparedAnswersRaise
    <2> SUFFICES ASSUME StreamInvariant, phase = "raised", scenario.provider = "fake"
                 PROVE  PreparedAnswer(OutputModel) = "wrong"
      BY DEF OnlyPreparedAnswersRaise
    <2>1. ~ResolveStructuredInstance(OutputModel)
      BY DEF StreamInvariant, RaisesForAReason, Providers
    <2>2. OutputModel \in DOMAIN OutputModels /\ scenario \in Scenario
      BY ModelStreamAssumption DEF StreamInvariant, TypeOK, Scenario, OutputModel
    <2>3. PreparedAnswer(OutputModel) \in Prepared
      BY <2>2 DEF Scenario, PreparedAnswer
    <2>4. SynthesizeModel[OutputModel]
      BY <2>2, EveryModelIsMade
    <2> QED
      BY <2>1, <2>3, <2>4 DEF ResolveStructuredInstance, Prepared
  <1> QED
    BY <1>1, StreamInvariance, PTL

-----------------------------------------------------------------------------
(* The runs come to an end. *)

LEMMA TurnsHaveLengths ==
  ASSUME TypeOK
  PROVE  /\ Len(StepTurn(NextStep, IndexAfter)) \in Nat
         /\ Len(StepTurn(ForcedStep, step_index)) \in Nat
  <1>1. NextStep = StepOf(step_index + 1) /\ step_index + 1 \in Nat \ {0}
    <2>1. step_index \in Nat /\ Len(scenario.script) \in Nat
      BY ModelStreamAssumption DEF TypeOK, Scenario
    <2> QED
      BY <2>1 DEF NextStep, StepOf
  <1>2. TurnIs(StepTurn(NextStep, IndexAfter), NextStep, IndexAfter)
    BY <1>1, StepsTyped, Turns
  <1>3. TurnIs(StepTurn(ForcedStep, step_index), ForcedStep, step_index)
    BY ForcedTyped, Turns
  <1> QED
    BY <1>2, <1>3 DEF TurnIs

LEMMA YieldShortens ==
  ASSUME StreamInvariant, Yield
  PROVE  Len(stream) \in Nat /\ Len(stream') \in Nat /\ Len(stream') < Len(stream)
  <1> DEFINE w == StepTurn(Current, step_index)
             n == Len(w) - Len(stream)
             k == Len(w) - n
  <1>1. phase = "stream" /\ stream # <<>> /\ stream' = Tail(stream)
    BY DEF Yield
  <1>2. k \in Nat /\ Len(stream) = k /\ stream = [i \in 1 .. k |-> w[n + i]]
    BY <1>1, Hearing
  <1>3. stream \in Seq({stream[i] : i \in 1 .. k})
    <2> HIDE DEF k, n, w
    <2> QED
      BY <1>2
  <1>4. Len(stream') = Len(stream) - 1 /\ Len(stream) \in Nat /\ Len(stream) # 0
    <2> HIDE DEF k, n, w
    <2> QED
      BY <1>1, <1>2, <1>3, TailIs
  <1> QED
    BY <1>4

LEMMA StreamGoesForward == StreamInvariant /\ Next => StreamAdvances
  <1> SUFFICES ASSUME StreamInvariant, Next PROVE StreamAdvances
    OBVIOUS
  <1> DEFINE R == Len(scenario.runs)
             S == Len(scenario.script)
  <1>1. R \in Nat /\ S \in Nat /\ scenario' = scenario
    BY ModelStreamAssumption
       DEF StreamInvariant, TypeOK, Scenario, Next, BuildStrandsModel, StreamStep,
           StreamForcedStructuredOutput, Yield, Conclude
  <1>2. run \in 1 .. R /\ turns \in 0 .. S + 2
    BY ModelStreamAssumption DEF StreamInvariant, TypeOK, Scenario
  <1>3. run' \in 1 .. R /\ turns' \in 0 .. S + 2
    <2>1. TypeOK'
      BY StepInvariant DEF StreamInvariant
    <2>2. run' \in DOMAIN scenario.runs /\ DOMAIN scenario.runs = 1 .. R
      BY <1>1, <2>1, ModelStreamAssumption DEF StreamInvariant, TypeOK, Scenario
    <2> QED
      BY <1>1, <2>1, <2>2 DEF TypeOK
  <1>4. /\ RunsLeft = IF phase = "done" THEN 0 ELSE R - run + 1
        /\ RunsLeft' = IF phase' = "done" THEN 0 ELSE R - run' + 1
        /\ TurnsLeft = S + 2 - turns /\ TurnsLeft' = S + 2 - turns'
    BY <1>1 DEF RunsLeft, TurnsLeft
  <1>5. RunsLeft' \in Nat /\ TurnsLeft' \in Nat
    <2>1. \A n \in Nat : \A i \in 1 .. n : n - i + 1 \in Nat
      OBVIOUS
    <2>2. \A n \in Nat : \A i \in 0 .. n + 2 : n + 2 - i \in Nat
      OBVIOUS
    <2>3. R - run' + 1 \in Nat /\ S + 2 - turns' \in Nat
      BY <1>1, <1>3, <2>1, <2>2
    <2> QED
      BY <1>4, <2>3
  <1>6. CASE BuildStrandsModel
    <2>1. phase = "build" /\ phase' \notin {"build", "stream", "done"} /\ run' = run /\ turns' = turns
      BY <1>6 DEF BuildStrandsModel
    <2>2. EventsLeft' = 0 /\ EventsLeft = 1
      BY <2>1 DEF EventsLeft
    <2>3. RunsLeft' = RunsLeft /\ TurnsLeft' = TurnsLeft
      BY <1>4, <2>1
    <2> QED
      BY <1>5, <2>2, <2>3 DEF StreamAdvances
  <1>7. CASE StreamStep \/ StreamForcedStructuredOutput
    <2>1. phase = "call" /\ phase' \in {"stream", "raised"} /\ run' = run /\ turns' = turns + 1
      BY <1>7 DEF StreamStep, StreamForcedStructuredOutput
    <2>2. EventsLeft' \in Nat
      <3>1. phase' = "stream" =>
              stream' \in {StepTurn(NextStep, IndexAfter), StepTurn(ForcedStep, step_index)}
        BY <1>7 DEF StreamStep, StreamForcedStructuredOutput
      <3>2. phase' = "stream" => Len(stream') \in Nat
        BY <3>1, TurnsHaveLengths DEF StreamInvariant
      <3> QED
        BY <2>1, <3>2 DEF EventsLeft
    <2>3. RunsLeft' = RunsLeft
      BY <1>4, <2>1
    <2>4. TurnsLeft' < TurnsLeft
      <3> HIDE DEF S
      <3> QED
        BY <1>1, <1>2, <1>4, <2>1
    <2> QED
      BY <1>5, <2>2, <2>3, <2>4 DEF StreamAdvances
  <1>8. CASE Yield
    <2>1. phase = "stream" /\ phase' = "stream" /\ run' = run /\ turns' = turns
      BY <1>8 DEF Yield
    <2>2. EventsLeft' \in Nat /\ EventsLeft' < EventsLeft
      BY <1>8, <2>1, YieldShortens DEF EventsLeft
    <2>3. RunsLeft' = RunsLeft /\ TurnsLeft' = TurnsLeft
      BY <1>4, <2>1
    <2> QED
      BY <1>5, <2>2, <2>3 DEF StreamAdvances
  <1>9. CASE Conclude
    <2>1. phase = "stream" /\ stream = <<>> /\ phase' \in {"call", "done", "raised"}
      BY <1>9 DEF Conclude, EndRun
    <2>2. EventsLeft' = 0 /\ EventsLeft = 1
      BY <2>1 DEF EventsLeft
    <2>3. CASE UNCHANGED <<run, turns>> /\ phase' # "done"
      <3>1. RunsLeft' = RunsLeft /\ TurnsLeft' = TurnsLeft
        BY <1>4, <2>1, <2>3
      <3> QED
        BY <1>5, <2>2, <3>1 DEF StreamAdvances
    <2>4. CASE EndRun
      <3>1. RunsLeft' < RunsLeft
        <4>1. IF run < R THEN phase' = "call" /\ run' = run + 1 ELSE phase' = "done" /\ run' = run
          BY <2>4 DEF EndRun
        <4> HIDE DEF R
        <4> QED
          BY <1>1, <1>2, <1>4, <2>1, <4>1
      <3> QED
        BY <1>5, <2>2, <3>1 DEF StreamAdvances
    <2> QED
      BY <1>9, <2>3, <2>4 DEF Conclude
  <1> QED
    BY <1>6, <1>7, <1>8, <1>9 DEF Next

\* However long a script asks for tools, the runs come to an end
\* (model_gateway/strands_models.py:237-248).
THEOREM RunsComeToAnEnd == Spec => StreamEnds
  <1>1. StreamInvariant /\ [Next]_vars => [StreamAdvances]_vars
    BY StreamGoesForward
  <1> QED
    BY <1>1, StreamInvariance, PTL DEF Spec, StreamEnds
=============================================================================
