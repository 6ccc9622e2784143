--------------------------- MODULE SupervisorProofs ---------------------------
(***************************************************************************)
(* Proofs about SupervisorWorkflow, for every set of tasks and of plans.    *)
(***************************************************************************)
EXTENDS SupervisorProperties, FiniteSetTheorems, WellFoundedInduction, TLAPS

\* A non-empty set of numbers up to L has a least element: of the intervals
\* 1 .. n that end in the set, one contains no other.
LEMMA LeastNumber ==
  ASSUME NEW L \in Nat, NEW N, N \subseteq 1 .. L, N # {}
  PROVE  \E m \in N : \A n \in N : m =< n
<1> DEFINE T == {1 .. n : n \in N}
           Less == StrictSubsetOrdering(1 .. L)
           All == FiniteSubsetsOf(1 .. L)
<1>1. IsWellFoundedOn(Less, All)
  BY FS_StrictSubsetOrderingWellFounded
<1>2. T \subseteq All /\ T # {}
  <2>1. IsFiniteSet(1 .. L) BY FS_Interval
  <2>2. All = SUBSET (1 .. L) BY <2>1, FS_FiniteSubsetsOfFinite
  <2>3. ASSUME NEW n \in N PROVE 1 .. n \in All
    <3> HIDE DEF All
    <3> QED BY <2>2
  <2> HIDE DEF All
  <2> QED BY <2>3
<1>3. PICK x \in T : \A y \in T : <<y, x>> \notin Less
  <2> HIDE DEF T, Less, All
  <2> QED BY <1>1, <1>2, WFMin
<1>4. PICK m \in N : x = 1 .. m
  OBVIOUS
<1>5. ASSUME NEW n \in N PROVE m =< n
  <2>1. SUFFICES ASSUME n < m PROVE FALSE
    OBVIOUS
  <2>2. 1 .. n \subseteq 1 .. m /\ 1 .. n # 1 .. m
    BY <2>1
  <2>3. 1 .. n \in SUBSET (1 .. L) /\ 1 .. m \in SUBSET (1 .. L)
    OBVIOUS
  <2>4. <<1 .. n, x>> \in Less
    BY <2>2, <2>3, <1>4 DEF StrictSubsetOrdering
  <2> QED BY <2>4, <1>3
<1> QED BY <1>5

\* The task a batch begins with is a task of that batch.
LEMMA FirstOfIsMember ==
  ASSUME NEW p \in PlanOver(Tasks), NEW S, S \subseteq PlanTasks(p), S # {}
  PROVE  FirstOf(p, S) \in S
<1>1. \A t \in S : Position(p, t) \in 1 .. Len(p.order)
  BY DEF PlanTasks, Position
<1>2. Len(p.order) \in Nat
  BY DEF PlanOver
<1> DEFINE N == {Position(p, t) : t \in S}
<1>3. PICK m \in N : \A n \in N : m =< n
  <2>1. N \subseteq 1 .. Len(p.order) /\ N # {} BY <1>1
  <2> HIDE DEF N
  <2> QED BY <1>2, <2>1, LeastNumber
<1>4. \E t \in S : \A u \in S : Position(p, t) =< Position(p, u)
  BY <1>3
<1> QED BY <1>4 DEF FirstOf

-----------------------------------------------------------------------------
\* The parts of a plan that may be delivered have their types.
LEMMA PlanParts ==
  ASSUME NEW p \in Plans
  PROVE  /\ p \in PlanOver(Tasks)
         /\ PlanTasks(p) \subseteq Tasks
         /\ p.deps \in [Tasks -> SUBSET Tasks]
         /\ p.gated \subseteq Tasks
         /\ p # NoPlan
BY PlansAssumption DEF PlanOver, PlanTasks

\* The initial state satisfies the invariant.
LEMMA InitInvariant == Init => InductiveInvariant
<1> SUFFICES ASSUME Init PROVE InductiveInvariant
  OBVIOUS
<1>1. TypeOK
  BY DEF Init, TypeOK, NoArtifacts, NoDecisions, Open, Closed, RunStatus, TaskState,
         Decision, Reason
<1>2. PlanShape /\ LoopShape /\ StateShape
  BY DEF Init, PlanShape, LoopShape, StateShape, InBatch
<1>3. GatedTasksAreApproved /\ DependenciesHandedOver /\ NeverUnresolved /\ CompletedMeansAllDone
  BY DEF Init, GatedTasksAreApproved, DependenciesHandedOver, NeverUnresolved,
         CompletedMeansAllDone
<1> QED BY <1>1, <1>2, <1>3 DEF InductiveInvariant

\* Handing a task to its gate or to its child preserves the invariant, given
\* what the caller leaves in the loop's variables.
LEMMA BeginTaskInvariant ==
  ASSUME InductiveInvariant, plan # NoPlan, UNCHANGED <<plan, control, shown_approvals>>,
         status # "completed",
         NEW t, NEW rest, NEW states \in [Tasks -> TaskState],
         NEW artifacts \in [Tasks -> SUBSET Tasks],
         t \in pending' \ rest, rest \subseteq pending',
         \A u \in rest \cup {t} : plan.deps[u] \subseteq completed',
         pending' \cup completed' = PlanTasks(plan), pending' \cap completed' = {},
         completed \subseteq completed', dispatched = completed',
         artifacts_by_task' = artifacts,
         \A u \in completed : artifacts[u] = artifacts_by_task[u],
         \A u \in completed' : states[u] = "completed",
         \A u \in Tasks : states[u] # "running",
         BeginTask(t, rest, states, artifacts)
  PROVE  InductiveInvariant'
<1> USE DEF InductiveInvariant
<1>p. /\ plan \in Plans /\ plan' = plan
      /\ PlanTasks(plan) \subseteq Tasks /\ plan.gated \subseteq Tasks
      /\ plan.deps \in [Tasks -> SUBSET Tasks]
  BY PlanParts DEF TypeOK
<1>t. t \in Tasks /\ pending' \subseteq Tasks /\ completed' \subseteq Tasks
  BY <1>p
<1>n. \A u \in dispatched : u # t
  OBVIOUS
<1>r. /\ DependencyArtifacts(t, artifacts) \in SUBSET Tasks
  BY <1>p, <1>t DEF DependencyArtifacts
<1>1. TypeOK'
  <2>1. /\ pc' \in {"gate", "child"} /\ current' = t /\ runnable' = rest
        /\ status' \in {status, "waiting_for_approval"}
        /\ blocked_reason' \in {blocked_reason, "awaiting approval"}
    BY DEF BeginTask
  <2>2. \E st \in {"pending", "running"} : task_states' = [states EXCEPT ![t] = st]
    BY DEF BeginTask
  <2>3. task_states' \in [Tasks -> TaskState]
    BY <2>2 DEF TaskState
  <2>4. /\ dispatched' \subseteq Tasks /\ approved_context' \subseteq Tasks
        /\ input_refs' \in [Tasks -> SUBSET Tasks]
    <3>1. CASE t \in plan.gated
      BY <3>1 DEF TypeOK, BeginTask, children
    <3>2. CASE t \notin plan.gated
      BY <3>2, <1>t, <1>r DEF TypeOK, BeginTask
    <3> QED BY <3>1, <3>2
  <2> QED BY <2>1, <2>3, <2>4, <1>p, <1>t DEF TypeOK, control, Open, RunStatus, Reason
<1>2. PlanShape'
  BY <1>p DEF PlanShape, BeginTask, InBatch
<1>3. LoopShape'
  BY <1>p DEF LoopShape, BeginTask, InBatch, children
<1>4. StateShape'
  <2>1. t \notin completed' OBVIOUS
  <2>2. CASE t \in plan.gated
    BY <2>1, <2>2, <1>t DEF StateShape, BeginTask
  <2>3. CASE t \notin plan.gated
    BY <2>1, <2>3, <1>t DEF StateShape, BeginTask
  <2> QED BY <2>2, <2>3
<1>5. GatedTasksAreApproved'
  BY <1>p, <1>n DEF GatedTasksAreApproved, BeginTask, control, children
<1>6. DependenciesHandedOver'
  <2>1. \A u \in dispatched : plan.deps[u] \subseteq completed
                           /\ input_refs[u] = UNION {artifacts_by_task[d] : d \in plan.deps[u]}
    BY DEF DependenciesHandedOver
  <2>2. \A u \in dispatched : UNION {artifacts[d] : d \in plan.deps[u]}
                             = UNION {artifacts_by_task[d] : d \in plan.deps[u]}
    BY <2>1
  <2>3. CASE t \in plan.gated
    <3>1. dispatched' = dispatched /\ input_refs' = input_refs
      BY <2>3 DEF BeginTask, children
    <3> QED BY <3>1, <2>1, <2>2, <1>p DEF DependenciesHandedOver
  <2>4. CASE t \notin plan.gated
    <3>1. dispatched' = dispatched \cup {t}
          /\ input_refs' = [input_refs EXCEPT ![t] = DependencyArtifacts(t, artifacts)]
      BY <2>4 DEF BeginTask
    <3>2. input_refs'[t] = UNION {artifacts[d] : d \in plan.deps[t]}
      BY <3>1, <1>t DEF TypeOK, DependencyArtifacts
    <3>3. \A u \in dispatched : input_refs'[u] = input_refs[u]
      BY <3>1, <1>t, <1>n DEF TypeOK
    <3> QED BY <3>1, <3>2, <3>3, <2>1, <2>2, <1>p DEF DependenciesHandedOver
  <2> QED BY <2>3, <2>4
<1>7. NeverUnresolved' /\ CompletedMeansAllDone'
  BY DEF NeverUnresolved, CompletedMeansAllDone, BeginTask
<1> QED BY <1>1, <1>2, <1>3, <1>4, <1>5, <1>6, <1>7

\* The first step moves the control state and the shown status.
LEMMA StartInvariant == InductiveInvariant /\ Start => InductiveInvariant'
<1> SUFFICES ASSUME InductiveInvariant, Start PROVE InductiveInvariant'
  OBVIOUS
<1> USE DEF InductiveInvariant, Start, control, locals, children
<1>1. TypeOK' BY DEF TypeOK, Open, RunStatus
<1>2. PlanShape' BY DEF PlanShape, InBatch
<1>3. LoopShape' BY DEF LoopShape, InBatch
<1>4. StateShape' BY DEF StateShape
<1>5. GatedTasksAreApproved' BY DEF GatedTasksAreApproved
<1>6. DependenciesHandedOver' BY DEF DependenciesHandedOver
<1>7. NeverUnresolved' /\ CompletedMeansAllDone'
  BY DEF NeverUnresolved, CompletedMeansAllDone
<1> QED BY <1>1, <1>2, <1>3, <1>4, <1>5, <1>6, <1>7

\* Losing the plan's activity or the child only moves the control state.
LEMMA FailureInvariant ==
  InductiveInvariant /\ (PlanningFails \/ ChildFails) => InductiveInvariant'
<1> SUFFICES ASSUME InductiveInvariant, PlanningFails \/ ChildFails
             PROVE  InductiveInvariant'
  OBVIOUS
<1>u. /\ pc' = "raised" /\ pc \in {"planning", "child"}
      /\ UNCHANGED <<plan, control, locals, snapshot, children>>
  BY DEF PlanningFails, ChildFails
<1> USE DEF InductiveInvariant, control, locals, snapshot, children
<1>1. TypeOK' BY <1>u DEF TypeOK, Closed
<1>2. PlanShape' BY <1>u DEF PlanShape, InBatch
<1>3. LoopShape' BY <1>u DEF LoopShape, InBatch
<1>4. StateShape' BY <1>u DEF StateShape
<1>5. GatedTasksAreApproved' BY <1>u DEF GatedTasksAreApproved
<1>6. DependenciesHandedOver' BY <1>u DEF DependenciesHandedOver
<1>7. NeverUnresolved' /\ CompletedMeansAllDone'
  BY <1>u DEF NeverUnresolved, CompletedMeansAllDone
<1> QED BY <1>1, <1>2, <1>3, <1>4, <1>5, <1>6, <1>7

\* A valid plan is taken over with all its tasks pending.
LEMMA PlanDeliveredInvariant ==
  ASSUME InductiveInvariant, NEW p \in Plans, PlanDelivered(p)
  PROVE  InductiveInvariant'
<1> USE DEF InductiveInvariant, control, locals, children
<1>p. /\ pc = "planning" /\ plan = NoPlan
      /\ pending = {} /\ completed = {} /\ dispatched = {} /\ approved_context = {}
  BY DEF PlanDelivered, PlanShape
<1>u. /\ UNCHANGED <<control, completed, runnable, current, artifacts_by_task,
                     task_states, blocked_reason, children>>
      /\ pc' \in {"returned", "loop", "stuck"}
  BY DEF PlanDelivered, Complete
<1>t. PlanTasks(p) \subseteq Tasks /\ p # NoPlan
  BY PlanParts
<1>1. TypeOK'
  BY <1>p, <1>u, <1>t DEF TypeOK, PlanDelivered, Complete, Open, Closed, RunStatus
<1>2. PlanShape'
  BY <1>p, <1>u, <1>t DEF PlanShape, PlanDelivered, Complete, InBatch
<1>3. LoopShape'
  BY <1>p, <1>u DEF LoopShape, PlanDelivered, Complete, InBatch
<1>4. StateShape'
  BY <1>p, <1>u DEF StateShape
<1>5. GatedTasksAreApproved' /\ DependenciesHandedOver' /\ NeverUnresolved'
  BY <1>p, <1>u DEF GatedTasksAreApproved, DependenciesHandedOver, NeverUnresolved
<1>6. CompletedMeansAllDone'
  BY <1>p, <1>u DEF CompletedMeansAllDone, PlanDelivered, Complete
<1> QED BY <1>1, <1>2, <1>3, <1>4, <1>5, <1>6

\* Acyclicity at work: while tasks are pending, one of them is runnable.
LEMMA SomeTaskIsRunnable ==
  ASSUME InductiveInvariant, plan # NoPlan, pending # {}
  PROVE  RunnableTasks # {}
<1>1. /\ ValidPlan(plan) /\ pending \subseteq PlanTasks(plan)
      /\ PlanTasks(plan) \subseteq pending \cup completed
  BY DEF InductiveInvariant, PlanShape
<1>2. PICK t \in pending : plan.deps[t] \cap pending = {}
  BY <1>1 DEF ValidPlan, Acyclic
<1>3. plan.deps[t] \subseteq PlanTasks(plan)
  BY <1>1 DEF ValidPlan, KnownDependencies
<1>4. plan.deps[t] \subseteq completed
  BY <1>1, <1>2, <1>3
<1> QED BY <1>4 DEF RunnableTasks

\* The head of the while loop returns with a verdict, or begins a batch.
LEMMA LoopHeadInvariant == InductiveInvariant /\ LoopHead => InductiveInvariant'
<1> SUFFICES ASSUME InductiveInvariant, LoopHead PROVE InductiveInvariant'
  OBVIOUS
<1>p. /\ pc = "loop" /\ plan # NoPlan /\ plan \in Plans
      /\ pending # {} /\ pending \subseteq PlanTasks(plan)
      /\ dispatched = completed /\ status # "completed"
  BY DEF LoopHead, InductiveInvariant, TypeOK, PlanShape, LoopShape, CompletedMeansAllDone
<1>r. RunnableTasks # {} /\ RunnableTasks \subseteq pending
  BY <1>p, SomeTaskIsRunnable DEF RunnableTasks
<1>1. CASE StartBatch
  <2> DEFINE t == FirstOf(plan, RunnableTasks)
  <2>1. t \in RunnableTasks
    BY <1>p, <1>r, PlanParts, FirstOfIsMember
  <2>2. \A u \in RunnableTasks : plan.deps[u] \subseteq completed
    BY DEF RunnableTasks
  <2>3. /\ BeginTask(t, RunnableTasks \ {t}, task_states, artifacts_by_task)
        /\ UNCHANGED <<pending, completed, artifacts_by_task, plan, control, shown_approvals>>
    BY <1>1 DEF StartBatch, LoopHead
  <2>4. /\ task_states \in [Tasks -> TaskState]
        /\ artifacts_by_task \in [Tasks -> SUBSET Tasks]
        /\ \A u \in completed : task_states[u] = "completed"
        /\ \A u \in Tasks : task_states[u] # "running"
        /\ pending \cup completed = PlanTasks(plan) /\ pending \cap completed = {}
    BY <1>p DEF InductiveInvariant, TypeOK, StateShape, PlanShape
  <2> HIDE DEF t
  <2> QED BY <1>p, <1>r, <2>1, <2>2, <2>3, <2>4, BeginTaskInvariant
<1>2. CASE LoopReturns
  <2>1. LoopVerdict \in {"cancel", "replan"}
    BY <1>2, <1>r DEF LoopReturns, LoopVerdict
  <2>2. /\ pc' = "returned"
        /\ status' \in {"cancelled", "waiting_for_approval"}
        /\ blocked_reason' \in {"cancel requested", "replan requested"}
        /\ UNCHANGED <<plan, control, locals, task_states, children, shown_approvals>>
    <3>1. /\ pc' = "returned"
          /\ status' = LoopExit[LoopVerdict].status
          /\ blocked_reason' = LoopExit[LoopVerdict].reason
          /\ UNCHANGED <<plan, control, locals, task_states, children, shown_approvals>>
      BY <1>2 DEF LoopReturns, Return, LoopHead
    <3>2. /\ LoopExit[LoopVerdict].status \in {"cancelled", "waiting_for_approval"}
          /\ LoopExit[LoopVerdict].reason \in {"cancel requested", "replan requested"}
      <4>1. CASE LoopVerdict = "cancel" BY <4>1 DEF LoopExit
      <4>2. CASE LoopVerdict = "replan" BY <4>2 DEF LoopExit
      <4> QED BY <2>1, <4>1, <4>2
    <3> QED BY <3>1, <3>2
  <2> USE DEF InductiveInvariant, control, locals, children
  <2>3. TypeOK' BY <2>2 DEF TypeOK, Closed, RunStatus, Reason
  <2>4. PlanShape' /\ LoopShape' BY <1>p, <2>2 DEF PlanShape, LoopShape, InBatch
  <2>5. StateShape' BY <1>p, <2>2 DEF StateShape
  <2>6. UNCHANGED <<plan, approvals, completed, artifacts_by_task,
                    dispatched, approved_context, input_refs>>
    BY <1>p, <2>2
  <2>7. GatedTasksAreApproved' BY <2>6 DEF GatedTasksAreApproved
  <2>8. DependenciesHandedOver' BY <2>6 DEF DependenciesHandedOver
  <2>9. NeverUnresolved' /\ CompletedMeansAllDone'
    BY <2>2 DEF NeverUnresolved, CompletedMeansAllDone
  <2> QED BY <2>3, <2>4, <2>5, <2>7, <2>8, <2>9
<1> QED BY <1>1, <1>2 DEF LoopHead

\* The gate returns, or lets exactly the task parked at it through.
LEMMA ApprovalGateInvariant == InductiveInvariant /\ ApprovalGate => InductiveInvariant'
<1> SUFFICES ASSUME InductiveInvariant, ApprovalGate PROVE InductiveInvariant'
  OBVIOUS
<1> USE DEF InductiveInvariant, control, locals, children
<1>p. /\ pc = "gate" /\ plan # NoPlan /\ plan \in Plans /\ plan.deps \in [Tasks -> SUBSET Tasks]
      /\ current \in Tasks /\ current \in pending /\ current \notin completed
      /\ current \in plan.gated /\ current \notin dispatched
      /\ plan.deps[current] \subseteq completed
  BY PlanParts DEF ApprovalGate, TypeOK, PlanShape, LoopShape, InBatch
<1>u. UNCHANGED <<plan, control, locals, shown_approvals>>
  BY DEF ApprovalGate
<1>1. CASE GateReturns
  <2>1. /\ pc' = "returned" /\ status' = "cancelled"
        /\ blocked_reason' \in {"cancel requested", "rejected"}
        /\ UNCHANGED <<task_states, children>>
    BY <1>1 DEF GateReturns, Return
  <2>2. TypeOK' BY <1>u, <2>1 DEF TypeOK, Closed, RunStatus, Reason
  <2>3. PlanShape' /\ LoopShape' BY <1>u, <2>1 DEF PlanShape, LoopShape, InBatch
  <2>4. StateShape' BY <1>p, <1>u, <2>1 DEF StateShape
  <2>5. UNCHANGED <<plan, approvals, completed, artifacts_by_task,
                    dispatched, approved_context, input_refs>>
    BY <1>u, <2>1
  <2>6. GatedTasksAreApproved' /\ DependenciesHandedOver'
    <3>1. GatedTasksAreApproved' BY <2>5 DEF GatedTasksAreApproved
    <3>2. DependenciesHandedOver' BY <2>5 DEF DependenciesHandedOver
    <3> QED BY <3>1, <3>2
  <2>7. NeverUnresolved' /\ CompletedMeansAllDone'
    BY <2>1 DEF NeverUnresolved, CompletedMeansAllDone
  <2> QED BY <2>2, <2>3, <2>4, <2>6, <2>7
<1>2. CASE DispatchApproved
  <2>d. DependencyArtifacts(current, artifacts_by_task) \in SUBSET Tasks
    BY <1>p DEF DependencyArtifacts, TypeOK
  <2>1. /\ pc' = "child" /\ status' = "running" /\ blocked_reason' = "none"
        /\ task_states' = [task_states EXCEPT ![current] = "running"]
        /\ dispatched' = dispatched \cup {current}
        /\ approved_context' = approved_context \cup {current}
        /\ input_refs' = [input_refs EXCEPT ![current] =
                            DependencyArtifacts(current, artifacts_by_task)]
    BY <1>2 DEF DispatchApproved
  <2>2. TypeOK'
    BY <1>p, <1>u, <2>1, <2>d DEF TypeOK, Open, RunStatus, Reason, TaskState
  <2>3. PlanShape' BY <1>p, <1>u, <2>1 DEF PlanShape, InBatch
  <2>4. LoopShape' BY <1>p, <1>u, <2>1 DEF LoopShape, InBatch
  <2>5. StateShape' BY <1>p, <1>u, <2>1 DEF StateShape, TypeOK
  <2>6. GatedTasksAreApproved'
    <3>1. approvals[current] # "none"
      BY <1>2 DEF ApprovalGate, DispatchApproved, GateVerdict, GateReleased
    <3> QED BY <3>1, <1>p, <1>u, <2>1 DEF GatedTasksAreApproved
  <2>7. DependenciesHandedOver'
    <3>1. input_refs'[current] = UNION {artifacts_by_task[d] : d \in plan.deps[current]}
      BY <1>p, <2>1 DEF TypeOK, DependencyArtifacts
    <3>2. \A u \in dispatched : input_refs'[u] = input_refs[u]
      BY <1>p, <2>1 DEF TypeOK
    <3> QED BY <3>1, <3>2, <1>p, <1>u, <2>1 DEF DependenciesHandedOver
  <2>8. NeverUnresolved' /\ CompletedMeansAllDone'
    BY <2>1 DEF NeverUnresolved, CompletedMeansAllDone
  <2> QED BY <2>2, <2>3, <2>4, <2>5, <2>6, <2>7, <2>8
<1> QED BY <1>1, <1>2 DEF ApprovalGate

\* A child's result ends the run or moves the loop on to the next task.
LEMMA ChildReturnsInvariant ==
  ASSUME InductiveInvariant, NEW r \in Result, ChildReturns(r)
  PROVE  InductiveInvariant'
<1> DEFINE states    == StatesAfter(r)
           artifacts == [artifacts_by_task EXCEPT ![current] =
                           IF r.artifact_refs THEN {current} ELSE {}]
           left      == PendingAfter(current)
           next      == FirstOf(plan, runnable)
<1>p. /\ pc = "child" /\ plan # NoPlan /\ plan \in Plans /\ status # "completed"
      /\ current \in Tasks /\ current \in pending /\ current \notin runnable
      /\ current \notin completed /\ dispatched = completed \cup {current}
      /\ runnable \subseteq pending /\ pending \subseteq PlanTasks(plan)
      /\ pending \cup completed = PlanTasks(plan) /\ pending \cap completed = {}
      /\ \A t \in runnable : plan.deps[t] \subseteq completed
  BY DEF ChildReturns, InductiveInvariant, TypeOK, PlanShape, LoopShape, InBatch,
         CompletedMeansAllDone
<1>a. /\ artifacts_by_task' = artifacts
      /\ artifacts \in [Tasks -> SUBSET Tasks]
      /\ \A u \in completed : artifacts[u] = artifacts_by_task[u]
  BY <1>p DEF ChildReturns, InductiveInvariant, TypeOK
<1>s. /\ states \in [Tasks -> TaskState]
      /\ \A u \in completed : states[u] = "completed"
      /\ \A u \in Tasks : states[u] # "running"
      /\ states[current] = r.state
  BY <1>p DEF StatesAfter, InductiveInvariant, TypeOK, StateShape, Result, TaskState
<1>u. UNCHANGED <<plan, control>>
  BY DEF ChildReturns
<1>d. /\ \A t \in dispatched : /\ plan.deps[t] \subseteq completed
                               /\ input_refs[t] = UNION {artifacts_by_task[d] : d \in plan.deps[t]}
      /\ \A t \in dispatched : UNION {artifacts[d] : d \in plan.deps[t]}
                             = UNION {artifacts_by_task[d] : d \in plan.deps[t]}
  BY <1>a DEF InductiveInvariant, DependenciesHandedOver
<1> HIDE DEF states, artifacts, left, next
<1>1. CASE r.requires_approval \/ Failed(r)
  <2>1. /\ pc' = "returned" /\ status' \in {"waiting_for_approval", "failed"}
        /\ blocked_reason' = "task result" /\ task_states' = states
        /\ UNCHANGED <<pending, completed, runnable, current, children, shown_approvals>>
    BY <1>1 DEF ChildReturns, Return, states
  <2> USE DEF InductiveInvariant, control, children
  <2>2. TypeOK' BY <1>a, <1>s, <1>u, <2>1 DEF TypeOK, Closed, RunStatus, Reason
  <2>3. PlanShape' /\ LoopShape' BY <1>u, <2>1 DEF PlanShape, LoopShape, InBatch
  <2>4. StateShape' BY <1>s, <2>1 DEF StateShape
  <2>5. GatedTasksAreApproved' BY <1>u, <2>1 DEF GatedTasksAreApproved
  <2>6. DependenciesHandedOver'
    <3>1. /\ dispatched' = dispatched /\ input_refs' = input_refs /\ plan' = plan
          /\ completed' = completed /\ artifacts_by_task' = artifacts
      BY <1>a, <1>u, <2>1
    <3> QED BY <1>d, <3>1 DEF DependenciesHandedOver
  <2>7. NeverUnresolved' /\ CompletedMeansAllDone'
    BY <2>1 DEF NeverUnresolved, CompletedMeansAllDone
  <2> QED BY <2>2, <2>3, <2>4, <2>5, <2>6, <2>7
<1>2. CASE ~r.requires_approval /\ ~Failed(r)
  <2>1. /\ completed' = completed \cup {current} /\ pending' = pending \ {current}
        /\ r.state = "completed"
    BY <1>2 DEF ChildReturns, PendingAfter, Failed
  <2>2. /\ \A u \in completed' : states[u] = "completed"
        /\ pending' \cup completed' = PlanTasks(plan) /\ pending' \cap completed' = {}
        /\ dispatched = completed'
    BY <1>p, <1>s, <2>1
  <2>3. CASE runnable # {}
    <3>1. next \in runnable
      BY <1>p, <2>3, PlanParts, FirstOfIsMember DEF next
    <3>2. /\ BeginTask(next, runnable \ {next}, states, artifacts)
          /\ UNCHANGED shown_approvals
      BY <1>2, <2>3 DEF ChildReturns, states, artifacts, next
    <3>3. /\ next \in pending' \ (runnable \ {next}) /\ runnable \ {next} \subseteq pending'
          /\ \A u \in (runnable \ {next}) \cup {next} : plan.deps[u] \subseteq completed'
      BY <1>p, <2>1, <3>1
    <3> QED BY <1>p, <1>a, <1>s, <1>u, <2>1, <2>2, <3>2, <3>3, BeginTaskInvariant
  <2>4. CASE runnable = {}
    <3>1. /\ current' = NoTask /\ task_states' = states
          /\ UNCHANGED <<runnable, blocked_reason, children>>
          /\ \/ /\ pending' = {} /\ pc' = "returned" /\ status' = "completed"
                /\ shown_approvals' = approvals
             \/ /\ pending' # {} /\ pc' = "loop" /\ UNCHANGED <<status, shown_approvals>>
      BY <1>2, <2>1, <2>4 DEF ChildReturns, Complete, PendingAfter, states
    <3> USE DEF InductiveInvariant, control, children
    <3>2. TypeOK'
      BY <1>p, <1>a, <1>s, <1>u, <2>1, <3>1 DEF TypeOK, Open, Closed, RunStatus
    <3>3. PlanShape' /\ LoopShape'
      BY <1>p, <1>u, <2>1, <2>2, <3>1 DEF PlanShape, LoopShape, InBatch
    <3>4. StateShape' BY <1>s, <2>2, <3>1 DEF StateShape
    <3>5. GatedTasksAreApproved' BY <1>u, <3>1 DEF GatedTasksAreApproved
    <3>6. DependenciesHandedOver'
      BY <1>a, <1>d, <1>u, <2>1, <3>1 DEF DependenciesHandedOver
    <3>7. NeverUnresolved' BY <3>1 DEF NeverUnresolved
    <3>8. CompletedMeansAllDone'
      BY <1>p, <1>u, <2>2, <3>1 DEF CompletedMeansAllDone
    <3> QED BY <3>2, <3>3, <3>4, <3>5, <3>6, <3>7, <3>8
  <2> QED BY <2>3, <2>4
<1> QED BY <1>1, <1>2

\* Signals and updates change the operators' flags and what the snapshot shows.
LEMMA OperatorInvariant == InductiveInvariant /\ Operator => InductiveInvariant'
<1> SUFFICES ASSUME InductiveInvariant, Operator PROVE InductiveInvariant'
  OBVIOUS
<1>1. /\ pc \in Open
      /\ UNCHANGED <<pc, plan, locals, task_states, children>>
      /\ paused' \in {paused, TRUE, FALSE}
      /\ cancel_requested' \in {cancel_requested, TRUE}
      /\ replan_requested' \in {replan_requested, TRUE}
      /\ \/ approvals' = approvals
         \/ \E t \in Tasks : \E d \in {"approved", "rejected"} :
               approvals' = [approvals EXCEPT ![t] = d]
      /\ shown_approvals' \in {shown_approvals, approvals'}
      /\ status' \in {status, "waiting_for_approval", "running", "cancelled"}
      /\ blocked_reason' \in {blocked_reason, "none", "operator pause", "operator cancel",
                              "rejected", "operator replan"}
  BY DEF Operator, Pause, Resume, Cancel, RequestReplan, ApproveTask, RejectTask,
         Show, ShowApprovals
<1>2. /\ approvals' \in [Tasks -> Decision]
      /\ \A t \in Tasks : approvals[t] # "none" => approvals'[t] # "none"
  BY <1>1 DEF InductiveInvariant, TypeOK, Decision
<1> USE DEF InductiveInvariant, locals, children
<1>3. TypeOK'
  <2>1. /\ paused' \in BOOLEAN /\ cancel_requested' \in BOOLEAN /\ replan_requested' \in BOOLEAN
        /\ status' \in RunStatus /\ blocked_reason' \in Reason
    BY <1>1 DEF TypeOK, RunStatus, Reason
  <2>2. shown_approvals' \in [Tasks -> Decision]
    BY <1>1, <1>2 DEF TypeOK
  <2>3. UNCHANGED <<pc, plan, pending, completed, runnable, current, artifacts_by_task,
                    task_states, dispatched, approved_context, input_refs>>
    BY <1>1
  <2> QED BY <1>2, <2>1, <2>2, <2>3 DEF TypeOK
<1>4. PlanShape' BY <1>1 DEF PlanShape, InBatch
<1>5. LoopShape' BY <1>1 DEF LoopShape, InBatch
<1>6. StateShape' BY <1>1 DEF StateShape
<1>7. GatedTasksAreApproved' BY <1>1, <1>2 DEF GatedTasksAreApproved, TypeOK
<1>8. DependenciesHandedOver'
  <2>1. UNCHANGED <<plan, completed, artifacts_by_task, dispatched, input_refs>>
    BY <1>1
  <2> QED BY <2>1 DEF DependenciesHandedOver
<1>9. NeverUnresolved' BY <1>1 DEF NeverUnresolved
<1>10. CompletedMeansAllDone'
  <2>1. status # "completed" BY <1>1 DEF CompletedMeansAllDone, Open
  <2> QED BY <1>1, <2>1 DEF CompletedMeansAllDone
<1> QED BY <1>3, <1>4, <1>5, <1>6, <1>7, <1>8, <1>9, <1>10

\* Every step of the workflow and of its operators preserves the invariant.
LEMMA StepInvariant == InductiveInvariant /\ [Next]_vars => InductiveInvariant'
<1> SUFFICES ASSUME InductiveInvariant, [Next]_vars PROVE InductiveInvariant'
  OBVIOUS
<1>1. CASE Start BY <1>1, StartInvariant
<1>2. CASE \E p \in Plans : PlanDelivered(p) BY <1>2, PlanDeliveredInvariant
<1>3. CASE PlanningFails \/ ChildFails BY <1>3, FailureInvariant
<1>4. CASE LoopHead BY <1>4, LoopHeadInvariant
<1>5. CASE ApprovalGate BY <1>5, ApprovalGateInvariant
<1>6. CASE \E r \in Result : ChildReturns(r) BY <1>6, ChildReturnsInvariant
<1>7. CASE Operator BY <1>7, OperatorInvariant
<1>8. CASE UNCHANGED vars
  <2> USE <1>8 DEF InductiveInvariant, vars, control, locals, snapshot, children
  <2>1. TypeOK' BY DEF TypeOK
  <2>2. PlanShape' /\ LoopShape' BY DEF PlanShape, LoopShape, InBatch
  <2>3. StateShape' /\ GatedTasksAreApproved' BY DEF StateShape, GatedTasksAreApproved
  <2>4. DependenciesHandedOver' BY DEF DependenciesHandedOver
  <2>5. NeverUnresolved' /\ CompletedMeansAllDone'
    BY DEF NeverUnresolved, CompletedMeansAllDone
  <2> QED BY <2>1, <2>2, <2>3, <2>4, <2>5
<1> QED BY <1>1, <1>2, <1>3, <1>4, <1>5, <1>6, <1>7, <1>8 DEF Next, Workflow

\* The invariant holds throughout every run, for every set of plans.
THEOREM Invariance == Spec => []InductiveInvariant
<1> QED BY InitInvariant, StepInvariant, PTL DEF Spec

\* Every variable of the workflow keeps its type.
THEOREM TypeCorrect == Spec => []TypeOK
<1>1. InductiveInvariant => TypeOK BY DEF InductiveInvariant
<1> QED BY <1>1, Invariance, PTL

\* No task that requires approval is handed to an agent before a decision about
\* it was recorded, and the approved context goes to those tasks only.
THEOREM GateSafety == Spec => []GatedTasksAreApproved
<1>1. InductiveInvariant => GatedTasksAreApproved BY DEF InductiveInvariant
<1> QED BY <1>1, Invariance, PTL

\* An agent starts after its dependencies and with all they produced.
THEOREM DependencySafety == Spec => []DependenciesHandedOver
<1>1. InductiveInvariant => DependenciesHandedOver BY DEF InductiveInvariant
<1> QED BY <1>1, Invariance, PTL

\* The failure "unresolved dependencies" is unreachable after validation.
THEOREM ValidatedPlansResolve == Spec => []NeverUnresolved
<1>1. InductiveInvariant => NeverUnresolved BY DEF InductiveInvariant
<1> QED BY <1>1, Invariance, PTL

\* One task is in flight at a time.
THEOREM SingleFlight == Spec => []OneTaskInFlight
<1>1. InductiveInvariant => OneTaskInFlight
  BY DEF InductiveInvariant, StateShape, LoopShape, OneTaskInFlight
<1> QED BY <1>1, Invariance, PTL

\* A run reported completed has done its whole plan.
THEOREM CompletionIsSound == Spec => []CompletedMeansAllDone
<1>1. InductiveInvariant => CompletedMeansAllDone BY DEF InductiveInvariant
<1> QED BY <1>1, Invariance, PTL

-----------------------------------------------------------------------------
\* Where a step may start a child: from the loop head (the first task of a new
\* batch), from the gate (the task parked there), or from the child before (the
\* next task of the batch in progress).
LEMMA DispatchSources ==
  ASSUME InductiveInvariant, [Next]_vars
  PROVE  \/ dispatched' = dispatched /\ (pc' = "child" => pc = "child" /\ current' = current)
         \/ /\ pc = "loop" /\ LoopVerdict = "batch" /\ LoopReleased
            /\ \E t \in pending \ plan.gated : dispatched' = dispatched \cup {t} /\ current' = t
         \/ /\ pc = "gate" /\ GateVerdict = "approve"
            /\ dispatched' = dispatched \cup {current} /\ current' = current
         \/ /\ pc = "child"
            /\ \E t \in runnable \ plan.gated : dispatched' = dispatched \cup {t} /\ current' = t
<1> USE DEF control, locals, snapshot, children
<1>1. CASE Start \/ PlanningFails \/ ChildFails \/ \E p \in Plans : PlanDelivered(p)
  BY <1>1 DEF Start, PlanningFails, ChildFails, PlanDelivered, Complete
<1>2. CASE LoopHead
  <2>p. pc = "loop" /\ LoopReleased /\ plan \in Plans /\ plan # NoPlan /\ pending \subseteq PlanTasks(plan)
    BY <1>2 DEF LoopHead, InductiveInvariant, TypeOK, PlanShape
  <2>1. CASE LoopReturns BY <2>1 DEF LoopReturns, Return
  <2>2. CASE StartBatch
    <3> DEFINE t == FirstOf(plan, RunnableTasks)
    <3>1. /\ LoopVerdict = "batch"
          /\ BeginTask(t, RunnableTasks \ {t}, task_states, artifacts_by_task)
      BY <2>2 DEF StartBatch
    <3>2. RunnableTasks # {} BY <3>1 DEF LoopVerdict
    <3>3. t \in pending
      <4>1. RunnableTasks \subseteq PlanTasks(plan) BY <2>p DEF RunnableTasks
      <4>2. t \in RunnableTasks BY <2>p, <3>2, <4>1, PlanParts, FirstOfIsMember
      <4> HIDE DEF t
      <4> QED BY <4>2 DEF RunnableTasks
    <3> HIDE DEF t
    <3> QED BY <2>p, <3>1, <3>3 DEF BeginTask
  <2> QED BY <1>2, <2>1, <2>2 DEF LoopHead
<1>3. CASE ApprovalGate
  BY <1>3 DEF ApprovalGate, GateReturns, Return, DispatchApproved
<1>4. CASE \E r \in Result : ChildReturns(r)
  <2>1. PICK r \in Result : ChildReturns(r) BY <1>4
  <2>2. pc = "child" BY <2>1 DEF ChildReturns
  <2>3. CASE r.requires_approval \/ Failed(r)
    BY <2>1, <2>3 DEF ChildReturns, Return
  <2>4. CASE ~r.requires_approval /\ ~Failed(r) /\ runnable = {}
    BY <2>1, <2>4 DEF ChildReturns, Complete
  <2>5. CASE ~r.requires_approval /\ ~Failed(r) /\ runnable # {}
    <3> DEFINE t == FirstOf(plan, runnable)
    <3>1. t \in runnable
      <4>1. plan \in Plans /\ runnable \subseteq PlanTasks(plan)
        BY <2>2 DEF InductiveInvariant, TypeOK, PlanShape, LoopShape, InBatch
      <4> QED BY <2>5, <4>1, PlanParts, FirstOfIsMember
    <3>2. \E states, artifacts : BeginTask(t, runnable \ {t}, states, artifacts)
      BY <2>1, <2>5 DEF ChildReturns
    <3> HIDE DEF t
    <3> QED BY <2>2, <3>1, <3>2 DEF BeginTask
  <2> QED BY <2>3, <2>4, <2>5
<1>5. CASE Operator
  BY <1>5 DEF Operator, Pause, Resume, Cancel, RequestReplan, ApproveTask, RejectTask
<1>6. CASE UNCHANGED vars
  BY <1>6 DEF vars
<1> QED BY <1>1, <1>2, <1>3, <1>4, <1>5, <1>6 DEF Next, Workflow

\* The child id of a task is used once over the whole run.
THEOREM UniqueChildren == Spec => EachTaskDispatchedOnce
<1>1. InductiveInvariant /\ [Next]_vars
        => [\A t \in Tasks : Dispatches(t) => t \notin dispatched]_vars
  <2> SUFFICES ASSUME InductiveInvariant, [Next]_vars, NEW t \in Tasks, Dispatches(t)
               PROVE  t \notin dispatched
    OBVIOUS
  <2>1. pc' = "child" /\ current' = t /\ (pc # "child" \/ current # t)
    BY DEF Dispatches
  <2>2. /\ pc = "loop" => dispatched = completed
        /\ pc = "gate" => current \notin dispatched
        /\ pc = "child" => runnable \subseteq pending /\ current \notin runnable
        /\ dispatched \subseteq completed \cup {current}
        /\ pending \cap completed = {}
    BY DEF InductiveInvariant, LoopShape, PlanShape, InBatch
  <2> QED BY <2>1, <2>2, DispatchSources
<1> QED BY <1>1, Invariance, PTL DEF Spec, EachTaskDispatchedOnce

\* A held run starts at most what is left of the batch in progress.
THEOREM HeldRunsStartNothingNew == Spec => HeldRunStartsNoBatch
<1>1. InductiveInvariant /\ [Next]_vars
        => [(paused \/ cancel_requested \/ replan_requested) =>
              dispatched' \ dispatched \subseteq runnable \cup {current}]_vars
  <2> SUFFICES ASSUME InductiveInvariant, [Next]_vars,
                      paused \/ cancel_requested \/ replan_requested
               PROVE  dispatched' \ dispatched \subseteq runnable \cup {current}
    OBVIOUS
  <2>1. ~(LoopVerdict = "batch" /\ LoopReleased)
    BY DEF LoopVerdict, LoopReleased
  <2> QED BY <2>1, DispatchSources
<1> QED BY <1>1, Invariance, PTL DEF Spec, HeldRunStartsNoBatch

\* After a cancel no gated task is started, whatever approvals there are.
THEOREM CancelClosesTheGate == Spec => NoGatedDispatchAfterCancel
<1>1. InductiveInvariant /\ [Next]_vars
        => [cancel_requested =>
              \A t \in dispatched' \ dispatched : t \notin plan.gated]_vars
  <2> SUFFICES ASSUME InductiveInvariant, [Next]_vars, cancel_requested,
                      NEW t \in dispatched' \ dispatched
               PROVE  t \notin plan.gated
    OBVIOUS
  <2>1. LoopVerdict # "batch" /\ GateVerdict # "approve"
    BY DEF LoopVerdict, GateVerdict
  <2> QED BY <2>1, DispatchSources
<1> QED BY <1>1, Invariance, PTL DEF Spec, NoGatedDispatchAfterCancel

-----------------------------------------------------------------------------
(* The coroutine goes forward. *)

\* A step of the coroutine completes a task, comes nearer to the dispatch of the
\* current one, or ends.
LEMMA CoroutineGoesForward == InductiveInvariant /\ Workflow => CoroutineAdvances
<1> SUFFICES ASSUME InductiveInvariant, Workflow PROVE CoroutineAdvances
  OBVIOUS
<1>1. CASE Start
  BY <1>1 DEF Start, CoroutineAdvances, Await, locals
<1>2. CASE PlanningFails \/ ChildFails
  BY <1>2 DEF PlanningFails, ChildFails, CoroutineAdvances, Await, locals
<1>3. ASSUME NEW p \in Plans, PlanDelivered(p) PROVE CoroutineAdvances
  <2>1. pc = "planning" /\ completed' = completed /\ pc' \in {"returned", "loop", "stuck"}
    BY <1>3 DEF PlanDelivered, Complete
  <2> QED BY <2>1 DEF CoroutineAdvances, Await
<1>4. CASE LoopHead
  <2>1. pc = "loop" /\ completed' = completed
    BY <1>4 DEF LoopHead, LoopReturns, StartBatch, locals
  <2>2. pc' \in {"returned", "gate", "child"}
    BY <1>4 DEF LoopHead, LoopReturns, Return, StartBatch, BeginTask
  <2> QED BY <2>1, <2>2 DEF CoroutineAdvances, Await
<1>5. CASE ApprovalGate
  <2>1. pc = "gate" /\ completed' = completed
    BY <1>5 DEF ApprovalGate, locals
  <2>2. pc' \in {"returned", "child"}
    BY <1>5 DEF ApprovalGate, GateReturns, Return, DispatchApproved
  <2> QED BY <2>1, <2>2 DEF CoroutineAdvances, Await
<1>6. ASSUME NEW r \in Result, ChildReturns(r) PROVE CoroutineAdvances
  <2>1. pc = "child"
    BY <1>6 DEF ChildReturns
  <2>2. CASE r.requires_approval \/ Failed(r)
    <3>1. completed' = completed /\ pc' = "returned"
      BY <1>6, <2>2 DEF ChildReturns, Return
    <3> QED BY <2>1, <3>1 DEF CoroutineAdvances, Await
  <2>3. CASE ~(r.requires_approval \/ Failed(r))
    <3>1. completed' = completed \cup {current}
      BY <1>6, <2>3 DEF ChildReturns
    <3>2. current \in pending /\ plan # NoPlan
      BY <2>1 DEF InductiveInvariant, LoopShape, PlanShape, InBatch
    <3>3. pending \cup completed = PlanTasks(plan) /\ pending \cap completed = {}
      BY <3>2 DEF InductiveInvariant, PlanShape
    <3>4. current \notin completed /\ completed' \subseteq PlanTasks(plan)
      BY <3>1, <3>2, <3>3
    <3> QED BY <3>1, <3>4 DEF CoroutineAdvances
  <2> QED BY <2>2, <2>3
<1> QED BY <1>1, <1>2, <1>3, <1>4, <1>5, <1>6 DEF Workflow

LEMMA OperatorLeavesTheRun == Operator => UNCHANGED <<pc, plan, locals, children>>
BY DEF Operator, Pause, Resume, Cancel, RequestReplan, ApproveTask, RejectTask

\* The coroutine makes a bounded number of steps, over all interleavings with what
\* operators do (supervisor.py, lines 46-123 and 129-186).
THEOREM RunIsFinite == Spec => RunGoesForward
<1>1. InductiveInvariant /\ [Next]_vars =>
        [/\ Workflow => CoroutineAdvances
         /\ Operator => UNCHANGED <<pc, plan, locals, children>>]_vars
  BY CoroutineGoesForward, OperatorLeavesTheRun
<1> QED BY <1>1, Invariance, PTL DEF Spec, RunGoesForward

-----------------------------------------------------------------------------
(* Refinement: a run keeps the promise of Mission. *)

\* Mission's reading of a plan is the supervisor's.
LEMMA SamePlans ==
  \A p : /\ MissionOfRun!PlanTasks(p) = PlanTasks(p)
         /\ MissionOfRun!ValidPlan(p) <=> ValidPlan(p)
BY DEF MissionOfRun!PlanTasks, PlanTasks, MissionOfRun!ValidPlan, ValidPlan,
       MissionOfRun!UniqueIds, UniqueIds, MissionOfRun!KnownDependencies, KnownDependencies,
       MissionOfRun!Acyclic, Acyclic

\* A run that ends in any way but "completed", doing nothing else, ends the mission.
LEMMA EarlyEnd ==
  ASSUME VerdictOfRun = "open", VerdictOfRun' \in MissionOfRun!Verdict \ {"completed"},
         UNCHANGED <<plan, dispatched, completed, approvals, cancel_requested>>
  PROVE  MissionOfRun!MissionNext
BY DEF MissionOfRun!End, MissionOfRun!MissionNext, Granted

\* Processing of the task t begins, all tasks before it having succeeded: parked
\* at its gate it starts nothing, without a gate it starts.
LEMMA BeginTaskMaps ==
  ASSUME NEW t, NEW rest, NEW states, NEW artifacts, BeginTask(t, rest, states, artifacts),
         UNCHANGED <<plan, control>>, plan # NoPlan, VerdictOfRun = "open",
         t \in Tasks, t \in PlanTasks(plan) \ dispatched,
         completed' = dispatched, plan.deps[t] \subseteq completed'
  PROVE  MissionOfRun!MissionNext \/ UNCHANGED MissionOfRun!missionVars
<1>v. VerdictOfRun' = "open" /\ Granted' = Granted
  BY DEF BeginTask, VerdictOfRun, Granted, control
<1>1. CASE t \in plan.gated
  <2>1. dispatched' = dispatched BY <1>1 DEF BeginTask, children
  <2>2. dispatched # PlanTasks(plan) OBVIOUS
  <2>3. CASE completed = dispatched
    BY <1>v, <2>1, <2>3 DEF MissionOfRun!missionVars, control
  <2>4. CASE completed # dispatched
    <3>1. MissionOfRun!FinishTask
      BY <1>v, <2>1, <2>2, <2>4, SamePlans DEF MissionOfRun!FinishTask, control
    <3> QED BY <3>1 DEF MissionOfRun!MissionNext
  <2> QED BY <2>3, <2>4
<1>2. CASE t \notin plan.gated
  <2>1. dispatched' = dispatched \cup {t} BY <1>2 DEF BeginTask
  <2>2. MissionOfRun!StartTask(t)
    BY <1>2, <1>v, <2>1, SamePlans DEF MissionOfRun!StartTask, control
  <2> QED BY <2>2 DEF MissionOfRun!MissionNext
<1> QED BY <1>1, <1>2

\* The initial state is Mission's.
LEMMA InitMaps == Init => MissionOfRun!MissionInit
BY DEF Init, MissionOfRun!MissionInit, VerdictOfRun, Granted, NoDecisions

\* Delivery of the plan adopts it, or gets the run stuck without adopting it.
LEMMA PlanDeliveredMaps ==
  ASSUME InductiveInvariant, NEW p \in Plans, PlanDelivered(p)
  PROVE  MissionOfRun!MissionNext \/ UNCHANGED MissionOfRun!missionVars
<1>1. /\ plan = NoPlan /\ VerdictOfRun = "open"
      /\ UNCHANGED <<dispatched, completed, cancel_requested, approvals>>
  BY DEF PlanDelivered, InductiveInvariant, PlanShape, VerdictOfRun, control, children
<1>2. CASE ValidPlan(p)
  <2>1. plan' = p /\ VerdictOfRun' = IF PlanTasks(p) = {} THEN "completed" ELSE "open"
    BY <1>2 DEF PlanDelivered, Complete, VerdictOfRun
  <2>2. MissionOfRun!Adopt
    BY <1>1, <1>2, <2>1, SamePlans DEF MissionOfRun!Adopt, Granted
  <2> QED BY <2>2 DEF MissionOfRun!MissionNext
<1>3. CASE ~ValidPlan(p)
  BY <1>1, <1>3 DEF PlanDelivered, VerdictOfRun, Granted, MissionOfRun!missionVars
<1> QED BY <1>2, <1>3

\* The loop head ends the mission or begins a task.
LEMMA LoopHeadMaps ==
  ASSUME InductiveInvariant, LoopHead
  PROVE  MissionOfRun!MissionNext \/ UNCHANGED MissionOfRun!missionVars
<1>1. /\ pc = "loop" /\ plan # NoPlan /\ plan \in Plans /\ VerdictOfRun = "open"
      /\ pending # {} /\ pending \subseteq PlanTasks(plan) /\ pending \cap completed = {}
      /\ dispatched = completed /\ UNCHANGED <<plan, control>>
      /\ pending \subseteq Tasks
  BY DEF LoopHead, InductiveInvariant, TypeOK, PlanShape, LoopShape, VerdictOfRun
<1>2. RunnableTasks # {} /\ RunnableTasks \subseteq pending
  BY <1>1, SomeTaskIsRunnable DEF RunnableTasks
<1>3. CASE LoopReturns
  <2>1. LoopVerdict \in {"cancel", "replan"}
    BY <1>2, <1>3 DEF LoopReturns, LoopVerdict
  <2>2. LoopExit[LoopVerdict].status \in {"cancelled", "waiting_for_approval"}
    <3>1. CASE LoopVerdict = "cancel" BY <3>1 DEF LoopExit
    <3>2. CASE LoopVerdict = "replan" BY <3>2 DEF LoopExit
    <3> QED BY <2>1, <3>1, <3>2
  <2>3. VerdictOfRun' \in MissionOfRun!Verdict \ {"completed"}
    BY <1>3, <2>2 DEF LoopReturns, Return, VerdictOfRun, MissionOfRun!Verdict
  <2> QED BY <1>1, <1>3, <2>3, EarlyEnd DEF LoopReturns, locals, children, control
<1>4. CASE StartBatch
  <2> DEFINE t == FirstOf(plan, RunnableTasks)
  <2>1. t \in RunnableTasks
    BY <1>1, <1>2, PlanParts, FirstOfIsMember
  <2>2. /\ BeginTask(t, RunnableTasks \ {t}, task_states, artifacts_by_task)
        /\ completed' = completed
    BY <1>4 DEF StartBatch
  <2> HIDE DEF t
  <2>3. plan.deps[t] \subseteq completed
    BY <2>1 DEF RunnableTasks
  <2> QED BY <1>1, <1>2, <2>1, <2>2, <2>3, BeginTaskMaps
<1> QED BY <1>3, <1>4 DEF LoopHead

\* The gate ends the mission or starts the granted task.
LEMMA ApprovalGateMaps ==
  ASSUME InductiveInvariant, ApprovalGate
  PROVE  MissionOfRun!MissionNext
<1>1. /\ pc = "gate" /\ plan # NoPlan /\ VerdictOfRun = "open"
      /\ current \in Tasks /\ current \in PlanTasks(plan) \ dispatched
      /\ dispatched = completed /\ plan.deps[current] \subseteq completed
      /\ approvals[current] \in Decision
      /\ UNCHANGED <<plan, control, completed, current>>
  BY DEF ApprovalGate, InductiveInvariant, TypeOK, PlanShape, LoopShape, InBatch,
         VerdictOfRun, locals
<1>2. CASE GateReturns
  <2>1. VerdictOfRun' \in MissionOfRun!Verdict \ {"completed"}
    BY <1>2 DEF GateReturns, Return, VerdictOfRun, MissionOfRun!Verdict
  <2> QED BY <1>1, <1>2, <2>1, EarlyEnd DEF GateReturns, children, control
<1>3. CASE DispatchApproved
  <2>1. approvals[current] = "approved" /\ ~cancel_requested
    BY <1>1, <1>3 DEF ApprovalGate, DispatchApproved, GateReleased, GateVerdict, Decision
  <2>2. dispatched' = dispatched \cup {current} /\ VerdictOfRun' = "open"
    BY <1>3 DEF DispatchApproved, VerdictOfRun
  <2>3. MissionOfRun!StartTask(current)
    BY <1>1, <2>1, <2>2, SamePlans DEF MissionOfRun!StartTask, Granted, control
  <2> QED BY <1>1, <2>3 DEF MissionOfRun!MissionNext
<1> QED BY <1>2, <1>3 DEF ApprovalGate

\* A result ends the mission, or finishes a task and may begin the next.
LEMMA ChildReturnsMaps ==
  ASSUME InductiveInvariant, NEW r \in Result, ChildReturns(r)
  PROVE  MissionOfRun!MissionNext \/ UNCHANGED MissionOfRun!missionVars
<1> DEFINE t == FirstOf(plan, runnable)
<1>1. /\ pc = "child" /\ plan # NoPlan /\ plan \in Plans /\ VerdictOfRun = "open"
      /\ current \in pending \ runnable /\ dispatched = completed \cup {current}
      /\ runnable \subseteq pending /\ pending \subseteq Tasks
      /\ pending \cup completed = PlanTasks(plan) /\ pending \cap completed = {}
      /\ \A u \in runnable : plan.deps[u] \subseteq completed
      /\ UNCHANGED <<plan, control>>
  BY DEF ChildReturns, InductiveInvariant, TypeOK, PlanShape, LoopShape, InBatch, VerdictOfRun
<1>2. CASE r.requires_approval \/ Failed(r)
  <2>1. /\ VerdictOfRun' \in MissionOfRun!Verdict \ {"completed"}
        /\ UNCHANGED <<completed, dispatched>>
    BY <1>2 DEF ChildReturns, Return, VerdictOfRun, MissionOfRun!Verdict, children
  <2> QED BY <1>1, <2>1, EarlyEnd DEF control
<1>3. CASE ~r.requires_approval /\ ~Failed(r)
  <2>1. completed' = dispatched /\ pending' = pending \ {current}
    BY <1>1, <1>3 DEF ChildReturns, PendingAfter
  <2>2. CASE runnable # {}
    <3>1. t \in runnable
      BY <1>1, <2>2, PlanParts, FirstOfIsMember
    <3>2. PICK states, artifacts : BeginTask(t, runnable \ {t}, states, artifacts)
      BY <1>3, <2>2 DEF ChildReturns
    <3> HIDE DEF t
    <3>3. /\ t \in Tasks /\ t \in PlanTasks(plan) \ dispatched
          /\ plan.deps[t] \subseteq completed'
      BY <1>1, <2>1, <3>1
    <3> QED BY <1>1, <2>1, <3>2, <3>3, BeginTaskMaps
  <2>3. CASE runnable = {}
    <3>1. VerdictOfRun' = (IF pending' = {} THEN "completed" ELSE "open")
      BY <1>1, <1>3, <2>1, <2>3 DEF ChildReturns, Complete, PendingAfter, VerdictOfRun
    <3>2. pending' = {} <=> dispatched = PlanTasks(plan)
      BY <1>1, <2>1
    <3>3. dispatched' = dispatched /\ completed # dispatched
      BY <1>1, <1>3, <2>3 DEF ChildReturns, children
    <3>4. MissionOfRun!FinishTask
      BY <1>1, <2>1, <3>1, <3>2, <3>3, SamePlans DEF MissionOfRun!FinishTask, Granted, control
    <3> QED BY <3>4 DEF MissionOfRun!MissionNext
  <2> QED BY <2>2, <2>3
<1> QED BY <1>2, <1>3

\* Operators decide about tasks or stop the mission, or change nothing of it.
LEMMA OperatorMaps ==
  ASSUME Operator PROVE MissionOfRun!MissionNext
<1>1. /\ pc \in Open /\ UNCHANGED <<pc, plan, dispatched, completed>>
      /\ cancel_requested' \in {cancel_requested, TRUE}
  BY DEF Operator, Pause, Resume, Cancel, RequestReplan, ApproveTask, RejectTask,
         locals, children
<1>2. VerdictOfRun = "open" /\ VerdictOfRun' = "open" /\ Granted' \in SUBSET Tasks
  BY DEF Operator, Pause, Resume, Cancel, RequestReplan, ApproveTask, RejectTask,
         Open, VerdictOfRun, Granted
<1>3. MissionOfRun!Decide
  BY <1>1, <1>2 DEF MissionOfRun!Decide
<1> QED BY <1>3 DEF MissionOfRun!MissionNext

\* Every step of the workflow is a step of its mission or none of it.
LEMMA StepMaps ==
  InductiveInvariant /\ [Next]_vars => [MissionOfRun!MissionNext]_(MissionOfRun!missionVars)
<1> SUFFICES ASSUME InductiveInvariant, [Next]_vars
             PROVE  MissionOfRun!MissionNext \/ UNCHANGED MissionOfRun!missionVars
  OBVIOUS
<1>1. CASE Start
  BY <1>1 DEF Start, VerdictOfRun, Granted, control, locals, children, MissionOfRun!missionVars
<1>2. CASE \E p \in Plans : PlanDelivered(p) BY <1>2, PlanDeliveredMaps
<1>3. CASE PlanningFails \/ ChildFails
  <2>1. /\ VerdictOfRun = "open" /\ VerdictOfRun' = "failed"
        /\ UNCHANGED <<plan, dispatched, completed, approvals, cancel_requested>>
    BY <1>3 DEF PlanningFails, ChildFails, VerdictOfRun, control, locals, children
  <2> QED BY <2>1, EarlyEnd DEF MissionOfRun!Verdict
<1>4. CASE LoopHead BY <1>4, LoopHeadMaps
<1>5. CASE ApprovalGate BY <1>5, ApprovalGateMaps
<1>6. CASE \E r \in Result : ChildReturns(r) BY <1>6, ChildReturnsMaps
<1>7. CASE Operator BY <1>7, OperatorMaps
<1>8. CASE UNCHANGED vars
  BY <1>8 DEF vars, control, locals, snapshot, children, VerdictOfRun, Granted,
              MissionOfRun!missionVars
<1> QED BY <1>1, <1>2, <1>3, <1>4, <1>5, <1>6, <1>7, <1>8 DEF Next, Workflow

\* The supervisor implements the abstract mission, for every set of plans.
THEOREM Refinement == Spec => ImplementsMission
<1> QED BY InitMaps, StepMaps, Invariance, PTL
        DEF Spec, ImplementsMission, MissionOfRun!MissionSpec
=============================================================================
