--------------------------- MODULE PlanDeliveryProofs ---------------------------
(***************************************************************************)
(* Theorems of PlanValidation, of Planning, and of PlanDelivery, which has   *)
(* both: for plans and templates of any size, validate_plan decides          *)
(* ValidPlan, what the planner builds is its template and valid, and so it   *)
(* is never refused.                                                        *)
(***************************************************************************)
EXTENDS PlanDelivery, FiniteSetTheorems, SequenceTheorems, WellFoundedInduction, TLAPS

-----------------------------------------------------------------------------
(* The validator: it decides ValidPlan. *)

\* The parts of a plan have their types.
LEMMA PlanParts ==
  ASSUME NEW p \in PlanOver(Tasks)
  PROVE  /\ p.order \in Seq(Tasks) /\ p.deps \in [Tasks -> SUBSET Tasks]
         /\ PlanTasks(p) \subseteq Tasks
         /\ IsFiniteSet(PlanTasks(p)) /\ Cardinality(PlanTasks(p)) \in Nat
<1>1. p.order \in Seq(Tasks) /\ p.deps \in [Tasks -> SUBSET Tasks]
  BY DEF PlanOver
<1>2. PlanTasks(p) \subseteq Tasks
  BY <1>1 DEF PlanTasks
<1> DEFINE f == [i \in 1 .. Len(p.order) |-> p.order[i]]
<1>3. f \in Surjection(1 .. Len(p.order), PlanTasks(p))
  BY <1>1 DEF Surjection, PlanTasks
<1>4. IsFiniteSet(1 .. Len(p.order))
  <2>1. Len(p.order) \in Nat BY <1>1
  <2>2. \A n \in Nat : IsFiniteSet(1 .. n) BY FS_Interval
  <2> QED BY <2>1, <2>2
<1>5. IsFiniteSet(PlanTasks(p))
  BY <1>3, <1>4, FS_Surjection
<1> QED BY <1>1, <1>2, <1>5, FS_CardinalityType

\* Counting the distinct ids, as the code does, tells whether an id repeats.
LEMMA CountingFindsDuplicates ==
  ASSUME NEW p \in PlanOver(Tasks)
  PROVE  Cardinality(PlanTasks(p)) = Len(p.order) <=> UniqueIds(p)
<1> DEFINE L == 1 .. Len(p.order)
           f == [i \in L |-> p.order[i]]
<1>1. Len(p.order) \in Nat
  BY PlanParts
<1>2. f \in Surjection(L, PlanTasks(p))
  BY DEF Surjection, PlanTasks
<1>3. IsFiniteSet(L) /\ Cardinality(L) = Len(p.order)
  BY <1>1, FS_Interval
<1>4. f \in Injection(L, PlanTasks(p)) <=> UniqueIds(p)
  BY <1>2 DEF Injection, IsInjective, UniqueIds, Surjection
<1> QED BY <1>2, <1>3, <1>4, FS_Surjection

\* The call stack is never deeper than the plan has tasks.
LEMMA SimplePathIsShort ==
  ASSUME NEW p \in PlanOver(Tasks), NEW stack \in Seq(PlanTasks(p)),
         \A i, j \in 1 .. Len(stack) : stack[i] = stack[j] => i = j
  PROVE  Len(stack) =< Cardinality(PlanTasks(p))
<1> DEFINE f == [i \in 1 .. Len(stack) |-> stack[i]]
<1>1. f \in Injection(1 .. Len(stack), PlanTasks(p))
  BY DEF Injection, IsInjective
<1>2. Cardinality(1 .. Len(stack)) = Len(stack)
  BY FS_Interval
<1> QED BY <1>1, <1>2, PlanParts, FS_Injection

\* Before the search starts there is nothing to know.
LEMMA InitInvariant == Init => SearchInvariant
<1> SUFFICES ASSUME Init PROVE SearchInvariant
  OBVIOUS
<1>1. TypeOK
  <2>1. plan \in PlanOver(Tasks) BY PlansOverTasks DEF Init
  <2>2. Cardinality(PlanTasks(plan)) \in Nat BY <2>1, PlanParts
  <2> QED BY <2>1, <2>2 DEF Init, TypeOK
<1> QED BY <1>1 DEF Init, SearchInvariant, RefusalsAreReal

\* The ids and the dependencies are checked.
LEMMA CheckIdsInvariant == SearchInvariant /\ CheckIds => SearchInvariant'
<1> SUFFICES ASSUME SearchInvariant, CheckIds PROVE SearchInvariant'
  OBVIOUS
<1>1. /\ plan \in PlanOver(Tasks) /\ phase = "ids" /\ path = <<>> /\ visiting = {} /\ visited = {}
      /\ phase' = CheckedIds /\ to_visit' = PlanTasks(plan)
      /\ UNCHANGED <<plan, path, rest, visiting, visited>>
      /\ TypeOK
  BY DEF SearchInvariant, CheckIds, TypeOK
<1>2. /\ phase' \in {"duplicate", "unknown", "search"}
      /\ phase' = "duplicate" <=> ~UniqueIds(plan)
      /\ phase' = "unknown" => ~KnownDependencies(plan)
      /\ phase' = "search" => KnownDependencies(plan)
  BY <1>1, CountingFindsDuplicates, PlanParts DEF CheckedIds, KnownDependencies
<1>3. TypeOK'
  BY <1>1, <1>2 DEF TypeOK, Verdicts
<1>4. RefusalsAreReal'
  BY <1>1, <1>2 DEF RefusalsAreReal
<1>5. PathShape' /\ RestShape' /\ VisitedShape' /\ NoneForgotten'
  BY <1>1 DEF PathShape, RestShape, VisitedShape, NoneForgotten
<1> QED BY <1>1, <1>2, <1>3, <1>4, <1>5 DEF SearchInvariant

\* A call that comes back to a task of the call stack has found a cycle: the
\* tasks from there on each have a dependency among themselves.
LEMMA BackEdgeIsCycle ==
  ASSUME SearchInvariant, phase = "search", NEW t \in visiting,
         path # <<>> => t \in plan.deps[Top]
  PROVE  ~Acyclic(plan)
<1>1. /\ path \in Seq(PlanTasks(plan)) /\ visiting = {path[i] : i \in 1 .. Len(path)}
      /\ \A i \in 1 .. Len(path) - 1 : path[i + 1] \in plan.deps[path[i]]
  BY DEF SearchInvariant, TypeOK, PathShape
<1>2. PICK j \in 1 .. Len(path) : path[j] = t
  BY <1>1
<1>3. path # <<>> /\ t \in plan.deps[path[Len(path)]]
  BY <1>1, <1>2 DEF Top
<1> DEFINE S == {path[i] : i \in j .. Len(path)}
<1>4. S \in SUBSET PlanTasks(plan) /\ S # {}
  BY <1>1, <1>2
<1>5. ASSUME NEW u \in S PROVE plan.deps[u] \cap S # {}
  <2>1. PICK i \in j .. Len(path) : u = path[i]
    OBVIOUS
  <2>2. CASE i = Len(path)
    <3>1. t \in S BY <1>1, <1>2
    <3> HIDE DEF S
    <3> QED BY <1>3, <2>1, <2>2, <3>1
  <2>3. CASE i # Len(path)
    <3>1. i + 1 \in j .. Len(path) /\ i \in 1 .. Len(path) - 1
      BY <1>1, <2>3
    <3>2. path[i + 1] \in S /\ path[i + 1] \in plan.deps[u]
      BY <1>1, <2>1, <3>1
    <3> HIDE DEF S
    <3> QED BY <3>2
  <2> QED BY <2>2, <2>3
<1> HIDE DEF S
<1> QED BY <1>4, <1>5 DEF Acyclic

\* A call of visit preserves the invariant, made by the outer loop (with an
\* empty call stack) or by the active call at the top for one of its
\* dependencies.
LEMMA VisitInvariant ==
  ASSUME SearchInvariant, phase = "search", plan' = plan,
         NEW t \in PlanTasks(plan), NEW left \in [Tasks -> SUBSET Tasks], Visit(t, left),
         path # <<>> => t \in plan.deps[Top],
         \A i \in 1 .. Len(path) :
            left[path[i]] = IF i = Len(path) THEN rest[path[i]] \ {t} ELSE rest[path[i]],
         to_visit' \subseteq to_visit, to_visit \subseteq to_visit' \cup {t}
  PROVE  SearchInvariant'
<1>1. /\ TypeOK /\ UniqueIds(plan) /\ KnownDependencies(plan)
      /\ PathShape /\ RestShape /\ VisitedShape /\ NoneForgotten
  BY DEF SearchInvariant
<1>2. /\ plan \in PlanOver(Tasks) /\ plan.deps \in [Tasks -> SUBSET Tasks] /\ PlanTasks(plan) \subseteq Tasks
      /\ path \in Seq(PlanTasks(plan)) /\ rest \in [Tasks -> SUBSET Tasks]
      /\ visiting \subseteq PlanTasks(plan) /\ visited \subseteq PlanTasks(plan)
      /\ to_visit \subseteq PlanTasks(plan) /\ t \in Tasks
  BY <1>1, PlanParts DEF TypeOK
<1>3. CASE t \in visited
  <2>1. rest' = left /\ UNCHANGED <<phase, path, visiting, visited>>
    BY <1>3 DEF Visit
  <2>2. TypeOK' BY <1>1, <1>2, <2>1 DEF TypeOK
  <2>3. PathShape' BY <1>1, <2>1 DEF PathShape
  <2>4. RestShape'
    <3>1. ASSUME NEW i \in 1 .. Len(path)
          PROVE  /\ left[path[i]] \subseteq plan.deps[path[i]]
                 /\ \A d \in plan.deps[path[i]] :
                      d \in visited \/ d \in left[path[i]]
                      \/ (i < Len(path) /\ d = path[i + 1])
      <4>1. left[path[i]] \subseteq rest[path[i]] /\ rest[path[i]] \subseteq left[path[i]] \cup {t}
        OBVIOUS
      <4> QED BY <1>1, <1>3, <4>1 DEF RestShape
    <3> QED BY <2>1, <3>1 DEF RestShape
  <2>5. VisitedShape' BY <1>1, <2>1 DEF VisitedShape
  <2>6. NoneForgotten' BY <1>1, <1>3, <2>1 DEF NoneForgotten
  <2> QED BY <1>1, <2>1, <2>2, <2>3, <2>4, <2>5, <2>6 DEF SearchInvariant, RefusalsAreReal
<1>4. CASE t \notin visited /\ t \in visiting
  <2>1. phase' = "cycle" /\ rest' = left /\ UNCHANGED <<path, visiting, visited>>
    BY <1>4 DEF Visit
  <2>2. ~Acyclic(plan) BY <1>4, BackEdgeIsCycle
  <2>3. TypeOK' BY <1>1, <1>2, <2>1 DEF TypeOK, Verdicts
  <2> QED BY <1>1, <2>1, <2>2, <2>3 DEF SearchInvariant, RefusalsAreReal
<1>5. CASE t \notin visited \cup visiting
  <2>1. /\ path' = Append(path, t) /\ visiting' = visiting \cup {t}
        /\ rest' = [left EXCEPT ![t] = plan.deps[t]]
        /\ UNCHANGED <<phase, visited>>
    BY <1>5 DEF Visit
  <2>2. /\ Len(path') = Len(path) + 1 /\ path'[Len(path) + 1] = t
        /\ \A i \in 1 .. Len(path) : path'[i] = path[i] /\ path[i] # t /\ path[i] \in Tasks
        /\ Len(path) \in Nat
    BY <1>1, <1>2, <1>5, <2>1 DEF PathShape
  <2>3. PathShape'
    <3>1. visiting' = {path'[i] : i \in 1 .. Len(path')}
      BY <1>1, <2>1, <2>2 DEF PathShape
    <3>2. \A i, j \in 1 .. Len(path') : path'[i] = path'[j] => i = j
      BY <1>1, <2>2 DEF PathShape
    <3>3. ASSUME NEW i \in 1 .. Len(path') - 1 PROVE path'[i + 1] \in plan.deps[path'[i]]
      <4>1. CASE i = Len(path)
        <5>1. path # <<>> BY <4>1, <2>2
        <5> QED BY <4>1, <5>1, <2>2 DEF Top
      <4>2. CASE i # Len(path)
        <5>1. i \in 1 .. Len(path) - 1 /\ i + 1 \in 1 .. Len(path) BY <4>2, <2>2
        <5> QED BY <1>1, <2>2, <5>1 DEF PathShape
      <4> QED BY <4>1, <4>2
    <3> QED BY <3>1, <3>2, <3>3 DEF PathShape
  <2>4. TypeOK'
    <3>1. path' \in Seq(PlanTasks(plan)) BY <1>2, <2>1
    <3>2. rest' \in [Tasks -> SUBSET Tasks] BY <1>2, <2>1
    <3>3. Len(path') =< Cardinality(PlanTasks(plan'))
      <4>1. plan' \in PlanOver(Tasks) /\ path' \in Seq(PlanTasks(plan')) BY <1>2, <3>1
      <4>2. \A i, j \in 1 .. Len(path') : path'[i] = path'[j] => i = j
        BY <2>3 DEF PathShape
      <4> QED BY <4>1, <4>2, SimplePathIsShort
    <3> QED BY <1>1, <1>2, <2>1, <3>1, <3>2, <3>3 DEF TypeOK
  <2>5. RestShape'
    <3>1. ASSUME NEW i \in 1 .. Len(path')
          PROVE  /\ rest'[path'[i]] \subseteq plan.deps[path'[i]]
                 /\ \A d \in plan.deps[path'[i]] :
                      d \in visited \/ d \in rest'[path'[i]]
                      \/ (i < Len(path') /\ d = path'[i + 1])
      <4>1. CASE i = Len(path) + 1
        BY <1>2, <2>1, <2>2, <4>1
      <4>2. CASE i = Len(path)
        <5>1. i \in 1 .. Len(path) BY <4>2, <2>2
        <5>2. path'[i] = path[i] /\ rest'[path'[i]] = rest[path[i]] \ {t}
          BY <1>2, <2>1, <2>2, <4>2, <5>1
        <5> QED BY <1>1, <2>2, <4>2, <5>1, <5>2 DEF RestShape
      <4>3. CASE i < Len(path)
        <5>1. i \in 1 .. Len(path) /\ i + 1 \in 1 .. Len(path) BY <4>3, <2>2
        <5>2. /\ path'[i] = path[i] /\ path'[i + 1] = path[i + 1]
              /\ rest'[path'[i]] = rest[path[i]]
          BY <1>2, <2>1, <2>2, <4>3, <5>1
        <5> QED BY <1>1, <2>2, <4>3, <5>1, <5>2 DEF RestShape
      <4> QED BY <2>2, <4>1, <4>2, <4>3
    <3> QED BY <2>1, <3>1 DEF RestShape
  <2>6. VisitedShape' BY <1>1, <1>5, <2>1 DEF VisitedShape
  <2>7. NoneForgotten' BY <1>1, <2>1 DEF NoneForgotten
  <2> QED BY <1>1, <2>1, <2>3, <2>4, <2>5, <2>6, <2>7 DEF SearchInvariant, RefusalsAreReal
<1> QED BY <1>3, <1>4, <1>5

\* The outer loop calls visit for the next task id.
LEMMA VisitRootInvariant ==
  ASSUME SearchInvariant, NEW t \in Tasks, VisitRoot(t)
  PROVE  SearchInvariant'
<1>1. /\ phase = "search" /\ path = <<>> /\ t \in to_visit /\ to_visit' = to_visit \ {t}
      /\ Visit(t, rest) /\ plan' = plan
      /\ t \in PlanTasks(plan) /\ rest \in [Tasks -> SUBSET Tasks]
  BY DEF VisitRoot, AfterRoot, SearchInvariant, TypeOK
<1>2. \A i \in 1 .. Len(path) :
        rest[path[i]] = IF i = Len(path) THEN rest[path[i]] \ {t} ELSE rest[path[i]]
  BY <1>1
<1> QED BY <1>1, <1>2, VisitInvariant

\* The active call on top visits one of its dependencies.
LEMMA VisitDependencyInvariant ==
  ASSUME SearchInvariant, NEW d \in Tasks, VisitDependency(d)
  PROVE  SearchInvariant'
<1> DEFINE left == [rest EXCEPT ![Top] = @ \ {d}]
<1>1. /\ phase = "search" /\ path # <<>> /\ d \in rest[Top] /\ to_visit' = to_visit
      /\ Visit(d, left) /\ plan' = plan
  BY DEF VisitDependency
<1>2. /\ plan \in PlanOver(Tasks) /\ rest \in [Tasks -> SUBSET Tasks] /\ path \in Seq(PlanTasks(plan))
      /\ PathShape /\ RestShape /\ KnownDependencies(plan) /\ PlanTasks(plan) \subseteq Tasks
  BY <1>1, PlanParts DEF SearchInvariant, TypeOK
<1>3. Len(path) \in 1 .. Len(path) /\ Top = path[Len(path)] /\ Top \in PlanTasks(plan)
  BY <1>1, <1>2 DEF Top
<1>4. d \in plan.deps[Top] /\ d \in PlanTasks(plan)
  BY <1>1, <1>2, <1>3 DEF RestShape, KnownDependencies
<1>5. left \in [Tasks -> SUBSET Tasks]
  BY <1>2
<1>6. ASSUME NEW i \in 1 .. Len(path)
      PROVE  left[path[i]] = IF i = Len(path) THEN rest[path[i]] \ {d} ELSE rest[path[i]]
  <2>1. path[i] = Top <=> i = Len(path)
    BY <1>2, <1>3 DEF PathShape
  <2>2. path[i] \in Tasks
    BY <1>2
  <2> QED BY <1>2, <1>3, <2>1, <2>2
<1> HIDE DEF left
<1> QED BY <1>1, <1>4, <1>5, <1>6, VisitInvariant

\* A call that returns leaves a task all of whose dependencies are visited: the
\* visited tasks stay closed and acyclic.
LEMMA LeaveTaskInvariant == SearchInvariant /\ LeaveTask => SearchInvariant'
<1> SUFFICES ASSUME SearchInvariant, LeaveTask PROVE SearchInvariant'
  OBVIOUS
<1> DEFINE n == Len(path)
<1>1. /\ phase = "search" /\ path # <<>> /\ rest[Top] = {}
      /\ visiting' = visiting \ {Top} /\ visited' = visited \cup {Top}
      /\ path' = SubSeq(path, 1, n - 1)
      /\ UNCHANGED <<plan, phase, to_visit, rest>>
      /\ TypeOK /\ UniqueIds(plan) /\ KnownDependencies(plan)
      /\ PathShape /\ RestShape /\ VisitedShape /\ NoneForgotten
  BY DEF LeaveTask, Marks, SearchInvariant
<1>2. /\ path \in Seq(PlanTasks(plan)) /\ n \in Nat /\ n \in 1 .. n
      /\ Top = path[n] /\ Top \in PlanTasks(plan) /\ Top \in visiting /\ Top \notin visited
      /\ plan \in PlanOver(Tasks)
  BY <1>1 DEF TypeOK, PathShape, VisitedShape, Top
<1>3. /\ path' \in Seq(PlanTasks(plan)) /\ Len(path') = n - 1
      /\ \A i \in 1 .. n - 1 : path'[i] = path[i] /\ path[i] # Top
  <2>1. n - 1 \in 0 .. n
    BY <1>2
  <2>2. path' \in Seq(PlanTasks(plan)) /\ Len(path') = n - 1
    <3>1. 1 \in Int /\ n - 1 \in Int /\ \A i \in 1 .. n - 1 : path[i] \in PlanTasks(plan)
      BY <1>2
    <3>2. /\ SubSeq(path, 1, n - 1) \in Seq(PlanTasks(plan))
          /\ Len(SubSeq(path, 1, n - 1)) = IF 1 =< n - 1 THEN n - 1 - 1 + 1 ELSE 0
      <4> HIDE DEF n
      <4> QED BY <3>1, SubSeqProperties
    <3>3. (IF 1 =< n - 1 THEN n - 1 - 1 + 1 ELSE 0) = n - 1
      <4>1. n \in Nat /\ n \in 1 .. n BY <1>2
      <4> HIDE DEF n
      <4> QED BY <4>1
    <3> QED BY <1>1, <3>2, <3>3
  <2>3. \A i \in 1 .. n - 1 : path'[i] = path[i]
    BY <1>1, <1>2, <2>1
  <2>4. ASSUME NEW i \in 1 .. n - 1 PROVE path[i] # Top
    <3>1. i \in 1 .. n /\ i # n BY <1>2
    <3> QED BY <1>1, <1>2, <3>1 DEF PathShape
  <2> QED BY <2>2, <2>3, <2>4
<1>4. plan.deps[Top] \subseteq visited
  BY <1>1, <1>2 DEF RestShape
<1>5. TypeOK'
  <2>1. Cardinality(PlanTasks(plan)) \in Nat BY <1>2, PlanParts
  <2> HIDE DEF n
  <2>2. Len(path') =< Cardinality(PlanTasks(plan)) BY <1>1, <1>2, <1>3, <2>1 DEF TypeOK, n
  <2> QED BY <1>1, <1>2, <1>3, <2>2 DEF TypeOK
<1>6. PathShape'
  <2>1. visiting' = {path'[i] : i \in 1 .. Len(path')}
    <3>1. visiting = {path[i] : i \in 1 .. n} BY <1>1 DEF PathShape
    <3>2. 1 .. n = (1 .. n - 1) \cup {n} BY <1>2
    <3>3. visiting = {path[i] : i \in 1 .. n - 1} \cup {Top} BY <1>2, <3>1, <3>2
    <3>4. {path[i] : i \in 1 .. n - 1} = {path'[i] : i \in 1 .. n - 1} BY <1>3
    <3>5. Top \notin {path[i] : i \in 1 .. n - 1} BY <1>3
    <3> QED BY <1>1, <1>3, <3>3, <3>4, <3>5
  <2>2. \A i, j \in 1 .. n - 1 : path'[i] = path'[j] => i = j
    BY <1>1, <1>2, <1>3 DEF PathShape
  <2>3. ASSUME NEW i \in 1 .. n - 1 - 1 PROVE path'[i + 1] \in plan.deps[path'[i]]
    <3>1. i \in 1 .. n - 1 /\ i + 1 \in 1 .. n - 1 BY <1>2
    <3>2. path[i + 1] \in plan.deps[path[i]] BY <1>1, <3>1 DEF PathShape
    <3> QED BY <1>3, <3>1, <3>2
  <2> QED BY <1>1, <1>3, <2>1, <2>2, <2>3 DEF PathShape
<1>7. RestShape'
  <2>1. ASSUME NEW i \in 1 .. n - 1
        PROVE  /\ rest[path[i]] \subseteq plan.deps[path[i]]
               /\ \A d \in plan.deps[path[i]] :
                    d \in visited' \/ d \in rest[path[i]] \/ (i < n - 1 /\ d = path'[i + 1])
    <3>1. i \in 1 .. n /\ i < n BY <1>2
    <3>2. /\ rest[path[i]] \subseteq plan.deps[path[i]]
          /\ \A d \in plan.deps[path[i]] :
               d \in visited \/ d \in rest[path[i]] \/ d = path[i + 1]
      BY <1>1, <3>1 DEF RestShape
    <3>3. CASE i < n - 1
      <4>1. i + 1 \in 1 .. n - 1 BY <1>2, <3>1, <3>3
      <4>2. path'[i + 1] = path[i + 1] BY <1>3, <4>1
      <4> QED BY <1>1, <3>2, <3>3, <4>2
    <3>4. CASE i = n - 1
      <4>1. path[i + 1] = Top BY <1>2, <3>4
      <4> QED BY <1>1, <3>2, <4>1
    <3> QED BY <1>2, <3>3, <3>4
  <2> QED BY <1>1, <1>3, <2>1 DEF RestShape
<1>8. VisitedShape'
  <2>1. visited' \cap visiting' = {} BY <1>1 DEF VisitedShape
  <2>2. \A t \in visited' : plan.deps[t] \subseteq visited'
    BY <1>1, <1>4 DEF VisitedShape
  <2>3. ASSUME NEW S \in SUBSET visited', S # {} PROVE \E t \in S : plan.deps[t] \cap S = {}
    <3>1. CASE S \ {Top} = {}
      BY <1>1, <1>2, <1>4, <2>3, <3>1
    <3>2. CASE S \ {Top} # {}
      <4>1. S \ {Top} \in SUBSET visited BY <1>1
      <4>2. PICK t \in S \ {Top} : plan.deps[t] \cap (S \ {Top}) = {}
        BY <1>1, <3>2, <4>1 DEF VisitedShape
      <4>3. Top \notin plan.deps[t] BY <1>1, <1>2, <4>1 DEF VisitedShape
      <4> QED BY <4>2, <4>3
    <3> QED BY <3>1, <3>2
  <2> QED BY <1>1, <2>1, <2>2, <2>3 DEF VisitedShape
<1>9. NoneForgotten' BY <1>1, <1>2 DEF NoneForgotten
<1> QED BY <1>1, <1>5, <1>6, <1>7, <1>8, <1>9 DEF SearchInvariant, RefusalsAreReal

\* The search ends with everything visited.
LEMMA AcceptInvariant == SearchInvariant /\ Accept => SearchInvariant'
<1> SUFFICES ASSUME SearchInvariant, Accept PROVE SearchInvariant'
  OBVIOUS
<1>1. /\ phase = "search" /\ path = <<>> /\ to_visit = {} /\ phase' = "accepted"
      /\ UNCHANGED <<plan, to_visit, path, rest, visiting, visited>>
  BY DEF Accept
<1>2. TypeOK' BY <1>1 DEF SearchInvariant, TypeOK, Verdicts
<1>3. PathShape' /\ RestShape' /\ VisitedShape' /\ NoneForgotten'
  BY <1>1 DEF SearchInvariant, PathShape, RestShape, VisitedShape, NoneForgotten
<1> QED BY <1>1, <1>2, <1>3 DEF SearchInvariant, RefusalsAreReal

\* Every step of the validation preserves the invariant.
LEMMA StepInvariant == SearchInvariant /\ [Next]_vars => SearchInvariant'
<1> SUFFICES ASSUME SearchInvariant, [Next]_vars PROVE SearchInvariant'
  OBVIOUS
<1>1. CASE CheckIds BY <1>1, CheckIdsInvariant
<1>2. CASE \E t \in Tasks : VisitRoot(t) BY <1>2, VisitRootInvariant
<1>3. CASE \E t \in Tasks : VisitDependency(t) BY <1>3, VisitDependencyInvariant
<1>4. CASE LeaveTask BY <1>4, LeaveTaskInvariant
<1>5. CASE Accept BY <1>5, AcceptInvariant
<1>6. CASE UNCHANGED vars
  <2>1. UNCHANGED <<plan, phase, to_visit, path, rest, visiting, visited>>
    BY <1>6 DEF vars
  <2>2. TypeOK' <=> TypeOK BY <2>1 DEF TypeOK
  <2>3. (PathShape' <=> PathShape) /\ (RestShape' <=> RestShape)
    BY <2>1 DEF PathShape, RestShape
  <2>4. (VisitedShape' <=> VisitedShape) /\ (NoneForgotten' <=> NoneForgotten)
    BY <2>1 DEF VisitedShape, NoneForgotten
  <2> QED BY <2>1, <2>2, <2>3, <2>4 DEF SearchInvariant, RefusalsAreReal
<1> QED BY <1>1, <1>2, <1>3, <1>4, <1>5, <1>6 DEF Next

\* The invariant holds throughout the validation of every plan.
THEOREM Invariance == Spec => []SearchInvariant
<1> QED BY InitInvariant, StepInvariant, PTL DEF Spec

\* The variables keep their types; in particular the recursion is never deeper
\* than the plan has tasks.
THEOREM TypeCorrect == Spec => []TypeOK
<1>1. SearchInvariant => TypeOK BY DEF SearchInvariant
<1> QED BY <1>1, Invariance, PTL

\* The tasks of an accepted plan, all visited, are acyclic because the visited
\* tasks always are.
LEMMA AcceptedIsValid == SearchInvariant => AcceptedPlansAreValid
<1> SUFFICES ASSUME SearchInvariant, phase = "accepted" PROVE ValidPlan(plan)
  BY DEF AcceptedPlansAreValid
<1>1. /\ UniqueIds(plan) /\ KnownDependencies(plan) /\ VisitedShape
      /\ PlanTasks(plan) = to_visit \cup visited \cup visiting
      /\ visiting = {path[i] : i \in 1 .. Len(path)} /\ to_visit = {} /\ path = <<>>
  BY DEF SearchInvariant, NoneForgotten, PathShape
<1>2. PlanTasks(plan) = visited BY <1>1
<1> QED BY <1>1, <1>2 DEF VisitedShape, ValidPlan, Acyclic

\* What validate_plan accepts is a valid plan (domain/plan_validation.py:6-28).
THEOREM Soundness == Spec => []AcceptedPlansAreValid
BY AcceptedIsValid, Invariance, PTL

\* What validate_plan refuses is not a valid plan, for the reason it gives.
THEOREM Completeness == Spec => []RefusalsAreReal
<1>1. SearchInvariant => RefusalsAreReal BY DEF SearchInvariant
<1> QED BY <1>1, Invariance, PTL

-----------------------------------------------------------------------------
(* The planner. *)

\* A non-empty set of numbers up to L has a least element: of the intervals
\* 1 .. n that end in the set, one contains no other.
LEMMA LeastNumber ==
  ASSUME NEW L \in Nat, NEW N, N \subseteq 1 .. L, N # {}
  PROVE  \E m \in N : \A n \in N : m =< n
<1> DEFINE T == {1 .. n : n \in N}
           Less == StrictSubsetOrdering(1 .. L)
           All == FiniteSubsetsOf(1 .. L)
<1>1. IsWellFoundedOn(Less, All)
  BY FS_StrictSubsetOrderingWellFounded
<1>2. T \subseteq All /\ T # {}
  <2>1. IsFiniteSet(1 .. L) BY FS_Interval
  <2>2. All = SUBSET (1 .. L) BY <2>1, FS_FiniteSubsetsOfFinite
  <2>3. ASSUME NEW n \in N PROVE 1 .. n \in All
    <3> HIDE DEF All
    <3> QED BY <2>2
  <2> HIDE DEF All
  <2> QED BY <2>3
<1>3. PICK x \in T : \A y \in T : <<y, x>> \notin Less
  <2> HIDE DEF T, Less, All
  <2> QED BY <1>1, <1>2, WFMin
<1>4. PICK m \in N : x = 1 .. m
  OBVIOUS
<1>5. ASSUME NEW n \in N PROVE m =< n
  <2>1. SUFFICES ASSUME n < m PROVE FALSE
    OBVIOUS
  <2>2. 1 .. n \subseteq 1 .. m /\ 1 .. n # 1 .. m
    BY <2>1
  <2>3. 1 .. n \in SUBSET (1 .. L) /\ 1 .. m \in SUBSET (1 .. L)
    OBVIOUS
  <2>4. <<1 .. n, x>> \in Less
    BY <2>2, <2>3, <1>4 DEF StrictSubsetOrdering
  <2> QED BY <2>4, <1>3
<1> QED BY <1>5

LEMMA NodesAreNodes ==
  ASSUME nodes \in Templates
  PROVE  \A n \in DOMAIN nodes :
           /\ nodes[n].id \in Ids /\ nodes[n].depends_on \subseteq Ids
           /\ nodes[n].requires_approval \in BOOLEAN
<1>1. nodes \in Seq(Node)
  BY PlanningAssumption
<1>2. \A n \in DOMAIN nodes : nodes[n] \in Node
  BY <1>1
<1>3. QED
  BY <1>2 DEF Node

LEMMA InvariantInit == PlannerInit => PlanningInvariant
<1> SUFFICES ASSUME PlannerInit PROVE PlanningInvariant
  OBVIOUS
<1>1. PlannerTypeOK
  BY NodesAreNodes DEF PlannerInit, PlannerTypeOK
<1>2. /\ DOMAIN ordered = {} /\ DOMAIN tasks = {} /\ Len(ordered) = 0 /\ Len(tasks) = 0
      /\ outcome = "reading" /\ completed = {} /\ runnable = {} /\ tasks = <<>>
      /\ pending = DOMAIN nodes /\ \A k \in Ids : keyToTask[k] = 0
  BY DEF PlannerInit
<1>3. OrderSound
  BY <1>2 DEF OrderSound
<1>4. KeysSound /\ TasksSound /\ DependenciesFirst
  BY <1>2 DEF KeysSound, TasksSound, DependenciesFirst
<1>5. QED
  BY <1>1, <1>3, <1>4 DEF PlanningInvariant

LEMMA ControlStep ==
  ASSUME PlanningInvariant, ReadIssue \/ FindRunnable \/ OrderDone \/ PlanDone
  PROVE  PlanningInvariant'
<1> USE DEF PlanningInvariant
<1>1. PlannerTypeOK'
  BY DEF PlannerTypeOK, ReadIssue, FindRunnable, OrderDone, PlanDone, RunnableNodes
<1>2. OrderSound'
  <2>1. CASE ReadIssue
    BY <2>1 DEF OrderSound, ReadIssue
  <2>2. CASE FindRunnable
    BY <2>2 DEF OrderSound, FindRunnable, RunnableNodes, Unresolved
  <2>3. CASE OrderDone
    BY <2>3 DEF OrderSound, OrderDone
  <2>4. CASE PlanDone
    BY <2>4 DEF OrderSound, PlanDone
  <2>5. QED
    BY <2>1, <2>2, <2>3, <2>4
<1>3. KeysSound'
  BY DEF KeysSound, ReadIssue, FindRunnable, OrderDone, PlanDone
<1>4. TasksSound'
  <2>1. CASE ReadIssue
    BY <2>1 DEF TasksSound, Matches, ReadIssue
  <2>2. CASE FindRunnable
    BY <2>2 DEF TasksSound, Matches, FindRunnable
  <2>3. CASE OrderDone
    BY <2>3 DEF TasksSound, Matches, OrderDone
  <2>4. CASE PlanDone
    BY <2>4 DEF TasksSound, Matches, PlanDone
  <2>5. QED
    BY <2>1, <2>2, <2>3, <2>4
<1>5. DependenciesFirst'
  BY DEF DependenciesFirst, ReadIssue, FindRunnable, OrderDone, PlanDone
<1>6. QED
  BY <1>1, <1>2, <1>3, <1>4, <1>5

LEMMA OrderStep ==
  ASSUME PlanningInvariant, OrderNode
  PROVE  PlanningInvariant'
<1> USE DEF PlanningInvariant
<1> DEFINE L == Len(ordered)
<1>1. PICK n \in runnable :
        /\ ordered' = Append(ordered, n)
        /\ completed' = completed \cup {nodes[n].id}
        /\ pending' = pending \ {n}
        /\ runnable' = runnable \ {n}
  BY DEF OrderNode, CompletedWith
<1>2. UNCHANGED <<nodes, keyToTask, tasks, outcome>> /\ outcome = "ordering"
  BY DEF OrderNode
<1>3. /\ n \in DOMAIN nodes /\ n \in pending /\ nodes[n].id \in Ids
      /\ nodes[n].depends_on \subseteq completed
  BY NodesAreNodes DEF PlannerTypeOK, OrderSound
<1>4. /\ L \in Nat /\ DOMAIN ordered = 1 .. L /\ DOMAIN ordered' = 1 .. L + 1
      /\ \A i \in 1 .. L : ordered'[i] = ordered[i]
      /\ ordered'[L + 1] = n
  BY <1>1, <1>3 DEF PlannerTypeOK
<1>5. tasks = <<>> /\ tasks' = <<>>
  BY <1>2 DEF TasksSound
<1>6. PlannerTypeOK'
  BY <1>1, <1>2, <1>3 DEF PlannerTypeOK
<1>7. OrderSound'
  <2>1. (pending = DOMAIN nodes \ {ordered[i] : i \in DOMAIN ordered})'
    BY <1>1, <1>2, <1>4 DEF OrderSound
  <2>2. (\A i, j \in DOMAIN ordered : ordered[i] = ordered[j] => i = j)'
    BY <1>3, <1>4 DEF OrderSound
  <2>3. (completed = {nodes[ordered[i]].id : i \in DOMAIN ordered})'
    BY <1>1, <1>2, <1>4 DEF OrderSound
  <2>4. (\A m \in runnable : nodes[m].depends_on \subseteq completed)'
    BY <1>1, <1>2 DEF OrderSound
  <2>5. (\A i \in DOMAIN ordered :
           nodes[ordered[i]].depends_on \subseteq {nodes[ordered[j]].id : j \in 1 .. i - 1})'
    <3>1. ASSUME NEW i \in 1 .. L
          PROVE  nodes[ordered'[i]].depends_on \subseteq {nodes[ordered'[j]].id : j \in 1 .. i - 1}
      <4>1. nodes[ordered[i]].depends_on \subseteq {nodes[ordered[j]].id : j \in 1 .. i - 1}
        BY <1>4 DEF OrderSound
      <4>2. \A j \in 1 .. i - 1 : ordered'[j] = ordered[j]
        BY <1>4
      <4>3. QED
        BY <1>4, <4>1, <4>2
    <3>2. nodes[n].depends_on \subseteq {nodes[ordered'[j]].id : j \in 1 .. L}
      BY <1>3, <1>4 DEF OrderSound
    <3>3. QED
      BY <1>2, <1>4, <3>1, <3>2
  <2>6. QED
    BY <1>2, <2>1, <2>2, <2>3, <2>4, <2>5 DEF OrderSound
<1>8. KeysSound' /\ DependenciesFirst'
  BY <1>2, <1>5 DEF KeysSound, DependenciesFirst
<1>9. TasksSound'
  BY <1>2, <1>4, <1>5 DEF TasksSound
<1>10. QED
  BY <1>6, <1>7, <1>8, <1>9

LEMMA BuildStep ==
  ASSUME PlanningInvariant, BuildTask
  PROVE  PlanningInvariant'
<1> USE DEF PlanningInvariant
<1> DEFINE L == Len(tasks)
           node == nodes[ordered[L + 1]]
           task == TaskOf(node)
<1>1. /\ tasks' = Append(tasks, task)
      /\ keyToTask' = [keyToTask EXCEPT ![node.id] = L + 1]
      /\ UNCHANGED <<nodes, pending, completed, runnable, ordered, outcome>>
      /\ outcome = "building" /\ L < Len(ordered)
  BY DEF BuildTask, NextNode, TaskKept
<1>2. /\ L \in Nat /\ DOMAIN tasks = 1 .. L /\ DOMAIN tasks' = 1 .. L + 1
      /\ \A t \in 1 .. L : tasks'[t] = tasks[t]
      /\ tasks'[L + 1] = task
  BY <1>1 DEF PlannerTypeOK
<1>3. L + 1 \in DOMAIN ordered /\ DOMAIN ordered = 1 .. Len(ordered)
  BY <1>1, <1>2 DEF PlannerTypeOK
<1>4. /\ node.id \in Ids /\ node.depends_on \subseteq Ids /\ node.requires_approval \in BOOLEAN
  <2>1. ordered[L + 1] \in DOMAIN nodes
    BY <1>3 DEF PlannerTypeOK
  <2>2. QED
    BY <2>1, NodesAreNodes DEF PlannerTypeOK
<1>5. ASSUME NEW k \in node.depends_on
      PROVE  keyToTask[k] \in 1 .. L /\ nodes[ordered[keyToTask[k]]].id = k
  <2>1. PICK j \in 1 .. L : nodes[ordered[j]].id = k
    BY <1>2, <1>3 DEF OrderSound
  <2>2. keyToTask[k] # 0
    BY <1>2, <1>4, <2>1 DEF KeysSound
  <2>3. QED
    BY <1>2, <1>4, <2>2 DEF KeysSound
<1>6. /\ task.depends_on = {keyToTask[k] : k \in node.depends_on}
      /\ task.source_issue = (node.depends_on = {})
      /\ task.requires_approval = node.requires_approval
  BY DEF TaskOf
<1>7. task.depends_on \subseteq 1 .. L
  BY <1>5, <1>6
<1>8. PlannerTypeOK'
  <2>1. task \in [depends_on : SUBSET (Nat \ {0}), source_issue : BOOLEAN,
                  requires_approval : BOOLEAN]
    <3>1. task.depends_on \in SUBSET (Nat \ {0})
      BY <1>2, <1>7
    <3>2. QED
      BY <1>4, <3>1 DEF TaskOf
  <2>2. tasks' \in Seq([depends_on : SUBSET (Nat \ {0}), source_issue : BOOLEAN,
                        requires_approval : BOOLEAN])
    <3> HIDE DEF task
    <3> QED
      BY <1>1, <2>1 DEF PlannerTypeOK
  <2>3. keyToTask' \in [Ids -> Nat]
    <3> HIDE DEF node
    <3> QED
      BY <1>1, <1>2, <1>4 DEF PlannerTypeOK
  <2> HIDE DEF task, node
  <2>4. QED
    BY <1>1, <2>2, <2>3 DEF PlannerTypeOK
<1>9. OrderSound'
  <2> HIDE DEF task, node
  <2> QED
    BY <1>1 DEF OrderSound
<1>10. KeysSound'
  <2>1. ASSUME NEW k \in Ids, k = node.id
        PROVE  keyToTask'[k] = L + 1 /\ L + 1 \in DOMAIN tasks' /\ nodes[ordered[L + 1]].id = k
    BY <1>1, <1>2, <2>1 DEF PlannerTypeOK
  <2>2. ASSUME NEW k \in Ids, k # node.id
        PROVE  /\ keyToTask'[k] = keyToTask[k]
               /\ keyToTask[k] = 0 => \A t \in 1 .. L + 1 : nodes[ordered[t]].id # k
               /\ keyToTask[k] # 0 =>
                    keyToTask[k] \in 1 .. L + 1 /\ nodes[ordered[keyToTask[k]]].id = k
    BY <1>1, <1>2, <2>2 DEF KeysSound, PlannerTypeOK
  <2> HIDE DEF task
  <2>3. QED
    BY <1>1, <1>2, <2>1, <2>2 DEF KeysSound
<1>11. TasksSound'
  <2>1. ASSUME NEW t \in 1 .. L PROVE Matches(t)'
    <3>1. Matches(t) /\ tasks'[t] = tasks[t]
      BY <1>2 DEF TasksSound
    <3> HIDE DEF node, task
    <3>2. QED
      BY <1>1, <3>1 DEF Matches
  <2>2. ASSUME NEW t, t = L + 1 PROVE Matches(t)'
    <3>1. node.depends_on = {nodes[ordered[u]].id : u \in task.depends_on}
      BY <1>5, <1>6
    <3>2. \A u, v \in task.depends_on : nodes[ordered[u]].id = nodes[ordered[v]].id => u = v
      BY <1>5, <1>6
    <3>3. UNCHANGED <<nodes, ordered>> /\ tasks'[t] = task /\ nodes[ordered[t]] = node
      BY <1>1, <1>2, <2>2
    <3> HIDE DEF task, node
    <3>4. QED
      BY <1>6, <3>1, <3>2, <3>3 DEF Matches
  <2>3. \A t \in DOMAIN tasks' : Matches(t)'
    BY <1>2, <2>1, <2>2
  <2>4. Len(tasks') = L + 1 /\ L + 1 <= Len(ordered)
    BY <1>1, <1>2, <1>3
  <2> HIDE DEF task, node
  <2>5. QED
    BY <1>1, <2>3, <2>4 DEF TasksSound
<1>12. DependenciesFirst'
  <2> HIDE DEF task
  <2> QED
    BY <1>1, <1>2, <1>7 DEF DependenciesFirst
<1> HIDE DEF task, node
<1>13. QED
  BY <1>8, <1>9, <1>10, <1>11, <1>12

\* Every step of the planner preserves the invariant.
LEMMA PlanningStep == PlanningInvariant /\ [PlannerNext]_plannerVars => PlanningInvariant'
<1> SUFFICES ASSUME PlanningInvariant, [PlannerNext]_plannerVars PROVE PlanningInvariant'
  OBVIOUS
<1>1. CASE UNCHANGED plannerVars
  <2>1. PlannerTypeOK' /\ OrderSound'
    BY <1>1 DEF plannerVars, PlanningInvariant, PlannerTypeOK, OrderSound
  <2>2. KeysSound' /\ DependenciesFirst'
    BY <1>1 DEF plannerVars, PlanningInvariant, KeysSound, DependenciesFirst
  <2>3. ASSUME NEW t \in DOMAIN tasks PROVE Matches(t)'
    <3>1. Matches(t)
      BY  DEF PlanningInvariant, TasksSound
    <3>2. UNCHANGED <<nodes, ordered, tasks>>
      BY <1>1 DEF plannerVars
    <3>3. QED
      BY <3>1, <3>2 DEF Matches
  <2>4. TasksSound'
    BY <1>1, <2>3 DEF plannerVars, PlanningInvariant, TasksSound
  <2>5. QED
    BY <2>1, <2>2, <2>4 DEF PlanningInvariant
<1>2. CASE PlannerNext
  BY <1>2, ControlStep, OrderStep, BuildStep DEF PlannerNext
<1>3. QED
  BY <1>1, <1>2

\* The order, the keys and the tasks stay sound whatever the template
\* (runtime/graph_templates.py:28-42, activities/planning.py:18-53).
THEOREM PlanningInvariance == PlannerSpec => []PlanningInvariant
BY InvariantInit, PlanningStep, PTL DEF PlannerSpec

\* Every variable keeps its type; no dependency is without a task.
THEOREM PlannerTypeCorrect == PlannerSpec => []PlannerTypeOK
BY PlanningInvariance, PTL DEF PlanningInvariant

\* A task depends only on tasks before it (runtime/graph_templates.py:32-42).
THEOREM PlansInOrder == PlannerSpec => []DependenciesFirst
BY PlanningInvariance, PTL DEF PlanningInvariant

-----------------------------------------------------------------------------
(* What the invariant says of a finished order and of a finished plan. *)

LEMMA TasksCoverNodes ==
  ASSUME PlanningInvariant, outcome = "planned"
  PROVE  PlanMatchesTemplate
<1> USE DEF PlanningInvariant
<1>1. DOMAIN tasks = DOMAIN ordered
  BY DEF TasksSound, PlannerTypeOK
<1>2. \A n \in DOMAIN nodes : \E t \in DOMAIN tasks : ordered[t] = n
  BY <1>1 DEF OrderSound
<1>3. \A t, u \in DOMAIN tasks : ordered[t] = ordered[u] => t = u
  BY <1>1 DEF OrderSound
<1>4. \A t \in DOMAIN tasks : Matches(t)
  BY DEF TasksSound
<1>5. QED
  BY <1>2, <1>3, <1>4 DEF PlanMatchesTemplate

LEMMA BuiltPlanIsValid ==
  ASSUME PlanningInvariant
  PROVE  ValidPlan(Plan)
<1> DEFINE N == Len(tasks)
<1>1. N \in Nat /\ DOMAIN tasks = 1 .. N
  BY DEF PlanningInvariant, PlannerTypeOK
<1>2. \A t \in 1 .. N : Plan.deps[t] \subseteq 1 .. t - 1
  BY <1>1 DEF PlanningInvariant, DependenciesFirst, Plan
<1>3. Len(Plan.order) = N /\ \A t \in 1 .. N : Plan.order[t] = t
  BY <1>1 DEF Plan
<1>4. PlanTasks(Plan) = 1 .. N
  BY <1>3 DEF PlanTasks
<1>5. UniqueIds(Plan)
  BY <1>3 DEF UniqueIds
<1>6. KnownDependencies(Plan)
  BY <1>1, <1>2, <1>4 DEF KnownDependencies
<1>7. Acyclic(Plan)
  <2> HIDE DEF N
  <2>1. SUFFICES ASSUME NEW S \in SUBSET (1 .. N), S # {}
                 PROVE  \E t \in S : Plan.deps[t] \cap S = {}
    BY <1>4 DEF Acyclic
  <2>2. PICK t \in S : \A u \in S : t =< u
    BY <1>1, <2>1, LeastNumber
  <2>3. Plan.deps[t] \cap S = {}
    BY <1>1, <1>2, <2>2
  <2>4. QED
    BY <2>3
<1>8. QED
  BY <1>5, <1>6, <1>7 DEF ValidPlan

LEMMA OrderResolves ==
  ASSUME PlanningInvariant, pending = {}
  PROVE  Resolvable
<1> USE DEF PlanningInvariant
<1> DEFINE L == Len(ordered)
<1>1. L \in Nat /\ DOMAIN ordered = 1 .. L
  BY DEF PlannerTypeOK
<1>2. SUFFICES ASSUME NEW S \in SUBSET DOMAIN nodes, S # {}
               PROVE  \E n \in S : nodes[n].depends_on \subseteq {nodes[m].id : m \in DOMAIN nodes \ S}
  BY DEF Resolvable
<1> DEFINE At == {i \in 1 .. L : ordered[i] \in S}
<1>3. At # {} /\ At \subseteq 1 .. L
  BY <1>1, <1>2 DEF OrderSound
<1>4. PICK i \in At : \A j \in At : i =< j
  <2> HIDE DEF At, L
  <2> QED
    BY <1>1, <1>3, LeastNumber
<1>5. \A j \in 1 .. i - 1 : ordered[j] \in DOMAIN nodes \ S
  BY <1>1, <1>4 DEF PlannerTypeOK
<1>6. nodes[ordered[i]].depends_on \subseteq {nodes[ordered[j]].id : j \in 1 .. i - 1}
  BY <1>1, <1>4 DEF OrderSound
<1>7. nodes[ordered[i]].depends_on \subseteq {nodes[m].id : m \in DOMAIN nodes \ S}
  BY <1>5, <1>6
<1>8. QED
  BY <1>4, <1>7

LEMMA RefusalIsReal ==
  ASSUME PlanningInvariant, outcome = "unresolved"
  PROVE  ~Resolvable
<1> USE DEF PlanningInvariant
<1>1. pending \in SUBSET DOMAIN nodes /\ pending # {}
  BY DEF OrderSound, PlannerTypeOK
<1>2. {nodes[m].id : m \in DOMAIN nodes \ pending} \subseteq completed
  BY DEF OrderSound
<1>3. \A n \in pending : ~(nodes[n].depends_on \subseteq completed)
  BY DEF OrderSound
<1>4. QED
  BY <1>1, <1>2, <1>3 DEF Resolvable

\* Any plan that is built passes validate_plan (activities/planning.py:28-53).
THEOREM PlannerNeverRefused == PlannerSpec => []PlansAreValid
<1>1. PlanningInvariant => PlansAreValid
  BY BuiltPlanIsValid DEF PlansAreValid
<1>2. QED
  BY <1>1, PlanningInvariance, PTL

\* The plan is the template, node by node (activities/planning.py:30-47).
THEOREM PlanIsTemplate == PlannerSpec => []PlanMatchesTemplate
<1>1. PlanningInvariant => PlanMatchesTemplate
  BY TasksCoverNodes DEF PlanMatchesTemplate
<1>2. QED
  BY <1>1, PlanningInvariance, PTL

\* A template is refused exactly when its dependencies cannot be resolved
\* (runtime/graph_templates.py:36-37).
THEOREM RefusalsAreExact == PlannerSpec => []RefusedIffUnresolvable
<1>1. PlanningInvariant => RefusedIffUnresolvable
  BY OrderResolves, RefusalIsReal DEF RefusedIffUnresolvable, PlanningInvariant, OrderSound
<1>2. QED
  BY <1>1, PlanningInvariance, PTL

-----------------------------------------------------------------------------
(* The two together: what is delivered, and what becomes of it. *)

\* The plan is no longer than the template.
LEMMA NoMoreTasksThanNodes ==
  ASSUME PlanningInvariant
  PROVE  /\ Len(tasks) \in Nat /\ DOMAIN tasks = 1 .. Len(tasks)
         /\ DOMAIN tasks \subseteq DOMAIN nodes
         /\ Len(ordered) \in Nat /\ Len(ordered) =< Len(nodes)
<1> DEFINE N == Len(nodes)
           L == Len(ordered)
           f == [i \in 1 .. L |-> ordered[i]]
<1>1. N \in Nat /\ DOMAIN nodes = 1 .. N
  BY NodesAreNodes
<1>2. ordered \in Seq(1 .. N)
  BY <1>1 DEF PlanningInvariant, PlannerTypeOK
<1>3. L \in Nat /\ DOMAIN ordered = 1 .. L
  BY <1>2
<1>4. \A i, j \in 1 .. L : ordered[i] = ordered[j] => i = j
  BY <1>3 DEF PlanningInvariant, OrderSound
<1>5. f \in Injection(1 .. L, 1 .. N)
  BY <1>2, <1>4 DEF Injection, IsInjective
<1>6. /\ IsFiniteSet(1 .. N) /\ Cardinality(1 .. N) = N
      /\ Cardinality(1 .. L) = L
  <2> HIDE DEF N, L
  <2>1. \A n \in Nat : IsFiniteSet(1 .. n) /\ Cardinality(1 .. n) = n
    BY FS_Interval
  <2> QED BY <1>1, <1>3, <2>1
<1>7. L =< N
  <2> HIDE DEF f, N, L
  <2> QED BY <1>5, <1>6, FS_Injection
<1>8. Len(tasks) \in Nat /\ DOMAIN tasks = 1 .. Len(tasks)
  BY DEF PlanningInvariant, PlannerTypeOK
<1>9. Len(tasks) =< L
  BY DEF PlanningInvariant, TasksSound
<1> QED
  <2> HIDE DEF N, L
  <2> QED BY <1>1, <1>3, <1>7, <1>8, <1>9

\* What the supervisor receives is a plan over the task ids, and it says what the
\* planner's says.
LEMMA DeliveredIsPlan ==
  ASSUME PlanningInvariant
  PROVE  /\ Delivered \in PlanOver(Tasks)
         /\ ValidPlan(Delivered)
<1>1. /\ Len(tasks) \in Nat /\ DOMAIN tasks = 1 .. Len(tasks)
      /\ DOMAIN tasks \subseteq DOMAIN nodes
  BY NoMoreTasksThanNodes
<1>2. DOMAIN tasks \subseteq Tasks
  BY <1>1, DeliveryAssumption DEF PlanningInvariant, PlannerTypeOK
<1>3. /\ Delivered = [order |-> Plan.order, deps |-> Delivered.deps, gated |-> Plan.gated]
      /\ Delivered.deps = [t \in Tasks |-> IF t \in DOMAIN tasks THEN tasks[t].depends_on ELSE {}]
  <2> DEFINE D == [t \in Tasks |-> IF t \in DOMAIN tasks THEN Plan.deps[t] ELSE {}]
  <2>1. DOMAIN Plan.deps = DOMAIN tasks /\ \A t \in DOMAIN tasks : Plan.deps[t] = tasks[t].depends_on
    BY DEF Plan
  <2>2. Plan = [order |-> Plan.order, deps |-> Plan.deps, gated |-> Plan.gated]
    BY DEF Plan
  <2>3. Delivered = [order |-> Plan.order, deps |-> D, gated |-> Plan.gated]
    <3>1. Delivered = [Plan EXCEPT !.deps = D]
      <4> HIDE DEF Plan
      <4> QED BY <2>1 DEF Delivered
    <3> HIDE DEF D, Plan
    <3> QED BY <2>2, <3>1
  <2>4. Delivered.deps = D /\ D = [t \in Tasks |-> IF t \in DOMAIN tasks THEN tasks[t].depends_on ELSE {}]
    BY <2>1, <2>3
  <2> QED BY <2>3, <2>4
<1>4. Plan.order \in Seq(Tasks)
  BY <1>1, <1>2 DEF Plan
<1>5. Plan.gated \subseteq Tasks
  BY <1>2 DEF Plan
<1>6. \A t \in DOMAIN tasks : tasks[t].depends_on \subseteq DOMAIN tasks
  BY <1>1 DEF PlanningInvariant, DependenciesFirst
<1>7. Delivered.deps \in [Tasks -> SUBSET Tasks]
  BY <1>2, <1>3, <1>6
<1>8. Delivered \in PlanOver(Tasks)
  <2> HIDE DEF Delivered
  <2> QED BY <1>3, <1>4, <1>5, <1>7 DEF PlanOver
<1>9. Delivered.order = Plan.order /\ PlanTasks(Delivered) = PlanTasks(Plan)
  BY <1>3 DEF PlanTasks
<1>10. PlanTasks(Plan) \subseteq DOMAIN tasks
  BY <1>1 DEF Plan, PlanTasks
<1>11. \A t \in PlanTasks(Plan) : Delivered.deps[t] = Plan.deps[t]
  BY <1>2, <1>3, <1>10 DEF Plan
<1>12. ValidPlan(Plan)
  BY BuiltPlanIsValid
<1>13. ValidPlan(Delivered)
  <2> HIDE DEF Delivered, Plan
  <2>1. UniqueIds(Delivered)
    BY <1>9, <1>12 DEF ValidPlan, UniqueIds
  <2>2. KnownDependencies(Delivered)
    BY <1>9, <1>11, <1>12 DEF ValidPlan, KnownDependencies
  <2>3. Acyclic(Delivered)
    BY <1>9, <1>11, <1>12 DEF ValidPlan, Acyclic
  <2> QED BY <2>1, <2>2, <2>3 DEF ValidPlan
<1> QED BY <1>8, <1>13

LEMMA DeliveryInitially == DeliveryInit => DeliveryInvariant
<1> SUFFICES ASSUME DeliveryInit PROVE DeliveryInvariant
  OBVIOUS
<1>1. CASE Awaiting
  <2>1. PlanningInvariant /\ outcome = "reading" /\ phase = "awaited"
    BY <1>1, InvariantInit DEF Awaiting, PlannerInit
  <2> QED BY <2>1 DEF DeliveryInit, DeliveryInvariant
<1>2. CASE Given
  <2>1. Init
    BY <1>2 DEF DeliveryInit, Given, Init
  <2>2. outcome = "elsewhere" /\ phase = "ids"
    BY <1>2 DEF Given, NoTemplate
  <2> QED BY <2>1, <2>2, InitInvariant DEF DeliveryInvariant
<1> QED BY <1>1, <1>2 DEF DeliveryInit

\* The validator's invariant depends on the validator's variables only.
LEMMA SearchInvariantKept == SearchInvariant /\ UNCHANGED vars => SearchInvariant'
BY StepInvariant

LEMMA DeliveredKept == UNCHANGED plannerVars => Delivered' = Delivered
BY DEF plannerVars, Delivered, Plan

LEMMA DeliveryStep == DeliveryInvariant /\ [DeliveryNext]_deliveryVars => DeliveryInvariant'
<1> SUFFICES ASSUME DeliveryInvariant, [DeliveryNext]_deliveryVars PROVE DeliveryInvariant'
  OBVIOUS
<1> USE DEF DeliveryInvariant
<1>1. CASE PlannerNext /\ UNCHANGED vars
  <2>1. outcome # "planned" /\ outcome # "elsewhere" /\ outcome' # "elsewhere"
    BY <1>1 DEF PlannerNext, ReadIssue, FindRunnable, OrderNode, OrderDone, BuildTask, PlanDone
  <2>2. phase = "awaited" /\ PlanningInvariant'
    BY <1>1, <2>1, PlanningStep
  <2> QED BY <1>1, <2>1, <2>2 DEF vars
<1>2. CASE Deliver
  <2>1. /\ outcome = "planned" /\ outcome' = outcome /\ phase = "awaited" /\ phase' = "ids"
        /\ plan' = Delivered /\ UNCHANGED plannerVars
        /\ UNCHANGED <<to_visit, path, rest, visiting, visited>>
    BY <1>2 DEF Deliver, plannerVars
  <2>2. PlanningInvariant /\ PlanningInvariant' /\ plan' = Delivered'
    BY <2>1, PlanningStep, DeliveredKept
  <2>3. plan' \in PlanOver(Tasks)
    BY <2>1, <2>2, DeliveredIsPlan
  <2>4. SearchInvariant'
    <3>1. Cardinality(PlanTasks(plan'))  \in Nat
      BY <2>3, PlanParts
    <3>2. TypeOK'
      BY <2>1, <2>3, <3>1 DEF TypeOK, Verdicts
    <3>3. RefusalsAreReal'
      BY <2>1 DEF RefusalsAreReal
    <3> QED BY <2>1, <3>2, <3>3 DEF SearchInvariant
  <2> QED BY <2>1, <2>2, <2>4
<1>3. CASE Next /\ UNCHANGED plannerVars
  <2>1. phase # "awaited" /\ phase' # "awaited" /\ plan' = plan
    BY <1>3 DEF Next, CheckIds, CheckedIds, VisitRoot, VisitDependency, Visit, LeaveTask, Accept
  <2>2. SearchInvariant'
    BY <1>3, <2>1, StepInvariant
  <2>3. outcome' = outcome /\ Delivered' = Delivered
    BY <1>3, DeliveredKept DEF plannerVars
  <2>4. PlanningInvariant => PlanningInvariant'
    BY <1>3, PlanningStep
  <2> QED BY <2>1, <2>2, <2>3, <2>4
<1>4. CASE UNCHANGED deliveryVars
  <2>1. UNCHANGED vars /\ UNCHANGED plannerVars
    BY <1>4 DEF deliveryVars
  <2>2. SearchInvariant => SearchInvariant'
    BY <2>1, SearchInvariantKept
  <2>3. outcome' = outcome /\ Delivered' = Delivered
    BY <2>1, DeliveredKept DEF plannerVars
  <2>4. PlanningInvariant => PlanningInvariant'
    BY <2>1, PlanningStep
  <2>5. UNCHANGED <<plan, phase, to_visit, path, rest, visiting, visited>>
    BY <2>1 DEF vars
  <2> QED BY <2>2, <2>3, <2>4, <2>5
<1> QED BY <1>1, <1>2, <1>3, <1>4 DEF DeliveryNext

\* Planner and validator keep their invariants when the one's result is the
\* other's input (workflows/supervisor.py, the start of `run`).
THEOREM DeliveryInvariance == DeliverySpec => []DeliveryInvariant
BY DeliveryInitially, DeliveryStep, PTL DEF DeliverySpec

\* The supervisor runs no plan but a valid one, whoever made it
\* (domain/plan_validation.py:6-28).
THEOREM DeliveredPlansAreValid == DeliverySpec => []AcceptedPlansAreValid
<1>1. DeliveryInvariant => AcceptedPlansAreValid
  BY AcceptedIsValid DEF DeliveryInvariant, AcceptedPlansAreValid
<1> QED BY <1>1, DeliveryInvariance, PTL

\* A delivered plan is refused only for the defect that the error names
\* (domain/plan_validation.py:6-28).
THEOREM DeliveryRefusalsAreReal == DeliverySpec => []RefusalsAreReal
<1>1. DeliveryInvariant => RefusalsAreReal
  BY DEF DeliveryInvariant, SearchInvariant, RefusalsAreReal
<1> QED BY <1>1, DeliveryInvariance, PTL

\* The plan built is the template, it is valid, and there is one exactly if the
\* template can be resolved (activities/planning.py:28-53,
\* runtime/graph_templates.py:32-42).
THEOREM DeliveredPlanIsTemplate ==
  DeliverySpec => [](PlansAreValid /\ PlanMatchesTemplate /\ RefusedIffUnresolvable)
<1>1. PlanningInvariant => PlansAreValid /\ PlanMatchesTemplate /\ RefusedIffUnresolvable
  <2>1. PlanningInvariant => PlansAreValid
    BY BuiltPlanIsValid DEF PlansAreValid
  <2>2. PlanningInvariant => PlanMatchesTemplate
    BY TasksCoverNodes DEF PlanMatchesTemplate
  <2>3. PlanningInvariant => RefusedIffUnresolvable
    BY OrderResolves, RefusalIsReal DEF RefusedIffUnresolvable, PlanningInvariant, OrderSound
  <2> QED BY <2>1, <2>2, <2>3
<1>2. outcome = "elsewhere" => PlansAreValid /\ PlanMatchesTemplate /\ RefusedIffUnresolvable
  BY DEF PlansAreValid, PlanMatchesTemplate, RefusedIffUnresolvable
<1>3. DeliveryInvariant => PlansAreValid /\ PlanMatchesTemplate /\ RefusedIffUnresolvable
  BY <1>1, <1>2 DEF DeliveryInvariant
<1> QED BY <1>3, DeliveryInvariance, PTL

\* What this planner builds, whatever the template, is never refused
\* (activities/planning.py:28-53, domain/plan_validation.py:6-28).
THEOREM PlannersPlansPass == DeliverySpec => []OwnPlansPass
<1>1. ASSUME DeliveryInvariant, outcome = "planned", phase \in Verdicts \ {"accepted"}
      PROVE  FALSE
  <2>1. /\ plan = Delivered /\ PlanningInvariant /\ RefusalsAreReal
    BY <1>1 DEF DeliveryInvariant, Verdicts, SearchInvariant
  <2>2. ValidPlan(plan)
    BY <2>1, DeliveredIsPlan
  <2> QED BY <1>1, <2>1, <2>2 DEF RefusalsAreReal, ValidPlan, Verdicts
<1>2. DeliveryInvariant => OwnPlansPass
  BY <1>1 DEF OwnPlansPass
<1> QED BY <1>2, DeliveryInvariance, PTL

-----------------------------------------------------------------------------
(* Neither the rounds of the order nor the search can go on for ever. *)

LEMMA SearchGoesForward == SearchInvariant /\ Next => SearchAdvances
<1> SUFFICES ASSUME SearchInvariant, Next PROVE SearchAdvances
  OBVIOUS
<1>1. CASE CheckIds
  BY <1>1 DEF CheckIds, CheckedIds, SearchAdvances
<1>2. CASE Accept
  BY <1>2 DEF Accept, SearchAdvances, Verdicts
<1>3. ASSUME NEW t \in Tasks, VisitRoot(t) PROVE SearchAdvances
  <2>1. /\ phase = "search" /\ plan' = plan
        /\ to_visit' \subseteq to_visit /\ to_visit' # to_visit
    BY <1>3 DEF VisitRoot, AfterRoot
  <2>2. Visit(t, rest)
    BY <1>3 DEF VisitRoot
  <2>3. CASE t \in visited
    <3>1. phase' = phase /\ path' = path /\ visiting' = visiting /\ visited' = visited
      BY <2>2, <2>3 DEF Visit
    <3> QED BY <2>1, <3>1 DEF SearchAdvances
  <2>4. CASE t \notin visited /\ t \in visiting
    <3>1. phase' = "cycle"
      BY <2>2, <2>4 DEF Visit
    <3> QED BY <2>1, <3>1 DEF SearchAdvances, Verdicts
  <2>5. CASE t \notin visited \cup visiting
    <3>1. phase' = phase /\ visiting' = visiting \cup {t} /\ visited' = visited
      BY <2>2, <2>5 DEF Visit
    <3> QED BY <2>1, <2>5, <3>1 DEF SearchAdvances
  <2> QED BY <2>3, <2>4, <2>5
<1>4. ASSUME NEW d \in Tasks, VisitDependency(d) PROVE SearchAdvances
  <2> DEFINE left == [rest EXCEPT ![Top] = @ \ {d}]
  <2>1. /\ phase = "search" /\ plan' = plan /\ to_visit' = to_visit
        /\ path # <<>> /\ d \in rest[Top] /\ Visit(d, left)
    BY <1>4 DEF VisitDependency
  <2>2. Top \in Tasks /\ rest \in [Tasks -> SUBSET Tasks]
    <3>1. path \in Seq(PlanTasks(plan)) /\ plan \in PlanOver(Tasks) /\ rest \in [Tasks -> SUBSET Tasks]
      BY DEF SearchInvariant, TypeOK
    <3>2. path[Len(path)] \in PlanTasks(plan)
      BY <2>1, <3>1
    <3> QED BY <3>1, <3>2, PlanParts DEF Top
  <2>3. left[Top] = rest[Top] \ {d}
    BY <2>2
  <2> HIDE DEF left
  <2>4. CASE d \in visited
    <3>1. phase' = phase /\ path' = path /\ visiting' = visiting /\ visited' = visited /\ rest' = left
      BY <2>1, <2>4 DEF Visit
    <3>2. rest'[Top] \subseteq rest[Top] /\ rest'[Top] # rest[Top]
      BY <2>1, <2>3, <3>1
    <3> QED BY <2>1, <3>1, <3>2 DEF SearchAdvances
  <2>5. CASE d \notin visited /\ d \in visiting
    <3>1. phase' = "cycle"
      BY <2>1, <2>5 DEF Visit
    <3> QED BY <2>1, <3>1 DEF SearchAdvances, Verdicts
  <2>6. CASE d \notin visited \cup visiting
    <3>1. phase' = phase /\ visiting' = visiting \cup {d} /\ visited' = visited
      BY <2>1, <2>6 DEF Visit
    <3> QED BY <2>1, <2>6, <3>1 DEF SearchAdvances
  <2> QED BY <2>4, <2>5, <2>6
<1>5. CASE LeaveTask
  <2>1. /\ phase = "search" /\ phase' = phase /\ plan' = plan /\ visited' = visited \cup {Top}
        /\ path # <<>>
    BY <1>5 DEF LeaveTask, Marks
  <2>2. PathShape /\ VisitedShape /\ path \in Seq(PlanTasks(plan))
    BY <2>1 DEF SearchInvariant, TypeOK
  <2>3. Top \in visiting
    BY <2>1, <2>2 DEF PathShape, Top
  <2> QED BY <2>1, <2>2, <2>3 DEF VisitedShape, SearchAdvances
<1> QED BY <1>1, <1>2, <1>3, <1>4, <1>5 DEF Next

LEMMA PlannerGoesForward == PlanningInvariant /\ PlannerNext => PlannerAdvances
<1> SUFFICES ASSUME PlanningInvariant, PlannerNext PROVE PlannerAdvances
  OBVIOUS
<1>1. CASE ReadIssue
  BY <1>1 DEF ReadIssue, PlannerAdvances, Stage
<1>2. CASE OrderDone
  BY <1>2 DEF OrderDone, PlannerAdvances, Stage
<1>3. CASE PlanDone
  BY <1>3 DEF PlanDone, PlannerAdvances, Stage
<1>4. Len(tasks) \in Nat /\ Len(nodes) \in Nat /\ Len(tasks) =< Len(nodes)
  <2>1. /\ Len(tasks) \in Nat /\ DOMAIN tasks = 1 .. Len(tasks)
        /\ DOMAIN tasks \subseteq DOMAIN nodes
    BY NoMoreTasksThanNodes
  <2>2. Len(nodes) \in Nat /\ DOMAIN nodes = 1 .. Len(nodes)
    BY NodesAreNodes DEF PlanningInvariant, PlannerTypeOK
  <2> QED BY <2>1, <2>2
<1>5. CASE FindRunnable
  <2>1. CASE Unresolved
    BY <1>5, <2>1 DEF FindRunnable, PlannerAdvances, Stage
  <2>2. CASE ~Unresolved
    BY <1>4, <1>5, <2>2 DEF FindRunnable, Unresolved, PlannerAdvances
  <2> QED BY <2>1, <2>2
<1>6. CASE OrderNode
  <2>1. PICK n \in runnable : pending' = pending \ {n}
    BY <1>6 DEF OrderNode
  <2>2. n \in pending
    BY DEF PlanningInvariant, PlannerTypeOK
  <2>3. outcome' = outcome /\ tasks' = tasks
    BY <1>6 DEF OrderNode
  <2> QED BY <1>4, <2>1, <2>2, <2>3 DEF PlannerAdvances
<1>7. CASE BuildTask
  <2>1. /\ outcome' = outcome /\ pending' = pending /\ runnable' = runnable /\ nodes' = nodes
        /\ tasks' = Append(tasks, TaskOf(nodes[NextNode]))
    BY <1>7 DEF BuildTask
  <2>2. Len(tasks') = Len(tasks) + 1
    BY <2>1 DEF PlanningInvariant, PlannerTypeOK
  <2>3. Len(tasks) < Len(ordered) /\ Len(ordered) \in Nat /\ Len(ordered) =< Len(nodes)
    BY <1>7, NoMoreTasksThanNodes DEF BuildTask
  <2>4. Len(tasks') =< Len(nodes)
    BY <1>4, <2>2, <2>3
  <2> QED BY <1>4, <2>1, <2>2, <2>4 DEF PlannerAdvances
<1> QED BY <1>1, <1>2, <1>3, <1>5, <1>6, <1>7 DEF PlannerNext

\* The rounds end also for a template with a cycle, and the search also for a plan
\* with one (runtime/graph_templates.py:32-42, domain/plan_validation.py:16-28).
THEOREM DeliveryComesToAnEnd == DeliverySpec => DeliveryEnds
<1> DEFINE Forward == \/ UNCHANGED vars /\ PlannerAdvances
                      \/ UNCHANGED plannerVars /\ phase = "awaited" /\ phase' = "ids"
                      \/ UNCHANGED plannerVars /\ SearchAdvances
<1>1. ASSUME DeliveryInvariant, DeliveryNext PROVE Forward
  <2>1. CASE PlannerNext /\ UNCHANGED vars
    <3>1. outcome # "elsewhere"
      BY <2>1 DEF PlannerNext, ReadIssue, FindRunnable, OrderNode, OrderDone, BuildTask, PlanDone
    <3> QED BY <1>1, <2>1, <3>1, PlannerGoesForward DEF DeliveryInvariant
  <2>2. CASE Deliver
    BY <2>2 DEF Deliver, plannerVars
  <2>3. CASE Next /\ UNCHANGED plannerVars
    <3>1. phase # "awaited"
      BY <2>3 DEF Next, CheckIds, VisitRoot, VisitDependency, LeaveTask, Accept
    <3> QED BY <1>1, <2>3, <3>1, SearchGoesForward DEF DeliveryInvariant
  <2> QED BY <1>1, <2>1, <2>2, <2>3 DEF DeliveryNext
<1>2. DeliveryInvariant /\ [DeliveryNext]_deliveryVars => [Forward]_deliveryVars
  BY <1>1
<1> QED BY <1>2, DeliveryInvariance, PTL DEF DeliverySpec, DeliveryEnds
=============================================================================
