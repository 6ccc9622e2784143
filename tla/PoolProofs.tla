-------------------------------- MODULE PoolProofs --------------------------------
(***************************************************************************)
(* Theorems about Pool: what its properties say holds for any callers,       *)
(* stores and databases, and any number of pools.  The invariants are        *)
(* inductive together: that the cache holds no closing pool keeps what is    *)
(* closed open until then, and that a pool is numbered by its creation keeps *)
(* a new one apart from all that are held, and from all that there were when *)
(* a coroutine asked.                                                       *)
(***************************************************************************)
EXTENDS Pool, FiniteSetTheorems, TLAPS

PoolInvariant ==
  TypeOK /\ PoolsServeTheirUrl /\ CachedPoolsStayOpen /\ OverwrittenOnlyByEarlierCallers

USE PoolAssumption DEF Pools

\* The invariant holds at the start: there are no pools.
LEMMA InitPool == Init => PoolInvariant
BY DEF Init, PoolInvariant, TypeOK, PoolsServeTheirUrl, CachedPoolsStayOpen,
       OverwrittenOnlyByEarlierCallers

\* What _get_pool hands to a store serves its database and exists.
LEMMA RunKeeps ==
  ASSUME TypeOK, PoolsServeTheirUrl, NEW c \in Callers, NEW s \in Stores,
         NEW p \in 1 .. made, served[p] = StoreUrl[s], Run(c, s, p)
  PROVE  /\ held' \in [Stores -> 0 .. made]
         /\ at' \in [Callers -> {"idle", "creating", "running"}]
         /\ used' \in [Callers -> 0 .. made]
         /\ \A d \in Callers : used'[d] # 0 <=> at'[d] = "running"
         /\ \A t \in Stores : held'[t] # 0 => served[held'[t]] = StoreUrl[t]
BY DEF Run, TypeOK, PoolsServeTheirUrl

LEMMA CallKeeps ==
  ASSUME PoolInvariant, NEW c \in Callers, NEW s \in Stores, Call(c, s)
  PROVE  PoolInvariant'
<1>1. /\ called' = [called EXCEPT ![c] = s] /\ called' \in [Callers -> Stores]
      /\ asked' = [asked EXCEPT ![c] = made] /\ asked' \in [Callers -> 0 .. made]
  BY DEF Call, PoolInvariant, TypeOK
<1>2. UNCHANGED <<cached, made, served, open, closing>>
  BY DEF Call
<1>3. CASE Known(s) # 0
  <2> DEFINE known == Known(s)
  <2>1. known \in 1 .. made /\ served[known] = StoreUrl[s]
    BY <1>3 DEF Known, PoolInvariant, TypeOK, PoolsServeTheirUrl, UrlKey
  <2>2. Run(c, s, known)
    BY <1>3 DEF Call
  <2> HIDE DEF known
  <2>3. /\ held' \in [Stores -> 0 .. made]
        /\ at' \in [Callers -> {"idle", "creating", "running"}]
        /\ used' \in [Callers -> 0 .. made]
        /\ \A d \in Callers : used'[d] # 0 <=> at'[d] = "running"
        /\ \A t \in Stores : held'[t] # 0 => served[held'[t]] = StoreUrl[t]
    BY <2>1, <2>2, RunKeeps DEF PoolInvariant
  <2>4. TypeOK' /\ PoolsServeTheirUrl' /\ CachedPoolsStayOpen'
    BY <2>3, <1>1, <1>2 DEF PoolInvariant, TypeOK, PoolsServeTheirUrl, CachedPoolsStayOpen
  <2>5. OverwrittenOnlyByEarlierCallers'
    <3> SUFFICES ASSUME NEW d \in Callers, at'[d] = "creating"
                 PROVE  LET p == cached'[StoreUrl[called'[d]]] IN p = 0 \/ p > asked'[d]
      BY DEF OverwrittenOnlyByEarlierCallers
    <3>1. d # c /\ at[d] = "creating"
      BY <2>2 DEF Run, PoolInvariant, TypeOK
    <3> QED BY <3>1, <1>1, <1>2 DEF PoolInvariant, TypeOK, OverwrittenOnlyByEarlierCallers
  <2> QED BY <2>4, <2>5 DEF PoolInvariant
<1>4. CASE Known(s) = 0
  <2>1. at' = [at EXCEPT ![c] = "creating"] /\ UNCHANGED <<held, used>> /\ at[c] = "idle"
    BY <1>4 DEF Call
  <2>2. cached[StoreUrl[s]] = 0
    BY <1>4 DEF Known, UrlKey, PoolInvariant, TypeOK
  <2>3. TypeOK' /\ PoolsServeTheirUrl' /\ CachedPoolsStayOpen'
    BY <2>1, <1>1, <1>2 DEF PoolInvariant, TypeOK, PoolsServeTheirUrl, CachedPoolsStayOpen
  <2>4. OverwrittenOnlyByEarlierCallers'
    <3> SUFFICES ASSUME NEW d \in Callers, at'[d] = "creating"
                 PROVE  LET p == cached'[StoreUrl[called'[d]]] IN p = 0 \/ p > asked'[d]
      BY DEF OverwrittenOnlyByEarlierCallers
    <3>1. CASE d = c
      BY <3>1, <2>2, <1>1, <1>2 DEF PoolInvariant, TypeOK
    <3>2. CASE d # c
      BY <3>2, <2>1, <1>1, <1>2 DEF PoolInvariant, TypeOK, OverwrittenOnlyByEarlierCallers
    <3> QED BY <3>1, <3>2
  <2> QED BY <2>3, <2>4 DEF PoolInvariant
<1> QED BY <1>3, <1>4

\* A new pool changes nothing about those that there are.
LEMMA OpenedKeeps ==
  ASSUME TypeOK, NEW u \in Urls, Opened(u)
  PROVE  /\ made' = made + 1 /\ made' \in 1 .. MaxPools
         /\ served' \in [Pools -> Urls \cup {NoUrl}]
         /\ served'[made'] = u
         /\ \A p \in 1 .. made : served'[p] = served[p]
         /\ open' = open \cup {made'} /\ open' \subseteq 1 .. made'
BY DEF Opened, TypeOK

LEMMA CachedKeeps ==
  ASSUME PoolInvariant, NEW u \in Urls, Opened(u), closing' = closing,
         cached' = Cached(u, made + 1)
  PROVE  /\ cached' \in [Urls -> 0 .. made']
         /\ \A v \in Urls : cached'[v] # 0 => served'[cached'[v]] = v
         /\ \A v \in Urls : cached'[v] # 0 => cached'[v] \in open' \ closing'
         /\ \A v \in Urls : cached'[v] = cached[v] \/ cached'[v] > made
<1>1. made' = made + 1 /\ served'[made'] = u /\ open' = open \cup {made'}
      /\ \A p \in 1 .. made : served'[p] = served[p]
  BY OpenedKeeps DEF PoolInvariant
<1>2. made \in Nat /\ closing \subseteq 1 .. made /\ cached \in [Urls -> 0 .. made]
  BY DEF PoolInvariant, TypeOK
<1>3. \A v \in Urls : cached'[v] = IF v = u THEN made' ELSE cached[v]
  BY <1>1, <1>2 DEF Cached
<1>4. cached' \in [Urls -> 0 .. made']
  BY <1>1, <1>2 DEF Cached
<1> QED
  BY <1>1, <1>2, <1>3, <1>4 DEF PoolInvariant, PoolsServeTheirUrl, CachedPoolsStayOpen

\* A pool that enters the cache while others wait for theirs is younger than their asking.
LEMMA LateOpenings ==
  ASSUME PoolInvariant, called' = called, asked' = asked,
         cached' \in [Urls -> 0 .. made'], made' \in Nat,
         \A d \in Callers : at'[d] = "creating" => at[d] = "creating",
         \A u \in Urls : cached'[u] = cached[u] \/ cached'[u] = 0 \/ cached'[u] > made
  PROVE  OverwrittenOnlyByEarlierCallers'
<1> SUFFICES ASSUME NEW d \in Callers, at'[d] = "creating"
             PROVE  LET p == cached'[StoreUrl[called'[d]]] IN p = 0 \/ p > asked'[d]
  BY DEF OverwrittenOnlyByEarlierCallers
<1> DEFINE u == StoreUrl[called[d]]
<1>1. u \in Urls /\ asked[d] \in 0 .. made /\ made \in Nat /\ cached'[u] \in Nat
  BY DEF PoolInvariant, TypeOK
<1>2. cached[u] = 0 \/ cached[u] > asked[d]
  BY DEF PoolInvariant, OverwrittenOnlyByEarlierCallers
<1>3. cached'[u] > made => cached'[u] > asked[d]
  <2>1. ASSUME cached'[u] > made PROVE cached'[u] > asked[d]
    BY <1>1, <2>1 DEF PoolInvariant, TypeOK
  <2> QED BY <2>1
<1> QED BY <1>1, <1>2, <1>3

LEMMA CreatedKeeps ==
  ASSUME PoolInvariant, NEW c \in Callers, Created(c)
  PROVE  PoolInvariant'
<1> DEFINE s == called[c]
<1>1. s \in Stores /\ StoreUrl[s] \in Urls /\ made \in Nat
  BY DEF PoolInvariant, TypeOK
<1>2. /\ Opened(StoreUrl[s]) /\ cached' = Cached(StoreUrl[s], made + 1)
      /\ Run(c, s, made + 1) /\ closing' = closing /\ called' = called /\ asked' = asked
  BY DEF Created, UrlKey
<1> HIDE DEF s
<1>3. /\ made' = made + 1 /\ made' \in 1 .. MaxPools
      /\ served' \in [Pools -> Urls \cup {NoUrl}]
      /\ served'[made'] = StoreUrl[s]
      /\ \A p \in 1 .. made : served'[p] = served[p]
      /\ open' = open \cup {made'} /\ open' \subseteq 1 .. made'
  BY <1>1, <1>2, OpenedKeeps DEF PoolInvariant
<1>4. /\ cached' \in [Urls -> 0 .. made']
      /\ \A v \in Urls : cached'[v] # 0 => served'[cached'[v]] = v
      /\ \A v \in Urls : cached'[v] # 0 => cached'[v] \in open' \ closing'
      /\ \A v \in Urls : cached'[v] = cached[v] \/ cached'[v] > made
  BY <1>1, <1>2, CachedKeeps
<1>5. /\ held' \in [Stores -> 0 .. made']
      /\ at' \in [Callers -> {"idle", "creating", "running"}]
      /\ used' \in [Callers -> 0 .. made']
      /\ \A d \in Callers : used'[d] # 0 <=> at'[d] = "running"
  BY <1>1, <1>2, <1>3 DEF Run, PoolInvariant, TypeOK
<1>6. \A t \in Stores : held'[t] # 0 => served'[held'[t]] = StoreUrl[t]
  <2> SUFFICES ASSUME NEW t \in Stores, held'[t] # 0
               PROVE  served'[held'[t]] = StoreUrl[t]
    OBVIOUS
  <2>1. CASE t = s
    BY <2>1, <1>1, <1>2, <1>3 DEF Run, PoolInvariant, TypeOK
  <2>2. CASE t # s
    <3>1. held'[t] = held[t] /\ held[t] \in 1 .. made
      BY <2>2, <1>1, <1>2 DEF Run, PoolInvariant, TypeOK
    <3> QED BY <3>1, <1>3 DEF PoolInvariant, PoolsServeTheirUrl
  <2> QED BY <2>1, <2>2
<1>7. /\ closing' \subseteq open' /\ called' \in [Callers -> Stores]
      /\ asked' \in [Callers -> 0 .. made']
  BY <1>2, <1>3 DEF PoolInvariant, TypeOK
<1>8. TypeOK'
  <2>1. made' \in 0 .. MaxPools
    BY <1>3
  <2> QED BY <2>1, <1>3, <1>4, <1>5, <1>7 DEF TypeOK
<1>9. PoolsServeTheirUrl'
  BY <1>4, <1>6 DEF PoolsServeTheirUrl
<1>10. CachedPoolsStayOpen'
  BY <1>4 DEF CachedPoolsStayOpen
<1>11. OverwrittenOnlyByEarlierCallers'
  <2>1. \A d \in Callers : at'[d] = "creating" => at[d] = "creating"
    BY <1>2 DEF Run, PoolInvariant, TypeOK
  <2>2. made' \in Nat
    BY <1>1, <1>3
  <2>3. called' = called /\ asked' = asked
    BY <1>2
  <2> QED BY <2>1, <2>2, <2>3, <1>4, LateOpenings
<1> QED BY <1>8, <1>9, <1>10, <1>11 DEF PoolInvariant

LEMMA EndsKeeps ==
  ASSUME PoolInvariant, NEW c \in Callers, Ends(c)
  PROVE  PoolInvariant'
<1>1. TypeOK' /\ PoolsServeTheirUrl' /\ CachedPoolsStayOpen'
  BY DEF Ends, Released, PoolInvariant, TypeOK, PoolsServeTheirUrl, CachedPoolsStayOpen
<1>2. OverwrittenOnlyByEarlierCallers'
  BY DEF Ends, PoolInvariant, TypeOK, OverwrittenOnlyByEarlierCallers
<1> QED BY <1>1, <1>2 DEF PoolInvariant

LEMMA SetPoolKeeps ==
  ASSUME PoolInvariant, NEW u \in Urls, SetPool(u)
  PROVE  PoolInvariant'
<1>1. CASE Opened(u) /\ cached' = Cached(u, made + 1)
  <2>1. UNCHANGED <<held, closing, at, called, used, asked>>
    BY DEF SetPool
  <2>2. /\ made' = made + 1 /\ made' \in 1 .. MaxPools /\ made \in Nat
        /\ served' \in [Pools -> Urls \cup {NoUrl}]
        /\ \A p \in 1 .. made : served'[p] = served[p]
        /\ open' = open \cup {made'} /\ open' \subseteq 1 .. made'
    BY <1>1, OpenedKeeps DEF PoolInvariant, TypeOK
  <2>3. /\ cached' \in [Urls -> 0 .. made']
        /\ \A v \in Urls : cached'[v] # 0 => served'[cached'[v]] = v
        /\ \A v \in Urls : cached'[v] # 0 => cached'[v] \in open' \ closing'
        /\ \A v \in Urls : cached'[v] = cached[v] \/ cached'[v] > made
    BY <1>1, <2>1, CachedKeeps
  <2>4. TypeOK' /\ PoolsServeTheirUrl' /\ CachedPoolsStayOpen'
    BY <2>1, <2>2, <2>3
    DEF PoolInvariant, TypeOK, PoolsServeTheirUrl, CachedPoolsStayOpen
  <2> QED BY <2>1, <2>2, <2>3, <2>4, LateOpenings DEF PoolInvariant
<1>2. CASE cached' = Cached(u, 0) /\ UNCHANGED <<made, served, open>>
  <2>1. TypeOK' /\ PoolsServeTheirUrl' /\ CachedPoolsStayOpen'
    BY <1>2 DEF SetPool, Cached, PoolInvariant, TypeOK, PoolsServeTheirUrl, CachedPoolsStayOpen
  <2>2. \A v \in Urls : cached'[v] = cached[v] \/ cached'[v] = 0
    BY <1>2 DEF Cached, PoolInvariant, TypeOK
  <2>3. UNCHANGED <<at, called, asked, made>>
    BY <1>2 DEF SetPool
  <2> QED BY <2>1, <2>2, <2>3 DEF PoolInvariant, TypeOK, OverwrittenOnlyByEarlierCallers
<1> QED BY <1>1, <1>2 DEF SetPool

LEMMA ClosePoolsKeeps ==
  ASSUME PoolInvariant, ClosePools
  PROVE  PoolInvariant'
BY DEF ClosePools, Forgotten, PoolInvariant, TypeOK, PoolsServeTheirUrl, CachedPoolsStayOpen,
       OverwrittenOnlyByEarlierCallers

LEMMA ClosedKeeps ==
  ASSUME PoolInvariant, NEW p \in Pools, Closed(p)
  PROVE  PoolInvariant'
BY DEF Closed, PoolInvariant, TypeOK, PoolsServeTheirUrl, CachedPoolsStayOpen,
       OverwrittenOnlyByEarlierCallers

LEMMA CallerKeeps ==
  ASSUME PoolInvariant, NEW c \in Callers, Caller(c)
  PROVE  PoolInvariant'
BY CallKeeps, CreatedKeeps, EndsKeeps DEF Caller

LEMMA StutterKeeps == PoolInvariant /\ UNCHANGED vars => PoolInvariant'
BY DEF vars, PoolInvariant, TypeOK, PoolsServeTheirUrl, CachedPoolsStayOpen,
       OverwrittenOnlyByEarlierCallers

\* Types, databases and open pools are inductive together (storage/pool.py:25-53).
THEOREM PoolInvariance == Spec => []PoolInvariant
<1>1. PoolInvariant /\ [Next]_vars => PoolInvariant'
  BY CallerKeeps, SetPoolKeeps, ClosePoolsKeeps, ClosedKeeps, StutterKeeps DEF Next
<1> QED BY <1>1, InitPool, PTL DEF Spec

\* The variables of the pools keep their types.
THEOREM TypeCorrect == Spec => []TypeOK
BY PoolInvariance, PTL DEF PoolInvariant

\* No store runs on a pool of another database, however its calls overlap with those
\* of others and with pools put in and closed (storage/pool.py:15-32).
THEOREM DatabasesKeptApart == Spec => []PoolsServeTheirUrl
BY PoolInvariance, PTL DEF PoolInvariant

\* Nobody is given a closing or closed pool but by a store that kept it: what the
\* cache has is open, and what a caller opens itself is new (storage/pool.py:25-53).
THEOREM NoClosingPool == Spec => OnlyStoresKeepClosedPools
<1>1. PoolInvariant /\ [Next]_vars
        => [\A c \in Callers :
              Given(c) /\ used'[c] \notin open' \ closing' => used'[c] = held[called'[c]]]_vars
  <2> SUFFICES ASSUME PoolInvariant, [Next]_vars, NEW c \in Callers, Given(c),
                      used'[c] \notin open' \ closing'
               PROVE  used'[c] = held[called'[c]]
    OBVIOUS
  <2>1. ASSUME NEW d \in Callers, NEW s \in Stores, Call(d, s)
        PROVE  used'[c] = held[called'[c]]
    <3>1. used' = [used EXCEPT ![d] = Known(s)] /\ called' = [called EXCEPT ![d] = s]
          /\ open' = open /\ closing' = closing
      BY <2>1 DEF Call, Run, Given
    <3>2. d = c /\ used'[c] = Known(s) /\ Known(s) # 0 /\ called'[c] = s
      BY <3>1 DEF Given, PoolInvariant, TypeOK
    <3>3. CASE held[s] # 0
      BY <3>2, <3>3 DEF Known
    <3>4. CASE held[s] = 0
      <4>1. StoreUrl[s] \in Urls /\ cached[StoreUrl[s]] # 0 /\ used'[c] = cached[StoreUrl[s]]
        BY <3>2, <3>4 DEF Known, UrlKey
      <4> QED BY <4>1, <3>1 DEF PoolInvariant, CachedPoolsStayOpen
    <3> QED BY <3>3, <3>4
  <2>2. ASSUME NEW d \in Callers, Created(d)
        PROVE  used'[c] = held[called'[c]]
    <3>1. used' = [used EXCEPT ![d] = made + 1] /\ open' = open \cup {made + 1} /\ closing' = closing
      BY <2>2 DEF Created, Opened, Run
    <3>2. used'[c] = made + 1
      BY <3>1 DEF Given, PoolInvariant, TypeOK
    <3>3. made + 1 \notin closing
      BY DEF PoolInvariant, TypeOK
    <3> QED BY <3>1, <3>2, <3>3
  <2>3. ASSUME NEW d \in Callers, Ends(d)
        PROVE  used'[c] = held[called'[c]]
    BY <2>3 DEF Ends, Released, Given, PoolInvariant, TypeOK
  <2>4. CASE UNCHANGED used
    BY <2>4 DEF Given
  <2> QED
    BY <2>1, <2>2, <2>3, <2>4 DEF Next, Caller, SetPool, ClosePools, Closed, vars
<1> QED BY <1>1, PoolInvariance, PTL DEF Spec, OnlyStoresKeepClosedPools

\* A pool is overwritten by a coroutine only if the coroutine had asked before that pool
\* was there, however calls, injected pools and shutdowns overlap (storage/pool.py:28-31).
THEOREM LateStoresHadAsked == Spec => []OverwrittenOnlyByEarlierCallers
BY PoolInvariance, PTL DEF PoolInvariant

-----------------------------------------------------------------------------
(* How many pools a worker opens. *)

LEMMA SmallSets ==
  ASSUME NEW S \in SUBSET Callers
  PROVE  IsFiniteSet(S) /\ Cardinality(S) \in Nat /\ Cardinality(S) =< Cardinality(Callers)
         /\ Cardinality(Callers) \in Nat
BY FS_Subset, FS_CardinalityType

LEMMA PoolsAreFinite ==
  ASSUME made \in Nat, NEW u
  PROVE  IsFiniteSet(PoolsOf(u)) /\ Cardinality(PoolsOf(u)) \in Nat
<1>1. IsFiniteSet(1 .. made)
  <2>1. \A n \in Nat : IsFiniteSet(1 .. n) BY FS_Interval
  <2> QED BY <2>1
<1>2. PoolsOf(u) \subseteq 1 .. made
  BY DEF PoolsOf
<1> QED BY <1>1, <1>2, FS_Subset, FS_CardinalityType

\* With the pools as they were, fewer coroutines that create one do no harm.
LEMMA FewerCreating ==
  ASSUME NEW P, Cardinality(P) \in Nat, NEW A \in SUBSET Callers, NEW B \in SUBSET Callers,
         Cardinality(P) + Cardinality(A) =< Cardinality(Callers),
         B \subseteq A \/ P = {}
  PROVE  Cardinality(P) + Cardinality(B) =< Cardinality(Callers)
<1>1. /\ Cardinality(A) \in Nat /\ Cardinality(B) \in Nat /\ IsFiniteSet(A)
      /\ Cardinality(B) =< Cardinality(Callers) /\ Cardinality(Callers) \in Nat
  BY SmallSets
<1>2. CASE B \subseteq A
  <2>1. Cardinality(B) =< Cardinality(A)
    BY <1>1, <1>2, FS_Subset
  <2> QED BY <1>1, <2>1
<1>3. CASE P = {}
  <2>1. Cardinality(P) = 0
    BY <1>3, FS_EmptySet
  <2> QED BY <1>1, <2>1
<1> QED BY <1>2, <1>3

LEMMA ShapeStays ==
  ASSUME PoolInvariant, CreationShape, NEW u \in Urls,
         made' = made, served' = served, cached' = cached,
         Creating(u)' \subseteq Creating(u) \/ cached[u] = 0
  PROVE  /\ cached'[u] = 0 => PoolsOf(u)' = {}
         /\ Cardinality(PoolsOf(u)') + Cardinality(Creating(u)') =< Cardinality(Callers)
<1>1. PoolsOf(u)' = PoolsOf(u)
  BY DEF PoolsOf
<1>2. Cardinality(PoolsOf(u)) \in Nat
  BY PoolsAreFinite DEF PoolInvariant, TypeOK
<1>3. Creating(u) \in SUBSET Callers /\ Creating(u)' \in SUBSET Callers
  BY DEF Creating
<1>4. /\ cached[u] = 0 => PoolsOf(u) = {}
      /\ Cardinality(PoolsOf(u)) + Cardinality(Creating(u)) =< Cardinality(Callers)
  BY DEF CreationShape
<1>5. Cardinality(PoolsOf(u)) + Cardinality(Creating(u)') =< Cardinality(Callers)
  BY <1>2, <1>3, <1>4, FewerCreating
<1> QED BY <1>1, <1>4, <1>5

LEMMA CallShapeKeeps ==
  ASSUME PoolInvariant, CreationShape, NEW c \in Callers, NEW s \in Stores, Call(c, s)
  PROVE  CreationShape'
<1>1. /\ at[c] = "idle" /\ called' = [called EXCEPT ![c] = s]
      /\ UNCHANGED <<cached, made, served>>
      /\ at \in [Callers -> {"idle", "creating", "running"}] /\ called \in [Callers -> Stores]
  BY DEF Call, PoolInvariant, TypeOK
<1>2. \/ at' = [at EXCEPT ![c] = "running"]
      \/ at' = [at EXCEPT ![c] = "creating"] /\ cached[StoreUrl[s]] = 0
  BY DEF Call, Run, Known, UrlKey
<1>3. ASSUME NEW u \in Urls, cached[u] # 0
      PROVE  Creating(u)' \subseteq Creating(u)
  <2>1. ASSUME NEW d \in Creating(u)' PROVE d \in Creating(u)
    <3>1. d \in Callers /\ at'[d] = "creating" /\ StoreUrl[called'[d]] = u
      BY <2>1 DEF Creating
    <3>2. d # c
      BY <1>1, <1>2, <1>3, <3>1
    <3> QED BY <1>1, <1>2, <3>1, <3>2 DEF Creating
  <2> QED BY <2>1
<1>4. ASSUME NEW u \in Urls
      PROVE  /\ cached'[u] = 0 => PoolsOf(u)' = {}
             /\ Cardinality(PoolsOf(u)') + Cardinality(Creating(u)') =< Cardinality(Callers)
  <2>1. Creating(u)' \subseteq Creating(u) \/ cached[u] = 0
    BY <1>3
  <2>2. made' = made /\ served' = served /\ cached' = cached
    BY <1>1
  <2> QED BY <2>1, <2>2, ShapeStays
<1> QED BY <1>4 DEF CreationShape

LEMMA EndsShapeKeeps ==
  ASSUME PoolInvariant, CreationShape, NEW c \in Callers, Ends(c)
  PROVE  CreationShape'
<1>1. /\ at' = [at EXCEPT ![c] = "idle"] /\ UNCHANGED <<cached, made, served, called>>
      /\ at \in [Callers -> {"idle", "creating", "running"}]
  BY DEF Ends, PoolInvariant, TypeOK
<1>2. ASSUME NEW u \in Urls
      PROVE  Creating(u)' \subseteq Creating(u)
  BY <1>1 DEF Creating
<1>3. ASSUME NEW u \in Urls
      PROVE  /\ cached'[u] = 0 => PoolsOf(u)' = {}
             /\ Cardinality(PoolsOf(u)') + Cardinality(Creating(u)') =< Cardinality(Callers)
  BY <1>1, <1>2, ShapeStays
<1> QED BY <1>3 DEF CreationShape

\* The coroutine that opens a pool is one less that creates one.
LEMMA CreatedShapeKeeps ==
  ASSUME PoolInvariant, CreationShape, NEW c \in Callers, Created(c)
  PROVE  CreationShape'
<1> PICK u : u = StoreUrl[called[c]]
  OBVIOUS
<1>1. /\ at[c] = "creating" /\ called' = called /\ made' = made + 1
      /\ made < MaxPools /\ served' = [served EXCEPT ![made + 1] = u]
      /\ cached' = [cached EXCEPT ![u] = made + 1]
      /\ at' = [at EXCEPT ![c] = "running"]
  BY DEF Created, Opened, Cached, UrlKey, Run
<1>2. /\ at \in [Callers -> {"idle", "creating", "running"}] /\ called \in [Callers -> Stores]
      /\ u \in Urls /\ made \in Nat /\ cached \in [Urls -> 0 .. made]
      /\ served \in [1 .. MaxPools -> Urls \cup {NoUrl}]
  BY DEF PoolInvariant, TypeOK
<1>3. made + 1 \in 1 .. MaxPools
  BY <1>1, <1>2
<1>4. /\ served'[made + 1] = u
      /\ \A p \in 1 .. made : served'[p] = served[p]
  BY <1>1, <1>2, <1>3
<1>5. 1 .. made + 1 = (1 .. made) \cup {made + 1} /\ made + 1 \notin 1 .. made
  <2>1. \A n \in Nat : 1 .. n + 1 = (1 .. n) \cup {n + 1} /\ n + 1 \notin 1 .. n
    OBVIOUS
  <2> QED BY <1>2, <2>1
<1>6. PoolsOf(u)' = PoolsOf(u) \cup {made + 1} /\ made + 1 \notin PoolsOf(u)
  BY <1>1, <1>4, <1>5 DEF PoolsOf
<1>7. c \in Creating(u) /\ Creating(u)' = Creating(u) \ {c} /\ Creating(u) \subseteq Callers
  BY <1>1, <1>2 DEF Creating
<1>8. /\ IsFiniteSet(PoolsOf(u)) /\ Cardinality(PoolsOf(u)) \in Nat
      /\ IsFiniteSet(Creating(u)) /\ Cardinality(Creating(u)) \in Nat
      /\ Cardinality(Callers) \in Nat
  BY <1>2, <1>7, PoolsAreFinite, SmallSets
<1>9. /\ Cardinality(PoolsOf(u)') = Cardinality(PoolsOf(u)) + 1
      /\ Cardinality(Creating(u)') = Cardinality(Creating(u)) - 1
  <2>1. Cardinality(PoolsOf(u) \cup {made + 1}) = Cardinality(PoolsOf(u)) + 1
    BY <1>6, <1>8, FS_AddElement
  <2>2. Cardinality(Creating(u) \ {c}) = Cardinality(Creating(u)) - 1
    BY <1>7, <1>8, FS_RemoveElement
  <2> QED BY <1>6, <1>7, <2>1, <2>2
<1>10. Cardinality(PoolsOf(u)) + Cardinality(Creating(u)) =< Cardinality(Callers)
  BY <1>2 DEF CreationShape
<1>11. cached'[u] # 0
  BY <1>1, <1>2
<1>12. Cardinality(PoolsOf(u)') + Cardinality(Creating(u)') =< Cardinality(Callers)
  BY <1>8, <1>9, <1>10
<1>13. ASSUME NEW v \in Urls, v # u
      PROVE  /\ cached'[v] = 0 => PoolsOf(v)' = {}
             /\ Cardinality(PoolsOf(v)') + Cardinality(Creating(v)') =< Cardinality(Callers)
  <2>1. PoolsOf(v)' = PoolsOf(v)
    BY <1>1, <1>4, <1>5, <1>13 DEF PoolsOf
  <2>2. /\ Creating(v)' \in SUBSET Callers /\ Creating(v) \in SUBSET Callers
        /\ Creating(v)' \subseteq Creating(v)
    BY <1>1, <1>2 DEF Creating
  <2>3. /\ cached[v] = 0 => PoolsOf(v) = {}
        /\ Cardinality(PoolsOf(v)) + Cardinality(Creating(v)) =< Cardinality(Callers)
    BY DEF CreationShape
  <2>4. Cardinality(PoolsOf(v)) \in Nat
    BY <1>2, PoolsAreFinite
  <2>5. Cardinality(PoolsOf(v)) + Cardinality(Creating(v)') =< Cardinality(Callers)
    BY <2>2, <2>3, <2>4, FewerCreating
  <2>6. cached'[v] = cached[v]
    BY <1>1, <1>2, <1>13
  <2> QED BY <2>1, <2>3, <2>5, <2>6
<1>14. ASSUME NEW v \in Urls
      PROVE  /\ cached'[v] = 0 => PoolsOf(v)' = {}
             /\ Cardinality(PoolsOf(v)') + Cardinality(Creating(v)') =< Cardinality(Callers)
  <2>1. CASE v = u BY <1>11, <1>12, <2>1
  <2>2. CASE v # u BY <1>13, <2>2
  <2> QED BY <2>1, <2>2
<1> QED BY <1>14 DEF CreationShape

\* A worker opens no more pools of a database than it has coroutines, over any number
\* of calls (storage/pool.py:25-32).
THEOREM FewPools == WorkerSpec => []PoolsPerUrlBounded
<1>1. Init => CreationShape
  <2> SUFFICES ASSUME Init PROVE CreationShape
    OBVIOUS
  <2>1. ASSUME NEW u \in Urls
        PROVE  PoolsOf(u) = {} /\ Creating(u) = {}
    BY DEF Init, PoolsOf, Creating
  <2>2. Cardinality({}) = 0 /\ Cardinality(Callers) \in Nat
    BY FS_EmptySet, SmallSets
  <2> QED BY <2>1, <2>2 DEF CreationShape
<1>2. PoolInvariant /\ CreationShape /\ [\E c \in Callers : Caller(c)]_vars
        => PoolInvariant' /\ CreationShape'
  <2>1. ASSUME CreationShape, UNCHANGED vars
        PROVE  CreationShape'
    <3>1. UNCHANGED <<cached, made, served, at, called>>
      BY <2>1 DEF vars
    <3>2. \A u \in Urls : PoolsOf(u)' = PoolsOf(u) /\ Creating(u)' = Creating(u)
      BY <3>1 DEF PoolsOf, Creating
    <3> QED BY <2>1, <3>1, <3>2 DEF CreationShape
  <2> QED
    BY <2>1, CallerKeeps, StutterKeeps, CallShapeKeeps, CreatedShapeKeeps, EndsShapeKeeps DEF Caller
<1>3. PoolInvariant /\ CreationShape => PoolsPerUrlBounded
  <2> SUFFICES ASSUME PoolInvariant, CreationShape, NEW u \in Urls
               PROVE  Cardinality(PoolsOf(u)) =< Cardinality(Callers)
    BY DEF PoolsPerUrlBounded
  <2>1. Cardinality(PoolsOf(u)) \in Nat
    BY PoolsAreFinite DEF PoolInvariant, TypeOK
  <2>2. Cardinality(Creating(u)) \in Nat /\ Cardinality(Callers) \in Nat
    BY SmallSets DEF Creating
  <2>3. Cardinality(PoolsOf(u)) + Cardinality(Creating(u)) =< Cardinality(Callers)
    BY DEF CreationShape
  <2> QED BY <2>1, <2>2, <2>3
<1> QED BY <1>1, <1>2, <1>3, InitPool, PTL DEF WorkerSpec
=================================================================================
