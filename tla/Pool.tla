---------------------------------- MODULE Pool ----------------------------------
(***************************************************************************)
(* The connection pools of a process (storage/pool.py) and the stores that    *)
(* use them (storage/checkpoints.py, storage/artifacts.py).  The activity     *)
(* run_agent appends the checkpoints of a result through a store, and a      *)
(* worker runs several activities at once; but no agent returns checkpoints  *)
(* today.  So the overlapping calls below are what the stores are open to,   *)
(* and not yet what a worker does.  A pool is the number of its creation; 0  *)
(* is none.  What a query does in the database is left out.                 *)
(*                                                                         *)
(* As in Supervisor, an unused definition directly before another with the  *)
(* same parameters is a mutation of it.                                     *)
(***************************************************************************)
EXTENDS Naturals, FiniteSets

CONSTANTS
  Callers,
  Urls,
  NoUrl,
  Stores,
  StoreUrl,  \* database_url of a store
  MaxPools   \* bound: pools created

ASSUME PoolAssumption ==
  /\ StoreUrl \in [Stores -> Urls] /\ NoUrl \notin Urls /\ MaxPools \in Nat
  /\ IsFiniteSet(Callers)

VARIABLES
  cached,   \* _pools
  held,     \* _pool of each store
  made,     \* pools created so far
  served,   \* the database of each pool
  open,     \* pools that are open
  closing,  \* those that close_pools has still to close
  at,       \* where each caller is
  called,   \* the store it calls
  used,     \* the pool that its query runs on
  asked     \* history: the pools created when a caller last looked for one

vars == <<cached, held, made, served, open, closing, at, called, used, asked>>

Pools == 1 .. MaxPools

Init ==
  /\ cached = [u \in Urls |-> 0]
  /\ held = [s \in Stores |-> 0]
  /\ made = 0 /\ open = {} /\ closing = {}
  /\ served = [p \in Pools |-> NoUrl]
  /\ at = [c \in Callers |-> "idle"]
  /\ called \in [Callers -> Stores]
  /\ used = [c \in Callers |-> 0]
  /\ asked = [c \in Callers |-> 0]

-----------------------------------------------------------------------------
\* The store keeps the pool and runs its query on it.
Run(c, s, p) ==
  /\ held' = [held EXCEPT ![s] = p]
  /\ at' = [at EXCEPT ![c] = "running"]
  /\ used' = [used EXCEPT ![c] = p]

UrlKey(s) == StoreUrl[s]

\* The pool that the store has or, if it has none, the one that the cache has.
HeldOnly(s) == held[s]
Known(s) == IF held[s] # 0 THEN held[s] ELSE cached[UrlKey(s)]

\* _get_pool, up to its first await: a pool that it finds is used at once.
Call(c, s) ==
  /\ at[c] = "idle"
  /\ called' = [called EXCEPT ![c] = s]
  /\ asked' = [asked EXCEPT ![c] = made]
  /\ IF Known(s) # 0
     THEN Run(c, s, Known(s))
     ELSE at' = [at EXCEPT ![c] = "creating"] /\ UNCHANGED <<held, used>>
  /\ UNCHANGED <<cached, made, served, open, closing>>

\* A new pool of that database.
Opened(u) ==
  /\ made < MaxPools
  /\ made' = made + 1
  /\ served' = [served EXCEPT ![made + 1] = u]
  /\ open' = open \cup {made + 1}

Cached(u, p) == [cached EXCEPT ![u] = p]

\* It enters the pool without looking again.
Created(c) ==
  /\ at[c] = "creating"
  /\ LET s == called[c] IN
     /\ Opened(StoreUrl[s])
     /\ cached' = Cached(UrlKey(s), made + 1)
     /\ Run(c, s, made + 1)
  /\ UNCHANGED <<closing, called, asked>>

\* The connection goes back to its pool.
Released(c) == [used EXCEPT ![c] = 0]

\* The pool cannot be created; or the query has ended, perhaps with an error.
Ends(c) ==
  /\ at[c] \in {"creating", "running"}
  /\ at' = [at EXCEPT ![c] = "idle"]
  /\ used' = Released(c)
  /\ UNCHANGED <<cached, held, made, served, open, closing, called, asked>>

-----------------------------------------------------------------------------
\* set_pool: puts in a pool that its caller has opened, or takes one out.
SetPool(u) ==
  /\ \/ Opened(u) /\ cached' = Cached(u, made + 1)
     \/ cached' = Cached(u, 0) /\ UNCHANGED <<made, served, open>>
  /\ UNCHANGED <<held, closing, at, called, used, asked>>

ForgottenLater == cached
Forgotten == [u \in Urls |-> 0]

\* close_pools: forgets the pools, and then closes them, each when the queries that
\* run on it have ended.
ClosePools ==
  /\ closing = {}
  /\ closing' = {cached[u] : u \in Urls} \ {0}
  /\ cached' = Forgotten
  /\ UNCHANGED <<held, made, served, open, at, called, used, asked>>

Closed(p) ==
  /\ p \in closing /\ \A c \in Callers : used[c] # p
  /\ closing' = closing \ {p}
  /\ open' = open \ {p}
  /\ UNCHANGED <<cached, held, made, served, at, called, used, asked>>

Caller(c) == (\E s \in Stores : Call(c, s)) \/ Created(c) \/ Ends(c)

Next ==
  \/ \E c \in Callers : Caller(c)
  \/ \E u \in Urls : SetPool(u)
  \/ ClosePools
  \/ \E p \in Pools : Closed(p)

Spec == Init /\ [][Next]_vars

\* The processes of this repository neither put pools in nor close them.
WorkerSpec == Init /\ [][\E c \in Callers : Caller(c)]_vars

-----------------------------------------------------------------------------
\* Every variable keeps its type; a caller has a pool exactly while it runs a query.
TypeOK ==
  /\ cached \in [Urls -> 0 .. made]
  /\ held \in [Stores -> 0 .. made]
  /\ made \in 0 .. MaxPools
  /\ served \in [Pools -> Urls \cup {NoUrl}]
  /\ closing \subseteq open /\ open \subseteq 1 .. made
  /\ at \in [Callers -> {"idle", "creating", "running"}]
  /\ called \in [Callers -> Stores]
  /\ used \in [Callers -> 0 .. made]
  /\ \A c \in Callers : used[c] # 0 <=> at[c] = "running"
  /\ asked \in [Callers -> 0 .. made]

\* A process that uses several databases does not mix them up: what a store runs on
\* and what is cached serve the database asked for (storage/pool.py:15-17).
PoolsServeTheirUrl ==
  /\ \A s \in Stores : held[s] # 0 => served[held[s]] = StoreUrl[s]
  /\ \A u \in Urls : cached[u] # 0 => served[cached[u]] = u

\* The cache has no pool that is closing or closed.
CachedPoolsStayOpen == \A u \in Urls : cached[u] # 0 => cached[u] \in open \ closing

\* Whoever is given a pool that close_pools closes, or has closed, has it from its own
\* store, which kept it: get_pool hands out none, neither to a coroutine that asks while
\* close_pools waits nor to one that was waiting for a new pool (storage/pool.py:25-32
\* and 48-53; a store looks at its own pool first, storage/checkpoints.py:18-21).
Given(c) == used'[c] # 0 /\ used'[c] # used[c]
OnlyStoresKeepClosedPools ==
  [][\A c \in Callers :
       Given(c) /\ used'[c] \notin open' \ closing' => used'[c] = held[called'[c]]]_vars

\* A coroutine overwrites a pool that others may use, and that nothing closes any more,
\* only if that pool came into the cache while the coroutine was waiting for its own:
\* none is opened by a caller that could have found one (storage/pool.py:28-31).
OverwrittenOnlyByEarlierCallers ==
  \A c \in Callers : at[c] = "creating" =>
    LET p == cached[StoreUrl[called[c]]] IN p = 0 \/ p > asked[c]

\* In a worker coroutines that come together may each open a pool of a database
\* before there is one, but no more than there are coroutines, over any number of
\* calls: none is opened once there is one (storage/pool.py:25-32).
PoolsOf(u) == {p \in 1 .. made : served[p] = u}
PoolsPerUrlBounded == \A u \in Urls : Cardinality(PoolsOf(u)) =< Cardinality(Callers)

\* Why this holds: who opens a pool has asked for it before there was one.
Creating(u) == {c \in Callers : at[c] = "creating" /\ StoreUrl[called[c]] = u}
CreationShape ==
  \A u \in Urls :
    /\ cached[u] = 0 => PoolsOf(u) = {}
    /\ Cardinality(PoolsOf(u)) + Cardinality(Creating(u)) =< Cardinality(Callers)
=================================================================================
