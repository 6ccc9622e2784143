---------------------------- MODULE MigrationsProofs ----------------------------
(***************************************************************************)
(* Proofs about Migrations, for any runners and any releases.  The ledger   *)
(* stays a first part of the files because a runner's pending files are a    *)
(* last part of its release, and all that come before them are noted.       *)
(***************************************************************************)
EXTENDS Migrations, TLAPS

LEMMA FilesAreNumbers == Files \subseteq Nat
BY MigrationsAssumption DEF Files, LoadMigrations

LEMMA BoundsAreNumbers == Bounds \subseteq Nat /\ \A r \in Runners : Release[r] \in Bounds
BY MigrationsAssumption DEF Bounds, Files, LoadMigrations

\* The next file of a runner is the first it has not applied yet, and the rest stay
\* a last part of its release.
LEMMA NextIsFirst ==
  ASSUME NEW r \in Runners, NEW n \in Nat, pending[r] = n + 1 .. Release[r], HasMore(r)
  PROVE  /\ NextMigration(r) = n + 1
         /\ n + 1 \in pending[r]
         /\ pending[r] \ {n + 1} = (n + 1) + 1 .. Release[r]
<1>0. Release[r] \in Nat
  BY MigrationsAssumption
<1>1. n + 1 \in pending[r] /\ \A g \in pending[r] : n + 1 <= g
  BY <1>0 DEF HasMore
<1>2. ASSUME NEW f \in pending[r], \A g \in pending[r] : f <= g PROVE f = n + 1
  BY <1>0, <1>1, <1>2
<1>3. NextMigration(r) = n + 1
  BY <1>1, <1>2 DEF NextMigration
<1>4. pending[r] \ {n + 1} = (n + 1) + 1 .. Release[r]
  BY <1>0
<1>5. QED
  BY <1>1, <1>3, <1>4

LEMMA InvariantInit == Init => MigrationsInvariant
<1> SUFFICES ASSUME Init PROVE MigrationsInvariant
  OBVIOUS
<1>1. TypeOK
  BY DEF Init, TypeOK
<1>2. Progress
  <2>1. ledger = 1 .. 0
    BY DEF Init
  <2>2. ASSUME NEW r \in Runners PROVE pending[r] = Release[r] + 1 .. Release[r]
    BY MigrationsAssumption DEF Init
  <2>3. QED
    BY <2>1, <2>2, BoundsAreNumbers DEF Init, Progress, Bounds, Working
<1>3. LedgerIsTruthful
  BY DEF Init, LedgerIsTruthful
<1>4. Overlap /\ AppliedAgainOnlyTogether
  BY DEF Init, Overlap, AppliedAgainOnlyTogether, Working
<1>5. QED
  BY <1>1, <1>2, <1>3, <1>4 DEF MigrationsInvariant

\* Steps that leave the ledger and the schema alone.
LEMMA QuietStep ==
  ASSUME MigrationsInvariant, UNCHANGED <<ledger, runs>>, NEW r \in Runners,
         Connect(r) \/ FetchLedger(r) \/ ExecuteSql(r) \/ InsertRow(r) \/ Return(r) \/ Fail(r)
  PROVE  MigrationsInvariant'
<1> USE DEF MigrationsInvariant
<1>1. TypeOK'
  <2>1. PendingMigrations(r) \subseteq Files
    BY DEF PendingMigrations, LoadMigrations, Files
  <2>2. together' \subseteq SUBSET Runners
    BY DEF TypeOK, Connect, FetchLedger, ExecuteSql, InsertRow, Return, Fail
  <2>3. pending' \in [Runners -> SUBSET Files] /\ reported' \in [Runners -> SUBSET Files]
    BY <2>1 DEF TypeOK, Connect, FetchLedger, ExecuteSql, InsertRow, Return, Fail
  <2>4. at' \in [Runners -> {"idle", "connected", "applying", "executed", "inserted", "done"}]
    BY DEF TypeOK, Connect, FetchLedger, ExecuteSql, InsertRow, Return, Fail, Raised
  <2>5. \A q \in Runners : at'[q] \in {"executed", "inserted"} => pending'[q] # {}
    <3>1. CASE ExecuteSql(r)
      BY <3>1 DEF ExecuteSql, HasMore, TypeOK
    <3>2. CASE ~ExecuteSql(r)
      BY <3>2 DEF TypeOK, Connect, FetchLedger, InsertRow, Return, Fail, Raised
    <3>3. QED
      BY <3>1, <3>2
  <2>6. QED
    BY <2>2, <2>3, <2>4, <2>5 DEF TypeOK
<1>2. LedgerIsTruthful'
  BY DEF LedgerIsTruthful
<1>3. Progress'
  <2>1. \E n \in Bounds : ledger' = 1 .. n
    BY DEF Progress
  <2>2. PICK m \in Bounds : ledger = 1 .. m
    BY DEF Progress
  <2>3. Release[r] \in Nat
    BY MigrationsAssumption
  <2>4. PendingMigrations(r) = m + 1 .. Release[r]
    BY <2>2, <2>3, BoundsAreNumbers DEF PendingMigrations, LoadMigrations
  <2>5. {} = Release[r] + 1 .. Release[r]
    BY <2>3
  <2>6. ASSUME NEW q \in Runners PROVE (\E n \in Bounds : pending[q] = n + 1 .. Release[q])'
    <3>1. CASE pending'[q] = pending[q]
      BY <3>1 DEF Progress
    <3>2. CASE q = r /\ pending'[r] = PendingMigrations(r)
      BY <2>4, <3>2
    <3>3. CASE q = r /\ pending'[r] = {}
      BY <2>5, <3>3, BoundsAreNumbers
    <3>4. QED
      BY <3>1, <3>2, <3>3 DEF TypeOK, Connect, FetchLedger, ExecuteSql, InsertRow, Return, Fail
  <2>7. ASSUME NEW q \in Runners PROVE (at[q] \in Working => LoadMigrations(q) \ pending[q] \subseteq ledger)'
    <3>1. /\ LoadMigrations(q) \ PendingMigrations(q) \subseteq ledger
          /\ at[q] \in Working => LoadMigrations(q) \ pending[q] \subseteq ledger
      BY DEF PendingMigrations, Progress
    <3>2. CASE FetchLedger(r)
      BY <3>1, <3>2 DEF FetchLedger, TypeOK, LoadMigrations
    <3>3. CASE ~FetchLedger(r)
      <4>1. at'[q] \in Working => at[q] \in Working /\ pending'[q] = pending[q]
        BY <3>3 DEF TypeOK, Working, Raised, Connect, ExecuteSql, InsertRow, Return, Fail
      <4>2. QED
        BY <3>1, <4>1 DEF LoadMigrations
    <3>4. QED
      BY <3>2, <3>3
  <2>8. ASSUME NEW q \in Runners PROVE (at[q] = "done" => LoadMigrations(q) \subseteq ledger)'
    BY DEF Progress, TypeOK, LoadMigrations, HasMore, Working,
           Connect, FetchLedger, ExecuteSql, InsertRow, Return, Fail, Raised
  <2>9. ASSUME NEW q \in Runners PROVE (reported[q] \subseteq ledger)'
    BY DEF Progress, TypeOK, Connect, FetchLedger, ExecuteSql, InsertRow, Return, Fail
  <2>10. QED
    BY <2>1, <2>6, <2>7, <2>8, <2>9 DEF Progress, Working
<1>4. together \subseteq together' /\ AppliedAgainOnlyTogether'
  <2>1. together \subseteq together'
    BY DEF Connect, FetchLedger, ExecuteSql, InsertRow, Return, Fail
  <2>2. QED
    BY <2>1 DEF AppliedAgainOnlyTogether
<1>5. Overlap'
  <2>1. ASSUME NEW q \in Runners PROVE (at[q] \notin Working => pending[q] = {})'
    BY DEF Overlap, TypeOK, Working, HasMore, Raised,
           Connect, FetchLedger, ExecuteSql, InsertRow, Return, Fail
  <2>2. ASSUME NEW q \in Runners, NEW p \in Runners \ {q}, (at[q] \in Working /\ at[p] \in Working)'
        PROVE  {q, p} \in together'
    <3>1. CASE at[q] \in Working /\ at[p] \in Working
      BY <2>2, <3>1, <1>4 DEF Overlap
    <3>2. CASE FetchLedger(r)
      <4>1. \A x \in Runners : at'[x] = IF x = r THEN "applying" ELSE at[x]
        BY <3>2 DEF FetchLedger, TypeOK
      <4>2. \A x \in Runners : at[x] \in Working => {r, x} \in together'
        BY <3>2 DEF FetchLedger
      <4>3. CASE q = r
        BY <2>2, <4>1, <4>2, <4>3
      <4>4. CASE p = r
        <5>1. at[q] \in Working /\ {r, q} = {q, p}
          BY <2>2, <4>1, <4>4
        <5>2. QED
          BY <5>1, <4>2
      <4>5. QED
        BY <2>2, <3>1, <4>1, <4>3, <4>4
    <3>3. CASE ~FetchLedger(r)
      <4>1. \A x \in Runners : at'[x] \in Working => at[x] \in Working
        BY <3>3 DEF TypeOK, Working, Raised, Connect, ExecuteSql, InsertRow, Return, Fail
      <4>2. QED
        BY <2>2, <3>1, <4>1
    <3>4. QED
      BY <3>2, <3>3
  <2>3. ASSUME NEW q \in Runners, NEW f \in pending'[q], NEW p \in Runners, runs'[p][f] > 0
        PROVE  p # q /\ {q, p} \in together'
    <3>1. CASE f \in pending[q]
      BY <2>3, <3>1, <1>4 DEF Overlap
    <3>2. CASE f \notin pending[q]
      <4>1. f \in PendingMigrations(q)
        BY <2>3, <3>2 DEF TypeOK, Connect, FetchLedger, ExecuteSql, InsertRow, Return, Fail
      <4>2. f \in Files /\ f \notin ledger
        BY <4>1 DEF PendingMigrations, LoadMigrations, Files
      <4>3. QED
        BY <2>3, <4>2 DEF LedgerIsTruthful
    <3>3. QED
      BY <3>1, <3>2
  <2>4. QED
    BY <2>1, <2>2, <2>3 DEF Overlap
<1>6. QED
  BY <1>1, <1>2, <1>3, <1>4, <1>5

LEMMA CommitStep ==
  ASSUME MigrationsInvariant, NEW r \in Runners, Commit(r)
  PROVE  MigrationsInvariant'
<1> USE DEF MigrationsInvariant
<1> DEFINE f == NextMigration(r)
<1>1. HasMore(r)
  BY DEF Commit, TypeOK, HasMore
<1>2. PICK n \in Bounds : pending[r] = n + 1 .. Release[r]
  BY DEF Progress
<1>3. f = n + 1 /\ f \in pending[r] /\ pending[r] \ {f} = f + 1 .. Release[r]
  BY <1>1, <1>2, NextIsFirst, BoundsAreNumbers
<1>4. f \in Files /\ f \in Nat
  BY <1>3, FilesAreNumbers DEF TypeOK
<1>5. /\ ledger' = ledger \cup {f}
      /\ runs' = [runs EXCEPT ![r][f] = @ + 1]
      /\ together' = together
      /\ pending' = [pending EXCEPT ![r] = @ \ {f}]
      /\ reported' = [reported EXCEPT ![r] = @ \cup {f}]
      /\ at' = [at EXCEPT ![r] = "applying"]
      /\ at[r] = "inserted"
  BY DEF Commit
<1> HIDE DEF f
<1>0. \A q \in Runners, g \in Files :
        runs'[q][g] = IF q = r /\ g = f THEN runs[r][f] + 1 ELSE runs[q][g]
  BY <1>4, <1>5 DEF TypeOK
<1>6. TypeOK'
  <2>1. runs' \in [Runners -> [Files -> Nat]]
    BY <1>4, <1>5 DEF TypeOK
  <2>2. QED
    BY <1>4, <1>5, <2>1 DEF TypeOK
<1>7. LedgerIsTruthful'
  <2>1. runs'[r][f] > 0
    BY <1>0, <1>4 DEF TypeOK
  <2>2. ASSUME NEW g \in Files, g # f
        PROVE  (\E q \in Runners : runs'[q][g] > 0) <=> (\E q \in Runners : runs[q][g] > 0)
    BY <1>0, <2>2
  <2>3. QED
    BY <1>5, <2>1, <2>2 DEF LedgerIsTruthful
<1>10. Overlap'
  <2>1. ASSUME NEW q \in Runners
        PROVE  /\ pending'[q] = IF q = r THEN pending[q] \ {f} ELSE pending[q]
               /\ at'[q] \in Working <=> at[q] \in Working
    BY <1>5 DEF TypeOK, Working
  <2>2. ASSUME NEW q \in Runners, NEW g \in pending'[q], NEW p \in Runners, runs'[p][g] > 0
        PROVE  p # q /\ {q, p} \in together
    <3>1. g \in pending[q] /\ g \in Files
      BY <2>1, <2>2 DEF TypeOK
    <3>2. CASE p = r /\ g = f
      <4>1. q # r
        BY <2>1, <2>2, <3>2
      <4>3. at[q] \in Working /\ at[r] \in Working
        BY <1>5, <3>1 DEF Overlap, Working
      <4>2. QED
        BY <3>2, <4>1, <4>3 DEF Overlap
    <3>3. CASE ~(p = r /\ g = f)
      BY <1>0, <2>2, <3>1, <3>3 DEF Overlap
    <3>4. QED
      BY <3>2, <3>3
  <2>3. QED
    BY <1>5, <2>1, <2>2 DEF Overlap
<1>11. AppliedAgainOnlyTogether'
  <2>1. runs[r][f] = 0 /\ \A q \in Runners : runs[q][f] > 0 => q # r /\ {r, q} \in together
    <3>1. \A q \in Runners : runs[q][f] > 0 => q # r /\ {r, q} \in together
      BY <1>3 DEF Overlap
    <3>2. runs[r][f] \in Nat
      BY <1>4 DEF TypeOK
    <3>3. ~(runs[r][f] > 0)
      BY <3>1
    <3>4. runs[r][f] = 0
      BY <3>2, <3>3
    <3>5. QED
      BY <3>1, <3>4
  <2>2. ASSUME NEW g \in Files, NEW p \in Runners
        PROVE  runs'[p][g] <= 1
    BY <1>0, <2>1 DEF AppliedAgainOnlyTogether
  <2>3. ASSUME NEW g \in Files, NEW p \in Runners, NEW q \in Runners \ {p},
               runs'[p][g] > 0, runs'[q][g] > 0
        PROVE  {p, q} \in together
    <3>1. CASE g = f /\ p = r
      BY <1>0, <2>1, <2>3, <3>1
    <3>2. CASE g = f /\ q = r
      <4>1. {r, p} \in together /\ {r, p} = {p, q}
        BY <1>0, <2>1, <2>3, <3>2
      <4>2. QED
        BY <4>1
    <3>3. CASE g # f \/ (p # r /\ q # r)
      BY <1>0, <2>3, <3>3 DEF AppliedAgainOnlyTogether
    <3>4. QED
      BY <2>3, <3>1, <3>2, <3>3
  <2>4. QED
    BY <1>5, <2>2, <2>3 DEF AppliedAgainOnlyTogether
<1>8. Progress'
  <2>1. PICK m \in Bounds : ledger = 1 .. m
    BY DEF Progress
  <2>2. Release[r] \in Nat
    BY MigrationsAssumption
  <2>3. 1 .. n \subseteq ledger
    <3>1. LoadMigrations(r) \ pending[r] \subseteq ledger
      BY <1>5 DEF Progress, Working
    <3>2. n \in Nat /\ n + 1 <= Release[r]
      BY <1>2, <1>3, <2>2, BoundsAreNumbers
    <3>3. 1 .. n \subseteq LoadMigrations(r) \ pending[r]
      BY <1>2, <2>2, <3>2 DEF LoadMigrations
    <3>4. QED
      BY <3>1, <3>3
  <2>4. n <= m
    BY <2>1, <2>3, BoundsAreNumbers
  <2>5. ledger' = 1 .. (IF f <= m THEN m ELSE f)
    BY <1>3, <1>4, <1>5, <2>1, <2>4, BoundsAreNumbers
  <2>6. \E k \in Bounds : ledger' = 1 .. k
    BY <1>4, <2>5 DEF Bounds
  <2>7. ASSUME NEW q \in Runners PROVE (\E k \in Bounds : pending[q] = k + 1 .. Release[q])'
    BY <1>3, <1>4, <1>5 DEF TypeOK, Progress, Bounds
  <2>8. ASSUME NEW q \in Runners
        PROVE  /\ (at[q] \in Working => LoadMigrations(q) \ pending[q] \subseteq ledger)'
               /\ (at[q] = "done" => LoadMigrations(q) \subseteq ledger)'
               /\ (reported[q] \subseteq ledger)'
    BY <1>5 DEF Progress, TypeOK, Working, LoadMigrations
  <2>9. QED
    BY <2>6, <2>7, <2>8 DEF Progress, Working
<1>9. QED
  BY <1>6, <1>7, <1>8, <1>10, <1>11

\* The types, the prefix form of ledger and pending files, and the truth of the ledger
\* are kept by every step of every runner (storage/migrations.py:85-114).
THEOREM MigrationsInvariance == Spec => []MigrationsInvariant
<1>1. ASSUME MigrationsInvariant, [Next]_vars PROVE MigrationsInvariant'
  <2>1. CASE UNCHANGED vars
    BY <1>1, <2>1 DEF vars, MigrationsInvariant, TypeOK, Bounds, Files, Progress, LedgerIsTruthful,
                      LoadMigrations, Overlap, AppliedAgainOnlyTogether
  <2>2. ASSUME NEW r \in Runners, ApplyMigrations(r) PROVE MigrationsInvariant'
    <3>1. CASE Commit(r)
      BY <1>1, <3>1, CommitStep
    <3>2. CASE ~Commit(r)
      BY <1>1, <2>2, <3>2, QuietStep
      DEF ApplyMigrations, Connect, FetchLedger, ExecuteSql, InsertRow, Return, Fail, Uncommitted
    <3>3. QED
      BY <3>1, <3>2
  <2>3. QED
    BY <1>1, <2>1, <2>2 DEF Next
<1>2. QED
  BY InvariantInit, <1>1, PTL DEF Spec

\* Every variable keeps its type.
THEOREM TypeCorrect == Spec => []TypeOK
BY MigrationsInvariance, PTL DEF MigrationsInvariant

\* The ledger names exactly the files whose SQL has taken effect, however runners fail
\* and overlap (storage/migrations.py:99-111).
THEOREM LedgerCorrect == Spec => []LedgerIsTruthful
BY MigrationsInvariance, PTL DEF MigrationsInvariant

\* The schema is always that of some prefix of the files (storage/migrations.py:65-71
\* and 99).
THEOREM PrefixApplied == Spec => []AppliedInOrder
<1>1. ASSUME MigrationsInvariant PROVE AppliedInOrder
  <2>1. PICK n \in Bounds : ledger = 1 .. n
    BY <1>1 DEF MigrationsInvariant, Progress
  <2>2. n \in Nat
    BY BoundsAreNumbers
  <2>3. ASSUME NEW f \in 1 .. n PROVE 1 .. f \subseteq 1 .. n
    BY <2>2
  <2>4. QED
    BY <2>1, <2>3 DEF AppliedInOrder
<1>2. QED
  BY <1>1, MigrationsInvariance, PTL

\* A runner that returns leaves its whole release applied (storage/migrations.py:85-114).
THEOREM ReturnIsSound == Spec => []ReturnedMeansApplied
<1>1. MigrationsInvariant => ReturnedMeansApplied
  BY DEF MigrationsInvariant, Progress, ReturnedMeansApplied
<1>2. QED
  BY <1>1, MigrationsInvariance, PTL

\* No runner applies a file twice, and two apply the same one only if they have been at
\* work at the same time (storage/migrations.py:74-82 and 94-100).
THEOREM AppliedOnce == Spec => []AppliedAgainOnlyTogether
BY MigrationsInvariance, PTL DEF MigrationsInvariant
=============================================================================
