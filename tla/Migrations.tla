------------------------------- MODULE Migrations -------------------------------
(***************************************************************************)
(* The migration runner (storage/migrations.py): runners, of the same or of  *)
(* different releases, apply the SQL files of their release to one database  *)
(* and note each in the schema_migrations ledger, in one transaction per     *)
(* file.  A runner may fail or be killed at any moment and be started again; *)
(* nothing keeps two of them from running at once.  The files are named by   *)
(* their position in the order of their names, and a release only adds files *)
(* at the end.                                                             *)
(*                                                                         *)
(* As in Supervisor, an unused definition directly before another with the  *)
(* same parameters is a mutation of it.                                     *)
(***************************************************************************)
EXTENDS Naturals

CONSTANTS
  Runners,
  Release   \* how many files the release of a runner has

ASSUME MigrationsAssumption == Release \in [Runners -> Nat]

VARIABLES
  ledger,    \* files noted in schema_migrations
  runs,      \* how often each runner has committed the SQL of a file
  at,        \* where each runner is
  pending,   \* the files it has still to apply
  reported,  \* applied_now
  together   \* history: the pairs of runners that have been at work at the same time

vars == <<ledger, runs, at, pending, reported, together>>

LoadMigrations(r) == 1 .. Release[r]
Files == UNION {LoadMigrations(r) : r \in Runners}

Init ==
  /\ ledger = {}
  /\ runs = [r \in Runners |-> [f \in Files |-> 0]]
  /\ at = [r \in Runners |-> "idle"]
  /\ pending = [r \in Runners |-> {}]
  /\ reported = [r \in Runners |-> {}]
  /\ together = {}

\* Connects, and creates the ledger unless it is there.
Connect(r) ==
  /\ at[r] \in {"idle", "done"}
  /\ at' = [at EXCEPT ![r] = "connected"]
  /\ reported' = [reported EXCEPT ![r] = {}]
  /\ UNCHANGED <<ledger, runs, pending, together>>

AllMigrations(r) == LoadMigrations(r)
PendingMigrations(r) == LoadMigrations(r) \ ledger

\* Between its look at the ledger and its end a runner is at work.
Working == {"applying", "executed", "inserted"}

\* Reads the ledger, once, before the first file.
FetchLedger(r) ==
  /\ at[r] = "connected"
  /\ at' = [at EXCEPT ![r] = "applying"]
  /\ together' = together \cup {{r, q} : q \in {q \in Runners : at[q] \in Working}}
  /\ pending' = [pending EXCEPT ![r] = PendingMigrations(r)]
  /\ UNCHANGED <<ledger, runs, reported>>

LastMigration(r) == CHOOSE f \in pending[r] : \A g \in pending[r] : g <= f
NextMigration(r) == CHOOSE f \in pending[r] : \A g \in pending[r] : f <= g

\* What others see of a file's SQL while its transaction is open.
Autocommitted(r, f) == [runs EXCEPT ![r][f] = @ + 1]
Uncommitted(r, f) == runs

HasMore(r) == pending[r] # {}

ExecuteSql(r) ==
  /\ at[r] = "applying" /\ HasMore(r)
  /\ at' = [at EXCEPT ![r] = "executed"]
  /\ runs' = Uncommitted(r, NextMigration(r))
  /\ UNCHANGED <<ledger, pending, reported, together>>

\* A second INSERT of the same name waits for the end of the first's
\* transaction, and then does nothing.
InsertRow(r) ==
  /\ at[r] = "executed"
  /\ \A q \in Runners : at[q] = "inserted" => NextMigration(q) # NextMigration(r)
  /\ at' = [at EXCEPT ![r] = "inserted"]
  /\ UNCHANGED <<ledger, runs, pending, reported, together>>

Commit(r) ==
  /\ at[r] = "inserted"
  /\ LET f == NextMigration(r) IN
     /\ ledger' = ledger \cup {f}
     /\ runs' = [runs EXCEPT ![r][f] = @ + 1]
     /\ pending' = [pending EXCEPT ![r] = @ \ {f}]
     /\ reported' = [reported EXCEPT ![r] = @ \cup {f}]
  /\ at' = [at EXCEPT ![r] = "applying"]
  /\ UNCHANGED together

Return(r) ==
  /\ at[r] = "applying" /\ ~HasMore(r)
  /\ at' = [at EXCEPT ![r] = "done"]
  /\ UNCHANGED <<ledger, runs, pending, reported, together>>

\* The error of a migration is raised, not reported as a shorter list.
Swallowed == "done"
Raised == "idle"

\* The SQL fails, the connection is lost or the process is killed: the open
\* transaction is rolled back.
Fail(r) ==
  /\ at[r] \in {"connected"} \cup Working
  /\ at' = [at EXCEPT ![r] = Raised]
  /\ pending' = [pending EXCEPT ![r] = {}]
  /\ reported' = [reported EXCEPT ![r] = {}]
  /\ UNCHANGED <<ledger, runs, together>>

ApplyMigrations(r) ==
  \/ Connect(r)
  \/ FetchLedger(r)
  \/ ExecuteSql(r)
  \/ InsertRow(r)
  \/ Commit(r)
  \/ Return(r)
  \/ Fail(r)

Next == \E r \in Runners : ApplyMigrations(r)

Spec == Init /\ [][Next]_vars

-----------------------------------------------------------------------------
\* Every variable keeps its type.
TypeOK ==
  /\ ledger \subseteq Files
  /\ runs \in [Runners -> [Files -> Nat]]
  /\ at \in [Runners -> {"idle", "connected", "applying", "executed", "inserted", "done"}]
  /\ pending \in [Runners -> SUBSET Files]
  /\ reported \in [Runners -> SUBSET Files]
  /\ \A r \in Runners : at[r] \in {"executed", "inserted"} => pending[r] # {}
  /\ together \subseteq SUBSET Runners

\* The ledger names exactly the files whose SQL has taken effect, however
\* runners fail and overlap (storage/migrations.py:99-111).
LedgerIsTruthful ==
  \A f \in Files : f \in ledger <=> \E r \in Runners : runs[r][f] > 0

\* The schema is always that of some prefix of the files: none is applied before
\* an earlier one (storage/migrations.py:65-71 and 99).
AppliedInOrder == \A f \in ledger : 1 .. f \subseteq ledger

\* No runner applies a file twice, over all its restarts, and two runners apply the
\* same file only if they have been at work at the same time: deployments that follow
\* each other do not (storage/migrations.py:74-82 and 94-100).
AppliedAgainOnlyTogether ==
  \A f \in Files, r \in Runners :
    /\ runs[r][f] <= 1
    /\ \A q \in Runners \ {r} : runs[r][f] > 0 /\ runs[q][f] > 0 => {r, q} \in together

\* A runner that returns leaves its whole release applied, and names only files
\* that are (storage/migrations.py:85-114).
ReturnedMeansApplied ==
  \A r \in Runners :
    at[r] = "done" => LoadMigrations(r) \subseteq ledger /\ reported[r] \subseteq ledger

-----------------------------------------------------------------------------
\* Why these hold: the ledger is a first part of the files, what a runner has not
\* applied yet is a last part of its release, and the two overlap or meet.
Bounds == {0} \cup Files

Progress ==
  /\ \E n \in Bounds : ledger = 1 .. n
  /\ \A r \in Runners :
       /\ \E n \in Bounds : pending[r] = n + 1 .. Release[r]
       /\ at[r] \in Working => LoadMigrations(r) \ pending[r] \subseteq ledger
       /\ at[r] = "done" => LoadMigrations(r) \subseteq ledger
       /\ reported[r] \subseteq ledger

\* A file that a runner has still before it is not one that it has applied, nor one that
\* a runner has applied with which it is not at work; and runners at work are together.
Overlap ==
  \A r \in Runners :
    /\ at[r] \notin Working => pending[r] = {}
    /\ \A q \in Runners \ {r} :
         at[r] \in Working /\ at[q] \in Working => {r, q} \in together
    /\ \A f \in pending[r], q \in Runners :
         runs[q][f] > 0 => q # r /\ {r, q} \in together

MigrationsInvariant ==
  /\ TypeOK
  /\ Progress
  /\ LedgerIsTruthful
  /\ Overlap
  /\ AppliedAgainOnlyTogether
=============================================================================
