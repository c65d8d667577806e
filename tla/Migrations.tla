----------------------------- MODULE Migrations -----------------------------
(***************************************************************************)
(* The SQL migration runner (src/src/forktex/database/migrate.py): any     *)
(* number of callers of apply() against one database, each with the        *)
(* migrations directory of the image it was deployed with.                 *)
(*                                                                         *)
(* The runner holds a session-level advisory lock on one pooled connection *)
(* and does its work on others of the same pool.  The lock can therefore   *)
(* be lost (its backend terminated) while the work goes on; LoseLock is    *)
(* that fault.  A file's content stands for its SHA-256.                   *)
(***************************************************************************)
EXTENDS Naturals, Sequences, FiniteSets

CONSTANTS
    Runners,         \* callers of SchemaMigrationRunner.apply()
    Engines,         \* AsyncEngines, one connection pool each
    EngineOf,        \* the engine each runner was constructed with
    PoolSize,        \* pool_size + max_overflow of an engine
    Versions,        \* version numbers a file name can carry
    Contents,        \* file contents
    Directories,     \* the migrations directories of the deployed images
    InitialLedgers,  \* schema_version as a database may be found
    NoRow,           \* a version schema_version has no row for
    NoChecksum,      \* a row whose checksum is NULL
    NoRunner,        \* nobody holds the advisory lock
    MaxCalls,        \* bound: apply() calls per runner
    MaxLosses        \* bound: lock connections lost

File == [version : Versions, content : Contents]
Ledger == [Versions -> Contents \cup {NoRow, NoChecksum}]

ASSUME RunnersAssumption ==
    /\ NoRunner \notin Runners
    /\ EngineOf \in [Runners -> Engines]
ASSUME VersionsAssumption == Versions \subseteq Nat \ {0}
ASSUME RowsAssumption ==
    /\ NoRow # NoChecksum
    /\ NoRow \notin Contents
    /\ NoChecksum \notin Contents
ASSUME InputsAssumption ==
    /\ Directories \subseteq SUBSET File
    /\ InitialLedgers \subseteq [Versions -> {NoRow, NoChecksum}]
ASSUME BoundsAssumption == {PoolSize, MaxCalls, MaxLosses} \subseteq Nat

VARIABLES
    table,    \* is the version table there: "absent", "legacy" (no checksum column), "current"
    ledger,   \* committed rows of the version table
    schema,   \* the scripts whose effects are committed, in commit order
    lock,     \* holder of the advisory lock
    pc,       \* where each runner's apply() stands
    dir,      \* the directory the running apply() lists
    seen,     \* what _read_applied returned
    at,       \* the last version _apply_pending has dealt with
    txn,      \* version whose row is inserted, not yet committed (0: none)
    result,   \* outcome of each runner's last apply()
    calls,    \* apply() calls made
    losses    \* lock connections lost

vars == <<table, ledger, schema, lock, pc, dir, seen, at, txn, result, calls, losses>>
local == <<dir, seen, at>>
db == <<table, ledger, schema>>

PC == {"idle", "acquire", "bootstrap", "read", "scan", "insert", "script", "commit", "release"}

TypeOK ==
    /\ table \in {"absent", "legacy", "current"}
    /\ ledger \in Ledger
    /\ schema \in Seq(File)
    /\ lock \in Runners \cup {NoRunner}
    /\ pc \in [Runners -> PC]
    /\ dir \in [Runners -> SUBSET File]
    /\ seen \in [Runners -> Ledger]
    /\ at \in [Runners -> Versions \cup {0}]
    /\ txn \in [Runners -> Versions \cup {0}]
    /\ result \in [Runners -> {"none", "ok", "error", "crashed"}]
    /\ calls \in [Runners -> Nat]
    /\ losses \in Nat

EmptyLedger == [v \in Versions |-> NoRow]

Init ==
    /\ ledger \in InitialLedgers
    /\ table \in IF ledger = EmptyLedger THEN {"absent", "legacy"} ELSE {"legacy"}
    /\ schema = <<>>
    /\ lock = NoRunner
    /\ pc = [r \in Runners |-> "idle"]
    /\ dir = [r \in Runners |-> {}]
    /\ seen = [r \in Runners |-> EmptyLedger]
    /\ at = [r \in Runners |-> 0]
    /\ txn = [r \in Runners |-> 0]
    /\ result = [r \in Runners |-> "none"]
    /\ calls = [r \in Runners |-> 0]
    /\ losses = 0

-----------------------------------------------------------------------------
(* The connection pool: one connection carries the lock for the whole      *)
(* call, a second one carries the transaction of one migration.            *)

InTransaction == {"insert", "script", "commit"}
InUse(e) ==
    Cardinality({r \in Runners : EngineOf[r] = e /\ pc[r] # "idle"})
      + Cardinality({r \in Runners : EngineOf[r] = e /\ pc[r] \in InTransaction})
CanConnect(r) == InUse(EngineOf[r]) < PoolSize

(* What the scan of one directory decides. *)
VersionsIn(d) == {f.version : f \in d}
SharesVersion(d) == \E f, g \in d : f # g /\ f.version = g.version
ContentOf(d, v) == (CHOOSE f \in d : f.version = v).content

(* v is the lowest version of r's directory not dealt with yet. *)
Ahead(r) == {v \in VersionsIn(dir[r]) : v > at[r]}
IsNext(r, v) == v \in Ahead(r) /\ \A w \in Ahead(r) : v <= w

(* Mutant: applied files are skipped without a look at their checksum. *)
UncheckedFile(r, v) == TRUE
(* _verify_unchanged passes: no checksum was recorded, or it is the file's. *)
Unchanged(r, v) == seen[r][v] \in {NoChecksum, ContentOf(dir[r], v)}
(* Mutant: no test against the highest applied version. *)
NeverOutOfOrder(r, v) == FALSE
(* The file is numbered below what the database had already applied. *)
OutOfOrder(r, v) == \E w \in Versions : seen[r][w] # NoRow /\ v < w
Pending(r, v) == seen[r][v] = NoRow /\ ~OutOfOrder(r, v)
Scanning(r) == pc[r] = "scan" /\ ~SharesVersion(dir[r])

(* Leaving the `async with advisory_lock` block with an outcome; an open   *)
(* transaction is rolled back on the way.                                  *)
Leave(r, outcome) ==
    /\ pc' = [pc EXCEPT ![r] = "release"]
    /\ txn' = [txn EXCEPT ![r] = 0]
    /\ result' = [result EXCEPT ![r] = outcome]
    /\ UNCHANGED <<db, local, lock, calls, losses>>

GoTo(r, where) == pc' = [pc EXCEPT ![r] = where]

-----------------------------------------------------------------------------
(* apply() is called; the lock's connection is checked out. *)
Start(r, d) ==
    /\ pc[r] = "idle"
    /\ calls[r] < MaxCalls
    /\ CanConnect(r)
    /\ GoTo(r, "acquire")
    /\ dir' = [dir EXCEPT ![r] = d]
    /\ at' = [at EXCEPT ![r] = 0]
    /\ calls' = [calls EXCEPT ![r] = @ + 1]
    /\ UNCHANGED <<db, lock, seen, txn, result, losses>>

(* pg_advisory_lock returns. *)
Acquire(r) ==
    /\ pc[r] = "acquire"
    /\ lock = NoRunner
    /\ lock' = r
    /\ GoTo(r, "bootstrap")
    /\ UNCHANGED <<db, local, txn, result, calls, losses>>

(* Schema, table and checksum column, in one transaction.  ALTER TABLE     *)
(* takes the table exclusively, so it waits for every open insert.         *)
Bootstrap(r) ==
    /\ pc[r] = "bootstrap"
    /\ CanConnect(r)
    /\ \A q \in Runners : txn[q] = 0
    /\ table' = "current"
    /\ GoTo(r, "read")
    /\ UNCHANGED <<ledger, schema, local, lock, txn, result, calls, losses>>

Read(r) ==
    /\ pc[r] = "read"
    /\ CanConnect(r)
    /\ seen' = [seen EXCEPT ![r] = ledger]
    /\ GoTo(r, "scan")
    /\ UNCHANGED <<db, dir, at, lock, txn, result, calls, losses>>

(* Listing fails: two files of one version. *)
ListFails(r) ==
    /\ pc[r] = "scan"
    /\ at[r] = 0
    /\ SharesVersion(dir[r])
    /\ Leave(r, "error")

(* The next file was applied before, and is what was applied. *)
Verify(r, v) ==
    /\ Scanning(r)
    /\ IsNext(r, v)
    /\ seen[r][v] # NoRow
    /\ Unchanged(r, v)
    /\ at' = [at EXCEPT ![r] = v]
    /\ UNCHANGED <<db, dir, seen, lock, pc, txn, result, calls, losses>>

(* The next file was edited after it was applied, or is numbered too low. *)
Reject(r, v) ==
    /\ Scanning(r)
    /\ IsNext(r, v)
    /\ \/ seen[r][v] # NoRow /\ ~Unchanged(r, v)
       \/ seen[r][v] = NoRow /\ OutOfOrder(r, v)
    /\ Leave(r, "error")

(* The next file is pending: its transaction is opened. *)
Begin(r, v) ==
    /\ Scanning(r)
    /\ IsNext(r, v)
    /\ Pending(r, v)
    /\ CanConnect(r)
    /\ at' = [at EXCEPT ![r] = v]
    /\ GoTo(r, "insert")
    /\ UNCHANGED <<db, dir, seen, lock, txn, result, calls, losses>>

(* Mutant: the version table has no primary key. *)
InsertAnyway(r) ==
    /\ pc[r] = "insert"
    /\ txn' = [txn EXCEPT ![r] = at[r]]
    /\ GoTo(r, "script")
    /\ UNCHANGED <<db, local, lock, result, calls, losses>>

(* INSERT of the version row.  The primary key makes it wait for another   *)
(* transaction that inserted the same version.                             *)
Insert(r) ==
    /\ pc[r] = "insert"
    /\ ledger[at[r]] = NoRow
    /\ \A q \in Runners : txn[q] # at[r]
    /\ txn' = [txn EXCEPT ![r] = at[r]]
    /\ GoTo(r, "script")
    /\ UNCHANGED <<db, local, lock, result, calls, losses>>

(* The row is already committed: a unique violation. *)
InsertFails(r) ==
    /\ pc[r] = "insert"
    /\ ledger[at[r]] # NoRow
    /\ Leave(r, "error")

(* Mutant: the script runs before a transaction is open and commits alone. *)
ScriptAutocommits(r) ==
    /\ pc[r] = "script"
    /\ schema' = Append(schema, [version |-> at[r], content |-> ContentOf(dir[r], at[r])])
    /\ GoTo(r, "commit")
    /\ UNCHANGED <<table, ledger, local, lock, txn, result, calls, losses>>

(* The script runs in the transaction the INSERT opened. *)
Script(r) ==
    /\ pc[r] = "script"
    /\ GoTo(r, "commit")
    /\ UNCHANGED <<db, local, lock, txn, result, calls, losses>>

(* COMMIT: the version row and the script's effects together. *)
Commit(r) ==
    /\ pc[r] = "commit"
    /\ LET v == at[r]
           c == ContentOf(dir[r], v)
       IN  /\ ledger' = [ledger EXCEPT ![v] = c]
           /\ schema' = Append(schema, [version |-> v, content |-> c])
    /\ txn' = [txn EXCEPT ![r] = 0]
    /\ GoTo(r, "scan")
    /\ UNCHANGED <<table, local, lock, result, calls, losses>>

(* Every file has been dealt with. *)
Finish(r) ==
    /\ Scanning(r)
    /\ Ahead(r) = {}
    /\ Leave(r, "ok")

(* The block is left and the lock's connection returned.  When the unlock  *)
(* fails the connection is invalidated, which releases the lock too.       *)
Release(r) ==
    /\ pc[r] = "release"
    /\ lock' = IF lock = r THEN NoRunner ELSE lock
    /\ GoTo(r, "idle")
    /\ UNCHANGED <<db, local, txn, result, calls, losses>>

-----------------------------------------------------------------------------
(* A statement fails: the script's SQL, or the connection under the work.  *)
Fail(r) ==
    /\ pc[r] \in {"bootstrap", "read"} \cup InTransaction
    /\ Leave(r, "error")

(* Mutant: a caller waits for a connection without a timeout. *)
WaitForever(r) == FALSE

(* No connection came free within the pool's timeout. *)
PoolTimeout(r) ==
    /\ \/ pc[r] \in {"bootstrap", "read"}
       \/ Scanning(r) /\ \E v \in Versions : IsNext(r, v) /\ Pending(r, v)
    /\ ~CanConnect(r)
    /\ Leave(r, "error")

(* The process dies: Postgres rolls back its transaction and drops the lock. *)
Crash(r) ==
    /\ pc[r] # "idle"
    /\ lock' = IF lock = r THEN NoRunner ELSE lock
    /\ txn' = [txn EXCEPT ![r] = 0]
    /\ result' = [result EXCEPT ![r] = "crashed"]
    /\ GoTo(r, "idle")
    /\ UNCHANGED <<db, local, calls, losses>>

(* The lock's connection is terminated under a runner that works on. *)
LoseLock(r) ==
    /\ lock = r
    /\ losses < MaxLosses
    /\ lock' = NoRunner
    /\ losses' = losses + 1
    /\ UNCHANGED <<db, local, pc, txn, result, calls>>

ScanStep(r) ==
    \/ ListFails(r)
    \/ Finish(r)
    \/ \E v \in Versions : Verify(r, v) \/ Reject(r, v) \/ Begin(r, v)

Steps(r) ==
    \/ Acquire(r) \/ Bootstrap(r) \/ Read(r) \/ ScanStep(r)
    \/ Insert(r) \/ InsertFails(r) \/ Script(r) \/ Commit(r)
    \/ Release(r) \/ PoolTimeout(r)

Next ==
    \E r \in Runners :
        \/ \E d \in Directories : Start(r, d)
        \/ Steps(r)
        \/ Fail(r) \/ Crash(r) \/ LoseLock(r)

Spec == Init /\ [][Next]_vars

(* Postgres queues lock waiters first come, first served, so a waiter that *)
(* finds the lock free again and again gets it; a runner's own steps are   *)
(* an event loop running.  Nothing makes a caller start, fail or crash.    *)
Fairness == \A r \in Runners : WF_vars(Steps(r)) /\ SF_vars(Acquire(r))
FairSpec == Spec /\ Fairness

-----------------------------------------------------------------------------
(* No migration's effects are committed twice, whatever happens to the     *)
(* lock: the primary key on version backs the lock up.                     *)
AppliedOnce ==
    \A i, j \in DOMAIN schema : schema[i].version = schema[j].version => i = j

(* The version row and the script's effects stand or fall together         *)
(* (docs/database.md: each file runs in one transaction with its row).     *)
LedgerMatchesSchema ==
    /\ \A i \in DOMAIN schema : ledger[schema[i].version] = schema[i].content
    /\ \A v \in Versions : ledger[v] \in Contents
         => [version |-> v, content |-> ledger[v]] \in {schema[i] : i \in DOMAIN schema}

(* Across all callers and all the directories they were deployed with,     *)
(* migrations are applied in ascending order, unless the lock was lost.    *)
AppliedInOrder ==
    losses = 0 =>
        /\ \A i, j \in DOMAIN schema : i < j => schema[i].version < schema[j].version
        /\ \A i \in DOMAIN schema, v \in Versions :
               ledger[v] = NoChecksum => v < schema[i].version

(* apply() returns without an error only when every file of the caller's   *)
(* directory is in the database with the content the directory has, rows   *)
(* of before checksums existed aside.                                      *)
SuccessMeansInSync ==
    \A r \in Runners : pc[r] = "release" /\ result[r] = "ok"
        => \A f \in dir[r] : ledger[f.version] \in {NoChecksum, f.content}

(* Every call of apply() returns, the ones that find the pool exhausted by *)
(* callers waiting for the lock included.                                  *)
EveryCallReturns == \A r \in Runners : (pc[r] # "idle") ~> (pc[r] = "idle")
=============================================================================
