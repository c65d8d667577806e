# forktex-py in TLA+

TLA+ models of [forktex-py](../src/README.md), the Python substrate of the
ForkTex services: what the library does between the `await`s, between several
processes, and between itself and PostgreSQL or Redis. Paths below are relative
to the repository (`src/forktex/...` is the library, `docs/...` its pages).

Every modelled part has a module, an `MC` module with small values for TLC and
one or more `.cfg` files, and the theorems about it, checked by TLAPS for every
value of the constants, are in a `...Proofs` module (one, `DatabaseProofs`, for
the three modules of a database session).

    tlc -workers 4 -config Migrations.cfg MCMigrations
    tlapm MigrationsProofs.tla

Contents: [inventory](#1-inventory) · [modules](#2-modules-and-the-code) ·
[runs](#3-runs-and-what-they-show) · [disagreements found](#4-where-code-and-documentation-disagree) ·
[fairness](#5-fairness) · [proofs](#6-proofs) · [outside the models](#7-what-is-assumed-of-the-outside) ·
[not modelled](#8-not-modelled) · [plan](#9-plan)

## 1. Inventory

The library is about 4,800 lines. It has no threads of its own but the log
queue's; its concurrency is coroutines of one event loop, several processes
against one database, one Redis and one S3 server, and the failures of these.

| Component (code) | State | Operations | Talks to | What is hard |
|---|---|---|---|---|
| schema migrations (`database/migrate.py`) | the version table, the scripts' effects, the advisory lock | `apply()`: lock, bootstrap, read, scan, one transaction per file | a pool shared with the lock's connection, `advisory_lock` | several replicas with different directories, a lock that dies before the work does, crashes in between, a pool exhausted by waiters |
| advisory locks (`database/locks.py`) | locks kept by Postgres per backend and counted | `advisory_lock`, `try_advisory_lock`, `_release` | the connection pool | a lock outlives rollback and check-in: any path that forgets it shuts the key for everybody; failures and cancellations in each `await` |
| units of work (`database/connection.py`) | session, savepoints, the write watch; `_opened` of a scope | `transaction()`, `session()`, `savepoint()`, the decorator | SQLAlchemy events, Postgres transactions | nested savepoints with any failure; three layers with their own idea of "broken" |
| keyset scroll (`database/crud.py`, `pagination.py`) | the cursor, carried by the client | `paginate_scroll` | other transactions between pages | NULL ordering at each level, rows that come, go and move between pages, what JSON does to values |
| cache (`cache/cache.py`) | entries and locks in Redis with their times to live; background tasks of a process | `fetch_or_set`, `fetch_swr`, invalidation, shutdown | Redis, the cached function | locks that expire under their holder, values stored late, lost answers, shutdown against new refreshes |
| default handles (`database/connection.py`, `cache/connection.py`, `storage/__init__.py`) | one module global each | init, close, require | everything that uses a default | a handle replaced during the awaited close of another |
| filters, identifiers, DDL, reflection, models (`database/`) | none of their own | validation, SQL text | - | pure; three-valued logic and limits in filters |
| log (`log/`) | context variables per thread or task; the root's handlers, a queue and its listener | scopes, fields, `set_trace_id`, bound functions; `setup_logging`, `shutdown_logging` | tasks, threads, `logging` | blocks that must restore what they replaced, records stamped here and written there, records queued at a stop |
| api (`api/`) | the response under way, the outcome of each probe | four middlewares, error envelope, readiness | ASGI, probes, the default handles | errors before, during and after an answer, cancellation, late probes, the order of the middlewares |
| storage (`storage/`) | none but the client | single S3 calls, `ensure_bucket` | S3 | two processes creating one bucket |
| registry, error, types, iso | a dictionary; values | - | - | nothing concurrent |
| flow engine (`backlog/core/flow`) | runs, step rows, signals in Postgres; a leader lock; executors in each process | `run`, `cancel`, signal, driver tick (reclaim, revive, claim), replay of a run step by step, heartbeat | Postgres, other workers | two workers on one run, processes that die or stop between any two writes, timeouts missed by live ones |
| grid rows (`backlog/core/grid/write`) | rows with a JSON payload, edges between rows | create, patch, relate, unrelate, archive | Postgres at READ COMMITTED | one reference kept twice, on_delete over cascades, sessions that read what another is changing |
| other backlog (`backlog/`) | grid schemas, facades, the agent CLI | - | - | set aside by `backlog/README.md` ("set aside, not deleted ... Nothing here is built, tested") |

How they interact: `migrate` uses `advisory_lock` and the engine of a database
handle; `crud` and `pagination` run in a session a unit of work opened; the
decorators of `cache` forward to the default cache; `storage` keeps its clients
in a `registry`; the application starts and stops the handles itself, in the
lifespan it hands to `api`. The models meet at those seams:
`Migrations` has the lock (one lost connection or a crash frees it) and the
pool as its parts, `AdvisoryLock` justifies treating that lock as a mutex
(`Mutex`), and `UnitOfWork` justifies treating the transaction of one file as
all or nothing. `Service` composes the api's readiness probes with the default
handle they use while other tasks install and close it, and with the trace id's
middleware. The flow engine's leader lock is `advisory_lock`; in `Flow` it is one
variable that a dropped connection frees.

Properties that make each component correct, in a sentence: a migration takes
effect once, with its row, in order, and success is never claimed wrongly; a key
has one holder and none after release; a unit of work is stored entirely or not
at all, and never forgotten in silence; a scroll neither repeats nor skips; what
a cache serves is of bounded age; a record carries the context it was logged in
and is written; a request gets one response and an error an envelope; a handle
is not forgotten open; a step's body runs in one process at a time and what is
recorded of a run stays; a grid's edges fit its relations' shapes.

## 2. Modules and the code

`PROJECT.json` (`map`) names the source lines of every definition. In outline:

### Migrations - `database/migrate.py`
`pc[r]` is the place of runner `r` inside `apply()`: `acquire` (in
`advisory_lock`), `bootstrap`, `read` (`_read_applied`), `scan`
(`_apply_pending`'s loop), `insert`/`script`/`commit` (`_apply`), `release`.
`dir[r]` is the directory listed, `seen[r]` the rows read once at the start,
`at[r]` the last version dealt with, `txn[r]` a row inserted and not committed.
`table`, `ledger`, `schema` are the database: the version table's shape, its
committed rows, and the scripts whose effects are committed. A file's content
stands for its SHA-256. `Verify`, `Reject`, `Begin` are the branches of the
loop; `Insert` waits on the primary key as Postgres does; `Fail`, `Crash`,
`PoolTimeout`, `LoseLock` are the environment. `InUse` counts the lock's
connection and the transaction's against one pool.

### AdvisoryLock and Mutex - `database/locks.py`
`held[c][k]` counts how often the backend of connection `c` took key `k`, as
Postgres does; `work[c]` is its transaction. Every statement of
`_discard_pending_work_and_unlock` is an action of its own, and each may fail
(`ReleaseFails`, which closes the connection). `Interrupted` is a failure or
cancellation between the lock statement and the `try`, where the driver gives
the connection up. `BackendDies` is a backend that ends under a working block.
`Mutex` is the promise: one holder per key, take when free, give back.
`AdvisoryLock!ImplementsMutex` maps the holder of a key to the task whose
connection holds it.

### UnitOfWork - `database/connection.py`
One block from opening to end. `unit` says what the application writes:
`transaction()` (managed) or `session()`; with savepoints or without (`nests`);
one that catches a failed statement outside a savepoint and goes on
(`swallows`). `at[w]` follows each write from object to storage. `broken`
separates SQLAlchemy's inactive transaction from Postgres's aborted one, which
is where two of the disagreements below come from. `written` is
`_WriteWatch._written`.

### UnitScope - `database/connection.py`, `_TransactionScope`
`opened` is `_opened` of each scope; blocks enter kept scopes (`async with`) or
a fresh one per call (`wrapper`), nest or interleave, and leave in any order.
Nothing guards the entry, as nothing does in `__aenter__`: a scope in use is
entered again and its field overwritten. `ending[b]` is the unit the `__aexit__`
of a block took from the field and waits for; `ExitInVain` leaves a block whose
field holds a unit that has ended already. `shared` is history: the blocks that
ran at once in one scope.

### Keyset - `database/crud.py`, `database/pagination.py`
`Precedes` is Postgres's ORDER BY with its NULL placement, `KeysetPredicate` and
`SortsAfter` the predicate the library builds, `Decoded` what `encode_cursor`
and `_typed_cursor_value` make of a boundary value. `Page` and `LastPage` are
the SELECT with `limit + 1`; `Insert`, `Update`, `Delete` other transactions.

### SwrCache - `cache/cache.py`
One cached function and its key. `entry` and `lock` are Redis keys with the time
to live they have left; `fetch[f]` is one call of the function by a request or a
refresh: where it stands, what it read, how long it took, which `created_at` it
is about to store. The SET NX of the lock and the start of the refresh are two
actions (`TakeLock`, `StartRefresh`), because the code awaits the answer in
between: the lock's time, and `took`, run from the first. `overdue[v]` measures
how long a version of the source has been superseded. Redis errors, lost answers,
undecodable payloads, raises, crashes and `shutdown_background_tasks` are actions.

### Logging - `log/_context.py`, `log/__init__.py`
`context[t]` is the three context variables of a thread or task, `frames[t]` the
blocks it is in, each with what it saved (its tokens) and, apart from that, what
it makes the context inside it (`inside`; `base` is what `set_trace_id` left
outside all of them). `Expected` reads the context off the innermost block and
never looks at what was saved, so that `ContextFollowsScopes` compares the
tokens' bookkeeping with the nesting. A call of a logger is two actions: `Log`
finds the root's handlers, `Emit` calls the one it found, by which time
`setup_logging` may have replaced it. `Stopped`/`Joined` are `QueueListener.stop`:
a sentinel, then the join. `Reuse` says whether the application hands the same
target handlers to each `setup_logging`.

### Service - `api/`, `TraceIDMiddleware`, `init_engine`, `close_engine`
`Order` is the stack of middlewares, outermost first; `enabled` which of them
`AppConfig` switched on. `sent[r]` is what reached the server. An exception
(`raised`) leaves the application before, during or after its answer, and goes
outwards until `Catches`. `probe[r]` is the readiness route: each probe passes
if the database answers (`up`), or ends in `ProbeFails` when it raises or its
`wait_for` times out. `call[c]` is what a caller of `init_engine` or
`close_engine` awaits; `Disposes` then clears whatever handle is installed by
then, as `close_engine` does. `raced` and `failed` name the handles the code
loses open; `cache.init` and `cache.close` have the same shape line by line.

### Flow and FlowJournal - `backlog/core/flow`
`row[r][k]` is a step row: status, attempts, output, heartbeat in time, retry
due. A row's key is its place and, for a node, the outputs before it (the hash
of its arguments), so executors whose states differ write different rows.
`exec[w][r]` is the executor of worker `w`, one action per committed transaction
(`Upsert`, `Claim`, `ConsumeSignal`, `Complete`, `Save`, `Finish`, ...). `Tick` is
a leader's reclaim, revive and claim.

What goes wrong is in three groups. `Kill`, `Stop` and `Drained` with `Cut`,
`DropLock`, `Lapse`, an early `FallDue` and `Cancel` are faults of processes,
connections, clocks and operators. `RowFails`, `BodyFails`, `RunFails`,
`LoadFails` and `TickFails` are statements that fail while the process lives:
before they took effect, after the commit with the answer lost, or with the event
that is written next, which is a transaction of its own in the same `try`. Inside
the `try` of `execute_graph_run` the executor goes on to fail the run (its generic
`except`, `replay.py:704`); in one of its handlers, or when the run cannot be
loaded, the task ends and writes nothing. `Breaks` is code of the workflow that
raises outside a node's body, a graph that is stuck (`GraphStuckError`), or a
definition that is not registered in the process; it is no fault and not bounded.
All three lead to the outcomes in `Outcome`.

History variables remember which runs met what, and the properties say for which
of them they hold: `lapsed` (a live executor was slower than a timeout),
`contested` (two workers executed the run at once), `cancelled`, `adrift` (its
executor ended, by a death or a failing statement, where no row told that the run
goes on) and `spilled` (it ended, or one of the two transactions failed, with a
signal taken and not recorded).
`FlowJournal` is the promise: the outputs recorded for a run are a sequence that
only ever grows by one.

### GridRows - `backlog/core/grid/write`
`payload[x][r]` is what row `x`'s ref cell of relation `r` names, `edges` is
`grid_edge`. An operation reads (`Create`, `Patch`, `Relate`, `Unrelate`, `Archive`
with one `Visit` per row of its plan), keeps what it read, waits for row locks
(`Flush`), syncs the edges and commits. `met`, `bypassed`, `blanked` remember that
two operations met on a row, that a projected relation was written around its
column, and that a list cell was cleared whole.

## 3. Runs and what they show

| Run | Instance | Shows |
|---|---|---|
| `migrations` | 2 runners x 2 calls, 3 versions, 5 directories, 2 initial databases, 1 lost lock, crashes and failures anywhere | nothing applied twice; rows and effects agree; success means in sync; order holds while the lock does (1.5 M states) |
| `migrations_pool` | 2 runners, a pool of 2 | a waiter's connection starves the holder; with the pool's timeout every call still returns |
| `advisory_lock` | 3 tasks, 2 connections, 2 keys, 1 backend death | clean pool, uncommitted work discarded, waiters served, refinement of `Mutex` (and so exclusion) |
| `unit_of_work` | 2 ORM, 1 Core, 1 raw write, savepoints 2 deep, all kinds of block | atomicity; savepoints take only their own; contained failures commit; flat sessions raise |
| `unit_of_work_settled` | the same, 1 deep | violation: finding 1 |
| `unit_scope` | 4 blocks, 1 kept scope entered at any time, 3 fresh | a block that shares its scope with no running one ends its own unit, whatever the others do |
| `swr_cache` | 2 processes, 2 requests, 3 refreshes, a fetch as long as the lock | bounded age, a second refresh only when the lock of the first is over, orderly shutdown (2.1 M states) |
| `keyset` | every table of 3 rows, 2 values and NULL, 3 queries, any change between pages | nothing twice, nothing skipped |
| `flow` | 1 run of a node and a signal wait, 2 workers, 2 attempts, 1 fault of any kind, workflow code that breaks at any time | bodies exclude each other, the record only grows (`FlowJournal`), reports are true, attempts bounded, signals kept and runs stranded only between two writes, runs end (0.4 M states) |
| `logging` | 2 threads, blocks 2 deep, 2 ids, 2 records, 2 set-ups and a shutdown in either mode | contexts follow their blocks; records keep theirs; none queued before a stop is lost or reordered; set-ups return |
| `service` | 1 request, 2 probes, any middlewares, 2 callers, 3 handles | one response; errors enveloped and traced; readiness true and certain; no handle lost but by the named races |
| `grid_rows` | 3 rows, 2 relations in 3 schemas that have every shape and policy, 1 edge to begin with, 2 operations of 2 sessions | cardinality always; references and on_delete unless two operations met on a row |

**Bounds, and why they are enough.** `MaxCalls = 2` lets a runner come back with
another directory after an error or a crash; three versions let two directories
number past each other (1,3 against 1,2) - the smallest out-of-order case; one
lost lock is enough for two runners to work at once. Three tasks on two
connections make one wait for the pool while another waits for the lock, and a
connection be reused after a failed release. Savepoints two deep are the first
depth where undoing one leaves another. With `StaleTTL = 3 > MaxFetch = LockTTL = 2 > TTL = 1`
an entry can go stale, be refreshed, expire and be overtaken, and a refresh can
outlive its lock, so that two do overlap; one change of the source makes a value
wrong. Three rows with a page of one or two leave a middle row to be deleted
while the cursor points at it. Ages are capped where they decide nothing
(`Old`, `Ancient`).

In `flow` two workers are enough for an old and a new leader and for two
executors of one run; a node followed by a wait has every kind of row, and one
fault (`MaxFaults`) already gives takeover, revival, a late heartbeat, a cancelled
run and a failing statement in every place; a second one takes TLC beyond the minutes a run may last, and its safety is
covered by the proofs, which bound nothing. In `logging` the
constraint `NestOrLog` explores deep nesting and the pipeline of records
separately: a stamp does not depend on how deep the block is, and blocks do not
look at handlers. In `service` the constraint `AllOnOrNoHandle` lets handles be
made only when every middleware is on: middlewares concern messages only and
handles probes only; three handles are what it takes for one to be installed
under a close of another that replaced a third. In `grid_rows` one edge there at
first (`MaxEdges`) and one that an operation adds make every clash, two
operations (`MaxOps`) every pair that can meet, and three rows a cascade whose
source is referred to in turn. No run replaces a definition of a module.

Deadlock is checked for the locks, the cache and the flow engine, where actors
come again; it is off where calls are bounded (migrations, logging, service,
grid) or everything runs once (units of work, scopes, scrolls).

Action properties: `EndsItsOwn`, `OuterWritesSurvive`, `FinalStands`,
`OnDeleteHonoured`. Liveness: `EveryCallReturns`, `WaiterIsServed`, `RunsEnd`,
`SetupReturns`, `RequestsEnd`. Refinement: `ImplementsMutex`, `ImplementsJournal`.
`TypeOK` (`ScopeTypeOK`, `ScrollTypeOK`) is proved for every module and therefore
in no run.

The source's mistakes the properties would notice are kept beside the
definitions they change, each as an operator marked `Mutant`; none is used by a
specification, and each property has one it fails on.

## 4. Where code and documentation disagree

`unit_of_work_settled` is a run. The others are stated as properties of their
modules, hold in no run, and TLC refutes each in seconds with the change of the
`.cfg` that the last column names (and the property in place of the others).

| | What a page says | What the code does | Refuted by |
|---|---|---|---|
| 1 | `docs/database.md:212`: leaving a `session()` with uncommitted ORM writes raises | `after_commit` and `after_soft_rollback` fire for savepoints too and clear `_written`; the block then returns and its writes are gone. `FlatSessionsRaise` holds: without savepoints none is forgotten | `UncommittedRaises`, `UnitOfWorkSettled.cfg` |
| 2 | `docs/database.md:104`: a `transaction()` is committed "when the block exits cleanly" | after a failed statement that the block caught, COMMIT is answered by a rollback without an error. `ContainedFailuresCommit` holds: failures inside savepoints do no harm | `CleanExitCommits`, `UnitOfWork.cfg` |
| 3 | `docs/database.md:110`: "entering it twice raises" | `__aenter__` overwrites `_opened` and opens another unit. `EndsItsOwn` holds for the blocks that share a scope with none | `OpensOneUnit`, `UnitScope.cfg` |
| 4 | `docs/cache.md:132`: the refresh is locked for 10 s, "so one process refreshes at a time" | the lock is neither renewed nor checked; a function slower than it is refreshed twice. `OneRefreshWithinLock` states what does hold | `OneProcessRefreshes`, `SwrCache.cfg` |
| 5 | `docs/database.md:286`: "hand `next_cursor` back as `cursor`" | over a `time` or an `interval` column the cursor comes back as text and Postgres refuses the comparison | `CursorResumes`, `Keyset.cfg` |
| 6 | `docs/log.md:111`: in queue mode "the context filter runs on the *emitting* side"; `:33`: `setup_logging` is idempotent | handlers that went through a set-up without a queue keep its filter; handed to one with a queue they stamp again on the listener's thread, and the trace is lost | `WrittenAsMeant`, `Logging.cfg` with `Reuse = TRUE` |
| 7 | `docs/log.md:60-61`: add `TraceIDMiddleware` "before other middleware so the trace id is set first" | what is added first ends up innermost: an envelope added after it is outside the scope and carries no id. `create_app` has the order right | `EnvelopesTraced`, `Service.cfg` with `Order <- AssembledOrder` |
| 8 | `backlog/docs/flow.md:3`: steps "that survive process restarts" | a process that ends between two steps leaves a run `running` without a row that a tick would reclaim or revive. `StrandedBetweenRows` says where else that happens | `SurvivesRestarts`, `Flow.cfg` |
| 9 | `backlog/core/flow/runtime/replay.py:69`: the driver picks the run up "after the step's backoff window" | the claim looks at the status alone, and a revived run retries at once | `BackoffHonoured`, `Flow.cfg` |

Also `docs/log.md:216` says a second `queue=True` starts another listener thread;
the code stops the first (`Install` comes after `Joined`), which is better than
promised.

What the flow and grid models showed beside that, and where the properties make
an exception for it:

- Two workers that execute one run at once (`contested`: after a lost leader
  lock, or a revival) do not repeat a body, but each writes the run's status and
  output: the one behind saves its partial state over the final one. A cancel is
  overwritten the same way (`cancelled`).
- A signal is lost between the transaction that consumes it (`signals.py:103`) and
  the one that completes the wait (`replay.py:364`): by a death, and as well when
  the second, or the answer to the first, fails in a live process (`spilled`).
- A run is left `running`, and nothing takes it up again, when its executor ends
  between two rows, but also with every process alive (`adrift`): when the write
  of its status `failed` or `cancelled` fails (`replay.py:695-706`), when
  `fetch_run` does (`:412`), or when the tick that claimed it failed after its
  commit (`driver.py:156`). A failing write of `pending` after a retry does no
  harm, its row revives the run; one of `completed` ends the run as `failed`.
- A run recorded as `completed` is turned into `failed` when that write's answer,
  or the event after it, is lost (`replay.py:672-673`, then `:706`): both are in the
  `try` whose handler fails the run. `FinalStands` names this one exception.
- A step is claimed at most as often as its node allows and once more for each
  fault: a death, a late heartbeat or a failing statement each costs an attempt
  that is not the step's fault (`AttemptsWithinLimit`), and what is granted on a
  count that another worker moved is within that.
- A failed completion of a step whose body ran leaves its row `running`; the run is
  `failed` all the same, without another attempt.
- `_clear_ref` sets a list cell to `None` for one archived target (`blanked`): the
  other targets stay as edges only, against `rows.py:159`, "the edge set equals the
  payload". `relate` and `unrelate` on a relation with a ref column do the same
  from the other side (`bypassed`).
- An archive that overlaps a patch or relate of a row it reads can leave an edge
  to an archived row, and a patch writes the whole payload it read over what
  the archive cleared (`met`): nothing locks what was only read.

## 5. Fairness

Only the liveness properties need it, and only for what the library, its event
loop and the outside do by themselves: nobody has to call, and nothing has to
fail, crash or die.

- `Migrations`: weak fairness of a runner's own next step (an event loop runs a
  ready coroutine, a statement returns) and strong fairness of `Acquire`:
  Postgres queues the waiters of a lock first come, first served, so one cannot
  be overtaken for ever while the lock is repeatedly free.
- `AdvisoryLock`: the same for `Grant`; weak fairness of the release's
  statements, of the answers of a broken connection, and of `Exit` - the blocks
  under a lock end, without which no waiter is ever served. `Enter` is not fair.
- `Flow`: the loops of `_Driver.run` and the tasks of a live process go on, a
  process that ended is started again, a body ends, the clock moves (a silent
  executor is noticed, a retry falls due), and a signal is sent while there is
  one left. No statement has to fail, and none fails for ever, as faults are
  bounded. `RunsEnd` still allows a run to wait for a signal nobody sends, and one
  to be stranded, which `StrandedBetweenRows` says of few.
- `Logging`: the listener's thread reads on, and a join returns once it ended.
- `Service`: what is ready runs, and `wait_for`'s timer fires. The service's own
  handler is promised nothing, nor a probe's success, nor a dispose.

## 6. Proofs

All theorems are for any number of runners, tasks, connections, keys, writes,
rows, levels, processes, workers, steps, requests, probes, relations, threads,
records and any bounds; what they assume are the named `ASSUME`s of the modules
(disjointness of sets, naturals, finitely many workers, NULL outside the values,
schemas a grid can have). The argument is the same each time: an inductive `IInv` holds at `Init`,
is kept by every action, and implies the property.

| Module | Properties proved | Why the invariant is what it is |
|---|---|---|
| `MigrationsProofs` | `TypeOK`, `AppliedOnce`, `LedgerMatchesSchema`, `SuccessMeansInSync`, `AppliedInOrder` | `TxnInv`: an open transaction owns the only uncommitted row of its version, and that version has no committed row. Hence no commit repeats, even without the lock. On top, `SyncInv`: a row once there stays, so what a call read and dealt with remains true (lock or no lock); and `OrderInv`: while no lock is lost whoever is past `acquire` holds it, and knows of every row, so a commit is above all others |
| `AdvisoryLockProofs` | `TypeOK`, `PooledHoldNothing`, `MutualExclusion` (which `ImplementsMutex` implies, so it is in no run), `UncommittedIsRolledBack`, `ImplementsMutex` | `ConnInv`: connections are not shared; `HeldInv`: what a backend holds it holds once, for the task that checked it out and is not past its unlock; `WorkInv`: nothing pending where a commit may follow. Each step maps to a step of `Mutex` or to none |
| `DatabaseProofs`, on `UnitOfWork` | `TypeOK`, `AllOrNothing`, `ContainedFailuresCommit`, `FlatSessionsRaise`, `OuterWritesSurvive` | `NewInv`: an object not yet sent belongs to the innermost savepoint, because setting one flushes; `AbortInv`: only a savepoint can be aborted; `WatchInv`: flat sessions have every sent write in the watch; `EndInv`, `KeptInv`, `FlatInv` |
| on `UnitScope` | `ScopeTypeOK`, `OpenWhileItRuns`, `EndsItsOwn`, with no assumption on how scopes are entered | `RunInv`: where a block runs, the field of its scope holds its unit, or that of another which is in `shared` with it; `EndingInv`: a block waits for the end of its own unit, or of one in `shared` with it; `UnusedInv`: nothing refers to a block not entered. Of blocks in `shared` nothing is said (disagreement 3) |
| on `Keyset` | `ScrollTypeOK`, `NothingTwice`, `NothingSkipped`, and that the predicate is the order (`PredicateIsOrder`) | `Precedes` is a strict total order (lemmas); what was served and stayed put is not after the cursor (`BehindInv`), what is to come is (`AheadInv`) |
| `SwrCacheProofs` | `TypeOK`, `BoundedStaleness`, `OneRefreshWithinLock`, `NoRefreshAfterShutdown`, for any times to live and durations | `AgeInv`: what a fetch holds is overdue by at most the time it has taken; `LockInv`: the time the lock has left and the time its holder has used - a request waiting for the answer to its SET, or the refresh it became - are at least the lock's, and one holder at most is still within it; `TaskInv`: an active refresh is tracked |
| `FlowProofs` | `TypeOK`, `OneBodyAtATime`, `CompletedIsWhole`, `AttemptsWithinLimit`, `FinalStands`, `ReportsWhatItDid`, `SignalsKept`, `StrandedBetweenRows`, `ImplementsJournal`, for any number of faults and finitely many workers | `SoundInv`: of a run no live executor of which was late, the executors' states replay from the rows, agree as far as both go, and a step held by one is `running` in its row, so the claim's compare-and-swap keeps all others out. `BudgetInv`, for every run: what a row has used of its attempts, and how many executors hold it, is bounded by the faults so far, less the workers that are stopped but not yet drained; a row that can be claimed again has one attempt and one holder in hand. `FinalInv`: of a run no two workers executed at once there is one executor at most, none but a leaving one once the run has ended (or one that failed to learn it completed it), and what it reported replays from the rows. `HistoryInv`: every completed row is on one history, so whatever replays is a beginning of it and the longest replay is the record; only completing a step extends it. `SignalInv`: one executor at most carries a signal, and its row was not yet completed. `LivelyInv`: an executor meets a failed row only when the run is over or about to be, so one that loses a claim leaves a running row, and one that requeues a pending row, for the next tick |
| `ServiceProofs` | `TypeOK`, `OneResponse`, `ReadyIsTrue`, `DefaultUsable`, `HandlesAccountedFor`; `ErrorsEnveloped`, `EnvelopesTraced` assuming that the envelope is innermost (as in `create_app`) | `HandleInv`: a call of `init_engine` awaits a handle that is no longer the default, and what replaced the handle a close awaits is in `raced`. `ResponseInv`: for each place a request can be in, what was sent is one of a few shapes, `started` is true to it where the envelope saw it, and a probe that passed is in `seen` |
| `LoggingProofs` | `TypeOK`, `ContextFollowsScopes`, `DrainedInOrder`; `WrittenAsMeant` assuming `~Reuse` (disagreement 6 is what happens otherwise) | No action changes variables of both the scopes and the records, so each half has its own invariant. `NestInv`: what a block saved is what the block around it says, in every part it will put back - and, for a `scope` or a `fields` block, what it does not touch is the same inside and around. A `set_trace_id` changes the trace inside a block and around it together, up to the first block that restores it. `OrderInv`, `QueueInv`: numbers put what is written before what is queued before what is being logged, and a record is written by its own thread only when none of that thread's is queued, because what it found after queueing one is a queueing handler too: the root has no other while a listener runs (`ModeInv`). `DrainInv`: what was accepted is written or ahead of the sentinel |
| `GridRowsProofs` | `TypeOK`, `CardinalityHolds`, `ReferencesHold`, `OnDeleteHonoured` | `CardinalityHolds` is inductive: a commit tests the edges as they are by then. The others rest on what an operation read: `Current` lists the reads it relies on (rows live, the payload it patches, the edges it syncs, an archive's plan covers every edge at the rows it visited), `MetInv` says they are still true while no two operations met, and `CommitElsewhere` why: another commit changes no row, cell or edge in its footprint. `OpInv` holds whatever others do: the shape of an operation at each of its places |

`CompletedIsWhole`, `OpenWhileItRuns`, `MutualExclusion` and `DefaultUsable` are
theorems, and for that reason in no run.

Only model-checked:

- liveness, which is out of the prover's reach: `EveryCallReturns`,
  `WaiterIsServed`, `RunsEnd`, `SetupReturns`, `RequestsEnd`.

Every invariant, action property and refinement that a passing run checks is a
theorem. What the theorems take as given is what the modules take as given: that
the models are right about the code, and section 7. The number of records logged
so far is a fold over threads, whose value for every set of threads would need an
induction over data; it only bounds `Log`, so the proofs leave it unexpanded.

The refuted properties of section 4 are of course not theorems.

## 7. What is assumed of the outside

These are modelled from how the library uses them, and marked external in `map`:

- **Postgres**: a session-level lock belongs to a backend, is counted, survives
  rollback and ends with the backend; a primary key makes a second inserter of a
  value wait; ALTER TABLE waits for open inserts; after an error a transaction
  refuses all but a rollback, and COMMIT then rolls back without an error; NULL
  sorts above every value.
- **SQLAlchemy**: `begin_nested` flushes first; a failed flush rolls the
  innermost transaction back and leaves it inactive; `after_commit` and
  `after_soft_rollback` fire for savepoints; a cancelled or broken statement
  invalidates its connection; a pool rolls back on return and gives up waiting
  after a timeout. At READ COMMITTED a statement sees what was committed before
  it, an UPDATE locks its row, and a unique index refuses the second of two.
- **logging**: `QueueListener.stop` queues a sentinel and joins the thread;
  handlers run their filters on the thread that calls them.
- **Starlette**: an exception nothing caught is answered with a plain 500 if no
  response has started, and otherwise ends the connection; the last middleware
  added is the outermost.
- **Redis**: a key expires by its time to live; a command that raised may have
  taken effect.
- **contextlib**: leaving the context manager of an exhausted generator is
  silent.

## 8. Not modelled

`PROJECT.json` lists every component with its reason. In short:

- Pure text and value code (formatters, identifiers, DDL, filters, error and type
  classes, ISO dates) has no state to get wrong between steps; key functions of
  locks and caches are hashes; offset pagination (`crud.py:228`, a count and a
  select) promises nothing about concurrent writers; `xact_lock` is a statement of
  the caller's transaction; `commit()` called inside a savepoint of a `session()`
  is left out of `UnitOfWork`.
- `storage`: single calls. `ensure_bucket` (`client.py:126`) looks and then creates,
  so one of two processes that start at once gets an error; nothing is kept.
- A replaced engine is disposed while sessions opened from it may be at work
  (`connection.py:127`); SQLAlchemy leaves their connections open until they are
  returned, and the pool is not followed across engines.
- Everything under `backlog/` is set aside by its own README ("Nothing here is
  built, tested"). Its driver and executors and its row writes are modelled all
  the same, as the most concurrent code of the repository. Left out there:
  schedules (`driver.py:184` commits that a run is due and then starts it, so a
  death in between loses one firing, and a second leader repeats one), child runs
  (a `spawn` repeated after a crash makes a second child), retention, streams,
  batches of rows, field types, hooks, read queries, the facades and the agent's
  command line.
- The reconciliation of grid indexes (`write/schema.py`, `persist/reconcile`): its
  metadata is committed before the indexes are built outside a transaction. Read
  but not modelled: a build that failed leaves an index that a later `CREATE ... IF
  NOT EXISTS` takes for a good one, and a process that dies between the two phases
  leaves a `pending` index that no later sweep (for `invalid` ones) picks up.

Hazards without a property carry a note, and so do those a property covers in
part. What the properties exempt, because the code does not prevent it:

| Exempted | By | Properties that say nothing of it |
|---|---|---|
| a statement that fails outside a savepoint and is caught | `swallows` | `ContainedFailuresCommit` (disagreement 2) |
| two blocks at once in one kept scope | `shared` | `EndsItsOwn`, `OpenWhileItRuns` (disagreement 3) |
| a request that runs on after its process began to shut down | no such step | `NoRefreshAfterShutdown` |
| target handlers handed from one `setup_logging` to another | `Reuse = FALSE` | `WrittenAsMeant` (disagreement 6) |
| a handle installed under a close, or whose dispose failed | `raced`, `failed` | `HandlesAccountedFor` |
| operations of two sessions that met on a row | `met` | `ReferencesHold`, `OnDeleteHonoured` |
| a live executor whose heartbeat came late | `lapsed` | `OneBodyAtATime`, `ReportsWhatItDid`, `SignalsKept`, `ImplementsJournal`; not `AttemptsWithinLimit` |
| two executors of one run at once, a cancel | `contested`, `cancelled` | `FinalStands`, `ReportsWhatItDid`, `StrandedBetweenRows` |
| an executor that ends between a signal's two transactions, or between two rows | `spilled`, `adrift` | `SignalsKept`, `StrandedBetweenRows` |

## 9. Plan

Done: (1) `Migrations`, (2) `AdvisoryLock` over `Mutex`, (3) `SwrCache`,
(4) `UnitOfWork` and `UnitScope`, (5) `Keyset`, (6) `Flow` over `FlowJournal`,
(7) `Service` with the default handles, (8) `Logging`, (9) `GridRows`, each with
its proofs.

Next, in this order:

10. `GridIndex` - the two phases of the reconciliation with crashes between them;
    promise: an index reported live exists and is valid.
11. Schedules of the flow engine: a firing is started once, or lost only with a
    process.
12. Child runs, composed with `Flow` through the signals they end with.
