# TLA+ models of the plex-postgresql benchmark scripts

The repository has two scripts under `scripts/`. Both compare SQLite with
PostgreSQL by running writer and reader workers against a Plex library
database for a fixed time and counting successes and errors. The hard parts
are not in any algorithm. They are in the concurrency around the databases:
processes and threads that take and release database locks, exception
handlers that must leave a connection clean, and a parent that must collect
every worker's counts. These modules model that harness. The database engines
appear only as an environment: SQLite's file-lock rules and PostgreSQL's row
locks with deadlock detection.

## 1. Inventory

### `benchmark_multiprocess.py`: processes, one connection each

| Component | State | Operations | Interaction |
|---|---|---|---|
| `run_sqlite_multiprocess_test` (parent) | process list, `result_queue`, `results` dict | spawn and start 7 processes, join all, drain the queue into totals, drop the test tables | `mp.Process`, `mp.Queue` |
| `sqlite_plex_scanner` | `writes`, `errors`, a `timeout=0` connection | unguarded `CREATE TABLE`; loop: `BEGIN EXCLUSIVE`, 50 INSERTs, commit; on `OperationalError`: count, rollback; put `(name, writes, errors)` | SQLite file locks |
| `sqlite_kometa_worker`, `sqlite_pmm_worker` | same | loop: `BEGIN EXCLUSIVE`, 10 UPDATEs, commit / count, rollback | SQLite file locks |
| `sqlite_playback_worker` ×4 | `reads`, `read_errors`, `writes`, `write_errors` | guarded `CREATE TABLE`; loop: SELECT; INSERT (implicit deferred BEGIN) and commit; each in its own try | SQLite file locks |
| `run_postgresql_multiprocess_test` (parent) | as above | create the tables **before** spawning, spawn, join, collect, drop | `mp.Queue` |
| `pg_plex_scanner` | counters | loop: 20 INSERTs, commit / count, rollback | PostgreSQL |
| `pg_kometa_worker`, `pg_pmm_worker` | counters | loop: 5 (3) UPDATEs of random `metadata_items` rows in one transaction, commit / count, rollback | PostgreSQL row locks |
| `pg_playback_worker` ×4 | counters | loop: SELECT, INSERT, commit | PostgreSQL (MVCC) |
| `main` | totals | `find_plex_db` or `sys.exit(1)`; run both tests; print the error reduction as `f"{pct:.0f}%"` and per-minute rates | none |

### `benchmark_plex_stress.py`: threads in one process

| Component | State | Operations | Interaction |
|---|---|---|---|
| `run_sqlite_stress` | `StressResults` shared by all threads, `threading.Lock`, `stop_flag` | 2 scanner threads (`BEGIN EXCLUSIVE`, batch of 50, `timeout=0.1`); a Kometa thread (5 UPDATEs, `timeout=0.1`); N stream threads (2 SELECTs, INSERT and commit, `timeout=0.05`); main thread sleeps, sets `stop_flag`, joins | lock-protected counters, SQLite busy timeouts |
| `run_postgresql_stress` | `StressResults`, lock, `stop_flag`, `ThreadedConnectionPool(1, N+10)` | the same threads with `getconn`/`putconn` in `try/finally` | pool, lock, row locks |
| `print_results`, `main` | totals | error rate with `max(...,1)`, speed-up guarded by `sqlite_total > 0` | none |

`find_plex_db` (the first candidate path that exists, or `None`) is the first step of both `main`s. `PG_CONFIG` is read from the environment at import.

### Hard behaviours

* **Interleavings of processes over database locks.** With `timeout=0` every
  refused lock is an immediate error, and which statements are refused depends on
  how the processes interleave and on the journal mode (WAL, or a rollback
  journal where readers block COMMIT).
* **Partial failure.** The SQLite scanner's `CREATE TABLE` (line 73) is outside
  the `try`. If it is refused, the process dies and the parent reports totals
  without it. Every `except` branch must roll back, or the connection keeps
  its lock, or an aborted PostgreSQL transaction, into the next pass.
* **Deadlock.** The PostgreSQL Kometa and PMM workers lock several random rows in
  one transaction, in no fixed order.
* **Fan-in.** The parent reads 3-tuples and 5-tuples from the queue after
  `join`. It has to add them up correctly and must not wait for tuples that
  never come.
* **Threads** (`benchmark_plex_stress.py`): shared counters under a lock, busy
  timeouts, a stop flag read only at the loop head, and a bounded connection pool.

### What makes each part correct

* A worker's reported `writes` are exactly the rows the database committed for it.
* No worker reaches its next pass holding a lock or an open or aborted transaction.
* The parent's totals are the sums of what the processes reported, and every
  spawned process reports.
* The run always terminates.
* The claims the scripts print are true ("all processes can write
  simultaneously" on PostgreSQL).
* For threads: no lost counter update, the pool is never exhausted, and
  `stop_flag` ends every thread.

## 2. Modules

| Module | Models | Notes |
|---|---|---|
| `SqliteLocks` | SQLite's lock levels (NONE, SHARED, RESERVED, PENDING, EXCLUSIVE) and WAL's single write lock | The environment, written from SQLite's documented rules, not from this repository. It has no `map` entries. |
| `ResultTotals` | the fan-in: `results` dict, `AddItem` dispatch on `len(item) == 3` | Shared by both parents. |
| `MPSqlite` | the SQLite half of `benchmark_multiprocess.py` (lines 66–219, 356–407) | Composes `SqliteLocks` and `ResultTotals`. |
| `MPPostgres` | the PostgreSQL half (lines 226–349, 410–480) | Composes `ResultTotals` and uses `Relation!TransitiveClosure` for the server's wait-for cycle check. |
| `StressSqlite` | `run_sqlite_stress` of `benchmark_plex_stress.py` (lines 62–259) | Threads with busy timeouts and the lock-protected `StressResults`. Composes `SqliteLocks`. |
| `StressPostgres` | `run_postgresql_stress` (lines 262–438) | The connection pool, the failure paths of every thread, the `finally` blocks. |
| `FanIn` | what both multi-process parents promise: each process ends, by reporting or by dying, and the counts of the reporters are added once, by name, after all have ended | The abstract specification. `MPSqlite` and `MPPostgres` instantiate it (`FI == INSTANCE FanIn WITH ...`) and check `FanInRefined == FI!Spec`. |
| `StressTally` | what both threaded stress functions promise of the `StressResults` they return: only a live thread adds to a counter, one field at a time and only upward; `stop_flag` ends every thread; the counters are returned once none is left | The abstract specification. `StressSqlite` and `StressPostgres` instantiate it (`SR == INSTANCE StressTally WITH ...`) and check `TallyRefined == SR!Spec`. |
| `MPSummary` | `main` of `benchmark_multiprocess.py` (lines 483–548) and its `find_plex_db` | The two tests are abstracted to the error totals they return. The reduction percentage is kept with its `:.0f` rounding, `RoundHalfEven`, which `MCMPSummary` checks against a reference definition over p ≤ 400, q ≤ 40 (an `ASSUME` that TLC evaluates). |
| `StressSummary` | `print_results` and `main` of `benchmark_plex_stress.py` (lines 441–520) and its `find_plex_db` | The two stress runs are abstracted to the `StressResults` they return. Every division is a pair `<<numerator, divisor>>`, and a zero divisor is a `ZeroDivisionError` (`step = "crashed"`). |
| `MCMPSqlite`, `MCMPPostgres`, `MCStressSqlite`, `MCStressPostgres`, `MCMPSummary`, `MCStressSummary` | model values for processes, threads and rows; small sets of results for the summaries | |

### How the code maps to the model

* Each worker's program counter `pc[w]` follows its source:
  `create → loop → (commit | fetch → insert → commit) → loop … → done`, or
  `crashed`.
* The loop `while time.time() < end_time` becomes a loop head that may exit
  at any time (`Report`). `MaxIter` bounds the number of passes.
* A statement and the `except` branch that follows it are one action: the
  failure, the counter increment and `conn.rollback()` happen together. A
  successful commit is one action with its counter increment and the sleep.
  The lock held between `BEGIN EXCLUSIVE` and `commit` is visible to the
  other processes: they are separate actions.
* `lk[w]` is the lock level of `w`'s connection and `txn[w]` is sqlite3's
  `in_transaction`. The journal mode `wal` is chosen in `Init`, so every run
  covers both modes.
* `committed[w]` is what the database holds from `w`. `writes`, `errors`,
  `reads` and `readErrors` are the worker's local counters.
* `queue` is `result_queue` and holds the tuples exactly as put. `results`
  is the parent's dict, and `reported` records whose tuples were taken.
* PostgreSQL: `holds[w]` are the row locks of `w`'s open transaction,
  `waiting[w]` is the row its UPDATE waits for, and `aborted[w]` means the
  server has aborted the transaction. `random.randint(1, 50000)` becomes a
  choice from the small set `Rows`, because only collisions matter. INSERTs
  into the fresh SERIAL tables and the MVCC SELECTs never wait. So the
  scanner's pass is one action, and a stream's pass is two: the SELECT
  (`PlaybackRead`) and the INSERT with its commit (`PlaybackWrite`).
* PostgreSQL fault model: a scanner or stream statement may raise, up to
  `MaxFaults` times. It raises either an error, which aborts the transaction
  (`aborted`), or a lost connection (`broken`), after which every statement
  raises, `conn.rollback()` included. That rollback is outside any `try`, so
  the process dies (`died`) without putting its tuple. A stream's failed
  SELECT leaves `aborted` set, because its except branch has no rollback.
  The INSERT then raises InFailedSqlTransaction. Kometa's and PMM's
  statement errors go through the same except branch as the deadlock abort,
  which is modelled, so they add no new path.

* `StressSqlite`: the threads follow their loops (`loop → busy_begin →
  commit → tally → store → loop` for scanners and Kometa; `loop → reading |
  busy_read → insert | busy_insert → commit | busy_commit → …` for streams).
  A refused statement enters SQLite's busy handler (`busy_*`). From there it
  is either granted, once the blocking lock is gone, or times out while the
  lock is still held. A rollback-journal COMMIT or BEGIN EXCLUSIVE that waits
  for readers holds PENDING while it waits. A timed-out COMMIT keeps PENDING
  until `conn.rollback()`, which runs only after the error has been counted.
  Every `with lock: results.f += n` is two steps, `TallyLoad` (take the lock,
  read the field) and `TallyStore` (write the sum, release the lock). The
  ghost `due` sums every increment begun, so a lost update shows as
  `results # due`. The two SELECTs of a stream pass are one read, because
  either one failing gives the same result (one read error).

* `StressPostgres`: `used` is the set of threads holding a pool connection.
  `getconn` refuses once `maxconn = |Streams| + 10` are in use. Under MVCC
  none of these statements waits on another thread (the scanners insert into
  a SERIAL table, and Kometa is the only updater). So each pass is one step,
  with its `with lock:` tally, which the lock makes atomic; the lost-update
  race is already checked in `StressSqlite`. The fault model: any statement
  may raise, up to `MaxFaults` times. It raises either an error, which aborts
  the psycopg2 transaction (`txn`), or a lost connection (`broken`), after
  which every statement raises, `conn.rollback()` included. That rollback is
  not inside a `try`, so it ends the thread through its `finally: putconn`.
* Refinement: the mapping sends `status[w]` to "reported" once `pc[w] =
  "done"` (the tuple is put), and to "died" for a crashed SQLite scanner or a PostgreSQL process whose rollback raised. `sent[w]`
  is the worker's final counters by name, `totals` is the parent's `results`,
  and `phase` is "collected" once the queue has been drained. Because FanIn
  has no queue and no positional tuples, the check shows that the tuple
  encoding and the `len(item) == 3` dispatch lose nothing. It also shows that
  the collection happens once, after every join.
* Stress refinement: `StressTally`'s `results` is `StressResults` itself,
  `live` is the set of threads not yet out of their loop (in `StressPostgres`
  also not dead and not refused by the pool), `stopped` is `stop_flag`, and
  `returned` is the main thread's `done`. A `TallyStore` is the abstract
  `Count`, which only requires the field to grow. The abstract
  specification has no load and store, so it cannot say that the amount is
  added to the current value: a lost update that still raises the counter
  refines `Count`. That case is `CountersMatchDatabase`'s, which compares
  the counters with the sum of every `+=` a thread made (run `stress_sqlite`,
  whose mutant drops the `with lock:` around the load).
* Summaries: `step` follows `main`: `find → SQLite → PostgreSQL → summary →
  done`, or `exit` when `find_plex_db` returns `None`. Each run is one step
  that picks its result from the constant set `Results`. The `MCResults`
  sets include the empty result (no pass was made before `stop_flag`) and,
  for `MPSummary`, totals around 200 errors, where half a percent is one
  failure. These models have no fairness, because only safety is checked,
  and they stop where `main` returns (`CHECK_DEADLOCK FALSE`).

### Fairness

Each process is weakly fair (`WF_vars(Worker(w))`), and so is the parent: the
OS scheduler runs every live process. Under `timeout=0` no SQLite worker ever
waits on a lock, so weak fairness is enough. In `StressSqlite` every thread
is weakly fair as well. A busy wait always ends, either granted or timed out,
so a blocked thread always has an enabled step. The main thread's
`time.sleep(duration); stop_flag.set()` is weakly fair too. `MaxIter` caps
the passes made before the flag is set. A thread at the cap waits for
`stop_flag`, which is what a short `duration` produces. The same holds for
`StressPostgres`, whose threads never wait on one another. `FanIn` states as
a temporal conjunct that every worker eventually ends. How long a worker runs
is not the parent's to decide, so its fairness is on `Collect` alone. In
`StressTally` the main thread's `Stop` and `Return` are weakly fair, and
`stopped ~> t \notin live` says that `stop_flag` ends every thread. It does
not say that a thread runs forever before it: a thread may end early.

## 3. Runs

| Run | cfg | Expect | What it shows |
|---|---|---|---|
| `sqlite_main` | `MCMPSqlite.cfg`: scanner, Kometa, 2 streams, `MaxIter = 1`, both journal modes | pass | `CountsMatchCommitted`: a stream whose COMMIT another stream's SHARED lock refuses does not count the write. `NoTransactionAtLoopHead`: every failure path (no table, INSERT refused, COMMIT refused, BEGIN EXCLUSIVE refused) leaves the connection unlocked. `FanInRefined`: the parent implements `FanIn`, so the totals are the sums over the processes that reported, added once each, and the parent reaches the summary even when the scanner died. `TypeOK` also says every result tuple has its three fields. |
| `sqlite_report` | `MCMPSqliteReport.cfg` | violation | `AllWorkersReported` fails. Kometa takes `BEGIN EXCLUSIVE` before the scanner's unguarded `CREATE TABLE`, the scanner dies, and the totals omit it. |
| `stress_sqlite` | `MCStressSqlite.cfg`: one scanner, Kometa, 2 streams, `MaxIter = 1`, both journal modes | pass | `CountersMatchDatabase`: after the joins, `StressResults` equals the sum of every `+=` (none lost), and its write counters equal the rows committed. `NoLockAtLoopHead`: a timed-out COMMIT's PENDING lock, and any other lock, is gone before the next pass. `StressFinishes`: `stop_flag` ends every thread, and join and cleanup complete. `TypeOK` also says that only a thread inside its `with lock:` holds the lock. |
| `sqlite_table` | `MCMPSqliteTable.cfg` | violation | `WriteErrorsAreLockErrors` fails. The run starts without `mp_stress_progress`, because the previous cleanup dropped it. Kometa's `BEGIN EXCLUSIVE` refuses the stream's guarded `CREATE TABLE`, and the stream's INSERTs fail with "no such table", which is counted as a write error. |
| `pg_faults` | `MCMPPostgresFaults.cfg`: scanner, Kometa, PMM, 1 stream, `Rows = {r1, r2}`, `MaxIter = 1`, `MaxFaults = 2` | pass | `CountsMatchCommitted`: a batch aborted as a deadlock victim, or failed by a fault, is neither counted nor durable. `NoTransactionAtLoopHead`: every failed pass, including a stream's INSERT poisoned by its SELECT, is rolled back before the next, and no pass carries row locks into the next. `FanInRefined`: the parent implements `FanIn`, with deadlock victims and dead processes: a process whose rollback raised on a lost connection drops out of the totals without corrupting them, and `p.join()` returns for a dead process too, so the parent always collects. One pass each keeps the run under a minute. With two passes and one fault it takes three minutes. |
| `pg_read` | `MCMPPostgresRead.cfg` | violation | `WriteNotPoisonedByRead` fails. The stream's SELECT raises, and the same pass's INSERT runs in the aborted transaction. |
| `stress_sqlite_tally` | `MCStressSqlite.cfg` with one stream (`MCStressSqliteTally.cfg`) | pass | `TallyRefined`: `run_sqlite_stress` implements `StressTally`, including the counters' atomicity under `threading.Lock`. With `stress_sqlite`'s two streams the liveness part of the refinement takes four and a half minutes. One stream keeps the scanner's and Kometa's overlapping tallies of `scan_writes`. |
| `stress_pg` | `MCStressPostgres.cfg`: 2 scanners, Kometa, 1 stream, `MaxIter = 2`, `MaxFaults = 2` | pass | `PoolNeverExhausted`: no `getconn` raises, neither a thread's nor the cleanup's. `NoLeakedConnection`: a thread holds a connection exactly while it runs its loop, even one killed by a raising `rollback`. `TallyRefined`: only live threads add to the counters, and the function always returns once every thread, a dead one included, has ended. |
| `stress_pg_read` | `MCStressPostgresRead.cfg` | violation | `WriteNotPoisonedByRead` fails. A failed SELECT leaves the transaction aborted, because the read `except` branch has no rollback, and the INSERT of the same pass fails on it. |
| `mp_summary_pct` | `MCMPSummaryPct.cfg`: seven error totals per test | violation | `FewerPctTruthful` fails. With 201 SQLite errors and 1 PostgreSQL error, `main` prints "PostgreSQL: 100% fewer errors (200 fewer failures)". |
| `stress_summary` | `MCStressSummary.cfg`: seven `StressResults` per run, the empty one included | pass | `NoZeroDivision`: neither `print_results` nor the summary table nor the speed-up divides by zero, even after a run that did nothing. |
| `pg_deadlock` | `MCMPPostgresDeadlock.cfg` | violation | `UpdatersNeverFail` fails. Kometa locks r2 and PMM locks r1, then each waits for the other's row, and the server aborts one of them. |

Every property of a passing run has a mutant in `PROJECT.json`: a variant
operator defined next to the original, for example a missing
`conn.rollback()`, a `writes += 1` before `conn.commit()`, a forgotten
`conn.commit()`, a tuple missing a field, draining the result queue before
every process has ended, a `+=` outside `with lock:`, or joining before
`stop_flag.set()`, `putconn` after the loop instead of in `finally`, a pool
margin of 2, forgetting to join the stream threads, or an error rate
without `max(..., 1)`. TLC finds the property violated for each one.

**Bounds.** One pass per worker is enough in the passing multi-process
runs. The invariants about leftover locks and transactions are checked at
the loop head, the state the next pass would inherit. So a failed pass that
leaves one behind is caught before a second pass starts. The second pass
costs minutes of checking and shows nothing new. In the threaded model one
pass per thread is enough as well: the scanner and Kometa both add to
`scan_writes`, so their tallies can race, and the two streams can refuse each
other's COMMIT. The second scanner of the code adds nothing new. Two rows are enough
for two transactions to take them in opposite orders. Two streams are the
fewest that can refuse each other's COMMIT. The batch sizes (50, 10, 5, 3,
20) are kept because they are only counters. `StressPostgres` keeps the
code's two scanners, because the pool bound is about how many threads hold a
connection at once. Two faults are enough for an error and then a lost
connection in the same run.

## 4. Findings

1. **code_bug**: `benchmark_multiprocess.py:73`. The SQLite scanner can die
   at setup, and the report silently omits it (`sqlite_report`). The
   PostgreSQL path creates its tables before spawning for exactly this reason
   (line 417).
2. **spec_code_divergence**: `benchmark_multiprocess.py:266`. The claim that
   all processes can write simultaneously on PostgreSQL is false for
   Kometa/PMM: they block on each other and can deadlock (`pg_deadlock`).
3. **code_bug**: `benchmark_multiprocess.py:186`. A stream's failed `CREATE
   TABLE mp_stress_progress` is swallowed. Each run starts without the table,
   because the last cleanup dropped it, so a lock held by Kometa or PMM at
   that moment makes every INSERT of that stream fail with "no such table".
   Those failures are counted as lock-contention write errors
   (`sqlite_table`).
4. **code_bug**: `benchmark_plex_stress.py:383` (and
   `benchmark_multiprocess.py:332`). The PostgreSQL stream's read `except`
   branch does not roll back. After a read error, the INSERT of the same pass
   fails with "current transaction is aborted", so one server error is
   counted as both a read error and a write error (`stress_pg_read`). The
   multi-process stream has the same branch (`pg_read`).
5. **code_bug**: `benchmark_multiprocess.py:528`. The "N% fewer errors"
   line rounds with `:.0f`, which rounds half to even. With 201 SQLite errors
   and 1 PostgreSQL error it reads "100% fewer errors (200 fewer failures)".
   With 200 and 199 it reads "0% fewer errors (1 fewer failures)". In both
   cases the percentage contradicts the count beside it (`mp_summary_pct`).

## 5. Not modelled, and why

* **The summaries' printed digits.** `StressSummary` keeps every quotient
  exactly, because its properties are about division by zero and about two
  copies of one formula. The `.1f` formatting of rates and speed-up is left
  out. `MPSummary` keeps only the error totals and the reduction line. Its
  per-minute and hourly projections divide by the constant 15 and are only
  printed.
* **Kometa/PMM statement errors other than the deadlock abort** in
  `MPPostgres`. They take the same except branch as the deadlock victim,
  which is modelled, so they would add states and no new behaviour.
* **A connection lost during `conn.commit()`**, where the server may have
  committed. The script counts this as an error either way. The model's
  lost connection happens before the commit reaches the server.

Not modelled at all: colour and formatting of the printed report;
`PG_CONFIG` and `PG_SCHEMA` (environment reads at import); in `StressSqlite`, a database without Plex's `metadata_items` table (the script is pointed at a real Plex library); failures of `psycopg2.connect`; SQLite WAL
checkpoints and hot-journal recovery; the real contents of rows.
