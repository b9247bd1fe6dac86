------------------------------ MODULE MPSqlite ------------------------------
(***************************************************************************)
(* The SQLite half of scripts/benchmark_multiprocess.py: the parent        *)
(* run_sqlite_multiprocess_test spawns one library scanner, the metadata   *)
(* updaters (Kometa, PMM) and the playback streams as separate processes,  *)
(* each with its own sqlite3 connection opened with timeout=0; it joins    *)
(* them, drains the result queue into totals and drops the test tables.   *)
(* A worker's loop "while time.time() < end_time" is modelled by letting   *)
(* the loop head exit at any time and by a bound MaxIter on the passes.    *)
(***************************************************************************)
EXTENDS Integers, SequencesExt, SqliteLocks, ResultTotals

CONSTANTS
    Scanner,    \* the sqlite_plex_scanner process
    Updaters,   \* the sqlite_kometa_worker and sqlite_pmm_worker processes
    Streams,    \* the sqlite_playback_worker processes
    MaxIter     \* bound on the passes of one worker's loop (its duration)

ASSUME /\ Scanner \notin Updaters \cup Streams
       /\ Updaters \cap Streams = {}
       /\ MaxIter \in Nat \ {0}

Workers == {Scanner} \cup Updaters \cup Streams

\* Rows written per committed batch: range(50) in the scanner, range(10) in
\* the Kometa and PMM workers.
BatchSize(w) == IF w = Scanner THEN 50 ELSE 10

Tables == {"mp_stress_scan", "mp_stress_progress"}

VARIABLES
    ppc,          \* where the parent process is
    pc,           \* where each worker process is
    wal,          \* the journal mode of the Plex database file
    lk,           \* SQLite lock level held by each worker's connection
    txn,          \* the connection's in_transaction
    uncommitted,  \* rows written in the open transaction
    committed,    \* rows the database holds from each worker
    writes,       \* the worker's local counter "writes"
    errors,       \* "errors" (writers) or "write_errors" (streams)
    reads,        \* a stream's "reads"
    readErrors,   \* a stream's "read_errors"
    missing,      \* a stream's write errors caused by a missing table (ghost)
    iters,        \* passes through the loop so far
    tables,       \* test tables that exist in the database
    queue,        \* result_queue, the tuples put and not yet taken
    results,      \* the parent's dict of totals
    reported      \* workers whose tuple the parent has taken

conn == <<lk, txn, uncommitted, committed>>
counters == <<writes, errors, reads, readErrors, missing, iters>>
vars == <<ppc, pc, wal, conn, counters, tables, queue, results, reported>>

Init ==
    /\ ppc = "start"
    /\ pc = [w \in Workers |-> "new"]
    /\ wal \in BOOLEAN
    /\ lk = [w \in Workers |-> "none"]
    /\ txn = [w \in Workers |-> FALSE]
    /\ uncommitted = [w \in Workers |-> 0]
    /\ committed = [w \in Workers |-> 0]
    /\ writes = [w \in Workers |-> 0]
    /\ errors = [w \in Workers |-> 0]
    /\ reads = [w \in Workers |-> 0]
    /\ readErrors = [w \in Workers |-> 0]
    /\ missing = [w \in Workers |-> 0]
    /\ iters = [w \in Workers |-> 0]
    \* CREATE TABLE IF NOT EXISTS: an interrupted earlier run may have left them
    /\ tables \in SUBSET Tables
    /\ queue = <<>>
    /\ results = NoTotals
    /\ reported = {}

-----------------------------------------------------------------------------
(* Helpers for a step of worker w.                                          *)

Goto(w, l) == pc' = [pc EXCEPT ![w] = l]
Bump(f, w, n) == f' = [f EXCEPT ![w] = @ + n]

\* conn.rollback(): the transaction and every lock are released.
Rollback(w) ==
    /\ lk' = [lk EXCEPT ![w] = "none"]
    /\ txn' = [txn EXCEPT ![w] = FALSE]
    /\ uncommitted' = [uncommitted EXCEPT ![w] = 0]

\* A successful conn.commit(): the rows become durable, locks are released.
CommitRows(w) ==
    /\ committed' = [committed EXCEPT ![w] = @ + uncommitted[w]]
    /\ Rollback(w)

\* Start of a pass of the loop while the duration has not elapsed.
NextPass(w) == /\ pc[w] = "loop" /\ iters[w] < MaxIter /\ Bump(iters, w, 1)

-----------------------------------------------------------------------------
(* The parent, run_sqlite_multiprocess_test.                                 *)

\* mp.Process(...) for every worker, then p.start() for each.
StartWorkers ==
    /\ ppc = "start"
    /\ ppc' = "join"
    /\ pc' = [w \in Workers |-> IF w \in Updaters THEN "loop" ELSE "create"]
    /\ UNCHANGED <<wal, conn, counters, tables, queue, results, reported>>

\* p.join() for each process returns once it has exited, normally or not.
JoinWorkers ==
    /\ ppc = "join"
    /\ \A w \in Workers : pc[w] \in {"done", "crashed"}
    /\ ppc' = "collect"
    /\ UNCHANGED <<pc, wal, conn, counters, tables, queue, results, reported>>

\* Variant draining result_queue before the processes have been joined.
CollectReadyEarly == ppc \in {"join", "collect"}

\* The queue is drained after every p.join().
CollectReady == ppc = "collect"

\* while not result_queue.empty(): result_queue.get() ...
CollectResults ==
    /\ CollectReady
    /\ results' = FoldLeft(AddItem, results, queue)
    /\ reported' = Reporters(queue)
    /\ queue' = <<>>
    /\ ppc' = "cleanup"
    /\ UNCHANGED <<pc, wal, conn, counters, tables>>

\* DROP TABLE IF EXISTS on a fresh connection; every worker has exited.
DropTables ==
    /\ ppc = "cleanup"
    /\ tables' = {}
    /\ ppc' = "finished"
    /\ UNCHANGED <<pc, wal, conn, counters, queue, results, reported>>

Parent == StartWorkers \/ JoinWorkers \/ CollectResults \/ DropTables

-----------------------------------------------------------------------------
(* The scanner's setup: CREATE TABLE mp_stress_scan runs outside any try,   *)
(* so "database is locked" ends the process before it reports anything.     *)
CreateScanTable(w) ==
    /\ w = Scanner /\ pc[w] = "create"
    /\ IF CanCreate(lk, w, wal, "mp_stress_scan" \in tables)
       THEN /\ tables' = tables \cup {"mp_stress_scan"}
            /\ Goto(w, "loop")
       ELSE /\ Goto(w, "crashed") /\ UNCHANGED tables
    /\ UNCHANGED <<ppc, wal, conn, counters, queue, results, reported>>

\* The playback setup: the same statement inside try/except: pass.
CreateProgressTable(w) ==
    /\ w \in Streams /\ pc[w] = "create"
    /\ tables' = IF CanCreate(lk, w, wal, "mp_stress_progress" \in tables)
                 THEN tables \cup {"mp_stress_progress"} ELSE tables
    /\ Goto(w, "loop")
    /\ UNCHANGED <<ppc, wal, conn, counters, queue, results, reported>>

\* Variant putting a playback tuple without its write_errors field.
ResultTupleMissingField(w) ==
    IF w \in Streams THEN <<w, reads[w], readErrors[w], writes[w]>>
                     ELSE <<w, writes[w], errors[w]>>

\* (name, writes, errors) or (name, reads, read_errors, writes, write_errors)
ResultTuple(w) ==
    IF w \in Streams THEN <<w, reads[w], readErrors[w], writes[w], errors[w]>>
                     ELSE <<w, writes[w], errors[w]>>

\* Loop exit: conn.close(), then result_queue.put(tuple).
Report(w) ==
    /\ pc[w] = "loop"
    /\ queue' = Append(queue, ResultTuple(w))
    /\ Rollback(w)
    /\ Goto(w, "done")
    /\ UNCHANGED <<ppc, wal, committed, counters, tables, results, reported>>

-----------------------------------------------------------------------------
(* Scanner, Kometa and PMM: BEGIN EXCLUSIVE, a batch of statements, commit; *)
(* sqlite3.OperationalError counts an error and rolls back.                 *)
BeginExclusive(w) ==
    /\ w \notin Streams /\ NextPass(w)
    /\ \/ /\ CanExclude(lk, w, wal)
          /\ lk' = [lk EXCEPT ![w] = "exclusive"]
          /\ txn' = [txn EXCEPT ![w] = TRUE]
          /\ uncommitted' = [uncommitted EXCEPT ![w] = BatchSize(w)]
          /\ Goto(w, "commit")
          /\ UNCHANGED errors
       \/ /\ ~CanExclude(lk, w, wal)
          /\ Bump(errors, w, 1) /\ Rollback(w)
          /\ Goto(w, "loop")
    /\ UNCHANGED <<ppc, wal, committed, writes, reads, readErrors, missing, tables,
                   queue, results, reported>>

\* conn.commit() while holding the exclusive lock cannot be refused.
CommitBatch(w) ==
    /\ w \notin Streams /\ pc[w] = "commit"
    /\ CommitRows(w)
    /\ Bump(writes, w, BatchSize(w))
    /\ Goto(w, "loop")
    /\ UNCHANGED <<ppc, wal, errors, reads, readErrors, missing, iters, tables,
                   queue, results, reported>>

-----------------------------------------------------------------------------
(* A playback stream: SELECT the media item, then INSERT the watch progress *)
(* and commit; each in its own try/except sqlite3.OperationalError.         *)

\* conn.execute("SELECT ...") takes the SHARED lock for the statement.
SelectMedia(w) ==
    /\ w \in Streams /\ NextPass(w)
    /\ \/ /\ CanShare(lk, w, wal)
          /\ lk' = [lk EXCEPT ![w] = IF @ = "none" THEN "shared" ELSE @]
          /\ Goto(w, "fetch")
          /\ UNCHANGED readErrors
       \/ /\ ~CanShare(lk, w, wal)
          /\ Bump(readErrors, w, 1) /\ UNCHANGED lk
          /\ Goto(w, "insert")
    /\ UNCHANGED <<ppc, wal, txn, uncommitted, committed, writes, errors, reads, missing,
                   tables, queue, results, reported>>

\* .fetchone(), reads += 1; outside a transaction the statement's lock ends.
FetchMedia(w) ==
    /\ w \in Streams /\ pc[w] = "fetch"
    /\ Bump(reads, w, 1)
    /\ lk' = [lk EXCEPT ![w] = IF txn[w] THEN @ ELSE "none"]
    /\ Goto(w, "insert")
    /\ UNCHANGED <<ppc, wal, txn, uncommitted, committed, writes, errors,
                   readErrors, missing, iters, tables, queue, results, reported>>

\* Variant whose except branch does not call conn.rollback(): the implicit
\* BEGIN and the SHARED lock of a failed INSERT stay with the connection.
InsertFailedNoRollback(w, present) ==
    /\ lk' = [lk EXCEPT ![w] = IF present /\ @ = "none" /\ CanShare(lk, w, wal)
                               THEN "shared" ELSE @]
    /\ txn' = [txn EXCEPT ![w] = @ \/ present]
    /\ UNCHANGED uncommitted

\* except sqlite3.OperationalError: conn.rollback().
InsertFailed(w, present) == Rollback(w)

\* The INSERT: sqlite3 first issues an implicit BEGIN (deferred) unless a
\* transaction is open; the statement then needs the RESERVED lock.  With no
\* mp_stress_progress table it fails before the BEGIN.
InsertProgress(w) ==
    /\ w \in Streams /\ pc[w] = "insert"
    /\ LET present == "mp_stress_progress" \in tables
            granted == CanShare(lk, w, wal) /\ CanReserve(lk, w)
       IN \/ /\ present /\ granted
             /\ lk' = [lk EXCEPT ![w] = IF @ \in {"pending", "exclusive"}
                                        THEN @ ELSE "reserved"]
             /\ txn' = [txn EXCEPT ![w] = TRUE]
             /\ Bump(uncommitted, w, 1)
             /\ Goto(w, "commit")
             /\ UNCHANGED <<errors, missing>>
          \/ /\ ~(present /\ granted)
             /\ Bump(errors, w, 1) /\ InsertFailed(w, present)
             /\ missing' = [missing EXCEPT ![w] = @ + (IF present THEN 0 ELSE 1)]
             /\ Goto(w, "loop")
    /\ UNCHANGED <<ppc, wal, committed, writes, reads, readErrors, iters,
                   tables, queue, results, reported>>

\* Variant counting the write before conn.commit() has succeeded.
CommitProgressCountsFirst(w) ==
    /\ w \in Streams /\ pc[w] = "commit"
    /\ Bump(writes, w, 1)
    /\ \/ /\ CanExclude(lk, w, wal)
          /\ CommitRows(w)
          /\ UNCHANGED errors
       \/ /\ ~CanExclude(lk, w, wal)
          /\ Bump(errors, w, 1) /\ Rollback(w)
          /\ UNCHANGED committed
    /\ Goto(w, "loop")
    /\ UNCHANGED <<ppc, wal, reads, readErrors, missing, iters, tables, queue, results,
                   reported>>

\* conn.commit() needs the EXCLUSIVE lock; with a rollback journal a reader
\* holding SHARED makes it fail with "database is locked".  time.sleep ends
\* the pass.
CommitProgress(w) ==
    /\ w \in Streams /\ pc[w] = "commit"
    /\ \/ /\ CanExclude(lk, w, wal)
          /\ CommitRows(w) /\ Bump(writes, w, 1)
          /\ UNCHANGED errors
       \/ /\ ~CanExclude(lk, w, wal)
          /\ Bump(errors, w, 1) /\ Rollback(w)
          /\ UNCHANGED <<committed, writes>>
    /\ Goto(w, "loop")
    /\ UNCHANGED <<ppc, wal, reads, readErrors, missing, iters, tables, queue, results,
                   reported>>

Worker(w) ==
    \/ CreateScanTable(w) \/ CreateProgressTable(w)
    \/ BeginExclusive(w) \/ CommitBatch(w)
    \/ SelectMedia(w) \/ FetchMedia(w) \/ InsertProgress(w) \/ CommitProgress(w)
    \/ Report(w)

Next == Parent \/ \E w \in Workers : Worker(w)

\* The OS schedules every live process: each is weakly fair.
Spec == Init /\ [][Next]_vars /\ WF_vars(Parent) /\ \A w \in Workers : WF_vars(Worker(w))

-----------------------------------------------------------------------------
(* Properties.                                                              *)

TypeOK ==
    /\ ppc \in {"start", "join", "collect", "cleanup", "finished"}
    /\ pc \in [Workers -> {"new", "create", "loop", "fetch", "insert", "commit",
                           "done", "crashed"}]
    /\ wal \in BOOLEAN
    /\ lk \in [Workers -> Levels]
    /\ txn \in [Workers -> BOOLEAN]
    /\ \A f \in {uncommitted, committed, writes, errors, reads, readErrors, iters} :
           f \in [Workers -> Nat]
    /\ tables \subseteq Tables
    /\ \A i \in DOMAIN queue :
           queue[i] \in ((Workers \ Streams) \X Nat \X Nat)
                        \cup (Streams \X Nat \X Nat \X Nat \X Nat)
    /\ results \in [TotalKeys -> Nat]
    /\ reported \subseteq Workers

\* The "writes" a worker reports are exactly the rows the database committed
\* for it: no batch is counted unless its commit succeeded, and none that
\* committed goes uncounted, whichever of the three failure paths a stream
\* takes (no table, INSERT refused, COMMIT refused) and in either journal mode.
CountsMatchCommitted == \A w \in Workers : writes[w] = committed[w]

\* Every except branch leaves the connection clean: whenever a worker is back
\* at the head of its loop (or has reported) it holds no lock and has no open
\* transaction, so a failed pass never keeps the other processes locked out.
NoTransactionAtLoopHead ==
    \A w \in Workers :
        pc[w] \in {"loop", "done"} =>
            lk[w] = "none" /\ ~txn[w] /\ uncommitted[w] = 0

\* Every write error a stream reports is the SQLite lock contention the
\* benchmark measures ("SQLite allows only ONE writer at a time"; the
\* except branch catches the OperationalError of a refused lock): none is a
\* "no such table" failure of an INSERT into a missing mp_stress_progress.
WriteErrorsAreLockErrors == \A w \in Streams : missing[w] = 0

\* The report covers every process the parent spawned ("Spawning separate
\* processes for: Plex Scanner, Kometa, PMM, 4 Streams").
AllWorkersReported == ppc = "finished" => reported = Workers

-----------------------------------------------------------------------------
(* The parent implements the fan-in of FanIn: a worker has reported once    *)
(* its tuple is put, and its counters are final from then on; the totals   *)
(* are collected when the parent has drained the queue.                    *)

FI == INSTANCE FanIn WITH
        Keys   <- TotalKeys,
        status <- [w \in Workers |-> CASE pc[w] = "done" -> "reported"
                                    [] pc[w] = "crashed" -> "died"
                                    [] OTHER -> "running"],
        sent   <- [w \in Workers |->
                     IF pc[w] = "done"
                        THEN [writes |-> writes[w], write_errors |-> errors[w],
                              reads |-> reads[w], read_errors |-> readErrors[w]]
                        ELSE NoTotals],
        totals <- results,
        phase  <- IF ppc \in {"cleanup", "finished"} THEN "collected" ELSE "running"

\* The tuples the workers put, decoded by position after the joins, give
\* the totals FanIn promises: each reporter counted once, by field name,
\* and only after every process has ended.
FanInRefined == FI!Spec

=============================================================================
