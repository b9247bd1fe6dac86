---------------------------- MODULE StressSqlite ----------------------------
(***************************************************************************)
(* run_sqlite_stress of scripts/benchmark_plex_stress.py: library-scanner  *)
(* threads, a Kometa thread and playback-stream threads in one process,    *)
(* each with its own sqlite3 connection and a busy timeout (0.1 s for the  *)
(* writers, 0.05 s for the streams), sharing one StressResults whose       *)
(* fields are updated under a threading.Lock.  The main thread creates the *)
(* tables, starts the threads, sleeps, sets stop_flag and joins them.      *)
(* A refused lock puts a statement in SQLite's busy handler: it retries    *)
(* until the lock is granted or the timeout elapses.  A "+=" on a shared   *)
(* field is a load and a store, between which another thread may run.      *)
(***************************************************************************)
EXTENDS Integers, Functions, SqliteLocks

CONSTANTS
    Scanners,   \* library_scanner threads
    Kometa,     \* the kometa_updater thread
    Streams,    \* playback_stream threads
    MaxIter,    \* bound on the passes a thread makes before stop_flag is set
    None

Writers == Scanners \cup {Kometa}
Threads == Writers \cup Streams

ASSUME /\ Kometa \notin Scanners /\ Writers \cap Streams = {}
       /\ None \notin Threads /\ MaxIter \in Nat \ {0}

\* batch_size = 50 in a scanner; range(5) in Kometa.
Batch(t) == IF t \in Scanners THEN 50 ELSE 5

Fields == {"scan_writes", "scan_errors", "playback_reads",
           "playback_read_errors", "playback_writes", "playback_write_errors"}

VARIABLES
    mpc,         \* where the main thread is
    stop,        \* stop_flag
    pc,          \* where each thread is
    wal,         \* journal mode of the database
    lk,          \* SQLite lock level of each thread's connection
    uncommitted, \* rows in the open transaction
    committed,   \* rows the database holds from each thread
    iters,       \* passes made so far
    results,     \* the shared StressResults
    lock,        \* holder of the threading.Lock, or None
    owe,         \* the "+=" a thread is doing: field, amount, where to go next
    loaded,      \* the value of the field the thread has loaded
    due          \* the sum of every "+=" begun, per field

vars == <<mpc, stop, pc, wal, lk, uncommitted, committed, iters, results, lock,
          owe, loaded, due>>

NoOwe == [f |-> "scan_writes", n |-> 0, next |-> "loop"]

Init ==
    /\ mpc = "setup"
    /\ stop = FALSE
    /\ pc = [t \in Threads |-> "new"]
    /\ wal \in BOOLEAN
    /\ lk = [t \in Threads |-> "none"]
    /\ uncommitted = [t \in Threads |-> 0]
    /\ committed = [t \in Threads |-> 0]
    /\ iters = [t \in Threads |-> 0]
    /\ results = [f \in Fields |-> 0]
    /\ lock = None
    /\ owe = [t \in Threads |-> NoOwe]
    /\ loaded = [t \in Threads |-> 0]
    /\ due = [f \in Fields |-> 0]

-----------------------------------------------------------------------------
Goto(t, l) == pc' = [pc EXCEPT ![t] = l]
SetLock(t, l) == lk' = [lk EXCEPT ![t] = l]

\* Start "with lock: results.<f> += n", continuing at next afterwards.
Tally(t, f, n, next) ==
    /\ owe' = [owe EXCEPT ![t] = [f |-> f, n |-> n, next |-> next]]
    /\ due' = [due EXCEPT ![f] = @ + n]
    /\ Goto(t, "tally")

\* conn.rollback() (or a statement that gave up without a lock).
Rollback(t) ==
    /\ SetLock(t, "none")
    /\ uncommitted' = [uncommitted EXCEPT ![t] = 0]

\* conn.commit() succeeded: the rows become durable.
Commit(t) ==
    /\ committed' = [committed EXCEPT ![t] = @ + uncommitted[t]]
    /\ Rollback(t)

\* "while not stop_flag.is_set()": one more pass.
NextPass(t) ==
    /\ pc[t] = "loop" /\ ~stop /\ iters[t] < MaxIter
    /\ iters' = [iters EXCEPT ![t] = @ + 1]

-----------------------------------------------------------------------------
(* The main thread.                                                         *)

\* CREATE TABLE stress_metadata / stress_progress (timeout=30, before any
\* thread exists), then start the scanners, Kometa and the streams.
StartThreads ==
    /\ mpc = "setup"
    /\ mpc' = "run"
    /\ pc' = [t \in Threads |-> "loop"]
    /\ UNCHANGED <<stop, wal, lk, uncommitted, committed, iters, results, lock,
                   owe, loaded, due>>

\* Mutant: join the threads before stop_flag.set().
SetStopAfterJoin ==
    /\ mpc = "run"
    /\ mpc' = "join"
    /\ UNCHANGED <<stop, pc, wal, lk, uncommitted, committed, iters, results, lock,
                   owe, loaded, due>>

\* time.sleep(duration); stop_flag.set()
SetStop ==
    /\ mpc = "run"
    /\ stop' = TRUE
    /\ mpc' = "join"
    /\ UNCHANGED <<pc, wal, lk, uncommitted, committed, iters, results, lock,
                   owe, loaded, due>>

\* t.join() for every thread.
JoinThreads ==
    /\ mpc = "join"
    /\ \A t \in Threads : pc[t] = "exited"
    /\ mpc' = "cleanup"
    /\ UNCHANGED <<stop, pc, wal, lk, uncommitted, committed, iters, results,
                   lock, owe, loaded, due>>

\* total_time_ms, then DROP TABLE on a fresh connection; return results.
DropTables ==
    /\ mpc = "cleanup"
    /\ mpc' = "done"
    /\ UNCHANGED <<stop, pc, wal, lk, uncommitted, committed, iters, results,
                   lock, owe, loaded, due>>

Main == StartThreads \/ SetStop \/ JoinThreads \/ DropTables

-----------------------------------------------------------------------------
(* The library_scanner and kometa_updater threads.                          *)

\* BEGIN EXCLUSIVE granted: the whole batch of INSERTs (UPDATEs) runs under
\* the EXCLUSIVE lock, so no statement of the batch can be refused.
Exclusive(t) ==
    /\ SetLock(t, "exclusive")
    /\ uncommitted' = [uncommitted EXCEPT ![t] = Batch(t)]
    /\ Goto(t, "commit")

\* conn.execute("BEGIN EXCLUSIVE") at the head of a pass.  A refusal enters
\* the busy handler: with a rollback journal and only readers in the way the
\* connection waits holding PENDING; otherwise it waits holding nothing.
BeginExclusive(t) ==
    /\ t \in Writers /\ NextPass(t)
    /\ IF CanExclude(lk, t, wal)
          THEN Exclusive(t)
          ELSE /\ SetLock(t, IF ~wal /\ CanReserve(lk, t) THEN "pending" ELSE "none")
               /\ uncommitted' = uncommitted
               /\ Goto(t, "busy_begin")
    /\ UNCHANGED <<mpc, stop, wal, committed, results, lock, owe, loaded, due>>

\* The busy handler retries and the lock is granted within timeout=0.1.
BeginGranted(t) ==
    /\ pc[t] = "busy_begin" /\ CanExclude(lk, t, wal)
    /\ Exclusive(t)
    /\ UNCHANGED <<mpc, stop, wal, committed, iters, results, lock, owe, loaded, due>>

\* The timeout elapses: OperationalError; "with lock: scan_errors += 1", then
\* conn.rollback().  BEGIN failed, so the connection is back to no lock.
BeginTimedOut(t) ==
    /\ pc[t] = "busy_begin" /\ ~CanExclude(lk, t, wal)
    /\ SetLock(t, "none")
    /\ Tally(t, "scan_errors", 1, "rollback")
    /\ UNCHANGED <<mpc, stop, wal, uncommitted, committed, iters, results, lock, loaded>>

\* conn.commit() under EXCLUSIVE; then "with lock: scan_writes += batch".
CommitBatch(t) ==
    /\ pc[t] = "commit" /\ t \in Writers
    /\ Commit(t)
    /\ Tally(t, "scan_writes", Batch(t), "loop")
    /\ UNCHANGED <<mpc, stop, wal, iters, results, lock, loaded>>

-----------------------------------------------------------------------------
(* The playback_stream threads.                                            *)

\* The two SELECTs of a pass, abstracted to one read holding SHARED while
\* its statement runs.  If either is refused past timeout=0.05 the pass
\* counts one read error; otherwise two reads.
SelectMedia(t) ==
    /\ t \in Streams /\ NextPass(t)
    /\ SetLock(t, IF CanShare(lk, t, wal) THEN "shared" ELSE "none")
    /\ Goto(t, IF CanShare(lk, t, wal) THEN "reading" ELSE "busy_read")
    /\ UNCHANGED <<mpc, stop, wal, uncommitted, committed, results, lock, owe, loaded, due>>

ReadGranted(t) ==
    /\ pc[t] = "busy_read" /\ CanShare(lk, t, wal)
    /\ SetLock(t, "shared") /\ Goto(t, "reading")
    /\ UNCHANGED <<mpc, stop, wal, uncommitted, committed, iters, results, lock, owe,
                   loaded, due>>

\* fetchone() ends each statement and releases SHARED: playback_reads += 2.
ReadDone(t) ==
    /\ pc[t] = "reading"
    /\ SetLock(t, "none")
    /\ Tally(t, "playback_reads", 2, "insert")
    /\ UNCHANGED <<mpc, stop, wal, uncommitted, committed, iters, results, lock, loaded>>

ReadTimedOut(t) ==
    /\ pc[t] = "busy_read" /\ ~CanShare(lk, t, wal)
    /\ Tally(t, "playback_read_errors", 1, "insert")
    /\ UNCHANGED <<mpc, stop, wal, lk, uncommitted, committed, iters, results, lock, loaded>>

\* The INSERT INTO stress_progress after sqlite3's implicit deferred BEGIN:
\* it needs SHARED and then RESERVED, and waits holding nothing if refused.
CanInsert(t) == CanShare(lk, t, wal) /\ CanReserve(lk, t)

InsertProgress(t) ==
    /\ pc[t] \in {"insert", "busy_insert"}
    /\ CanInsert(t)
    /\ SetLock(t, "reserved")
    /\ uncommitted' = [uncommitted EXCEPT ![t] = 1]
    /\ Goto(t, "commit")
    /\ UNCHANGED <<mpc, stop, wal, committed, iters, results, lock, owe, loaded, due>>

InsertBusy(t) ==
    /\ pc[t] = "insert" /\ ~CanInsert(t)
    /\ Goto(t, "busy_insert")
    /\ UNCHANGED <<mpc, stop, wal, lk, uncommitted, committed, iters, results, lock,
                   owe, loaded, due>>

InsertTimedOut(t) ==
    /\ pc[t] = "busy_insert" /\ ~CanInsert(t)
    /\ Tally(t, "playback_write_errors", 1, "rollback")
    /\ UNCHANGED <<mpc, stop, wal, lk, uncommitted, committed, iters, results, lock, loaded>>

\* conn.commit(): EXCLUSIVE is needed; waiting for readers holds PENDING.
CommitProgress(t) ==
    /\ pc[t] \in {"commit", "busy_commit"} /\ t \in Streams
    /\ CanExclude(lk, t, wal)
    /\ Commit(t)
    /\ Tally(t, "playback_writes", 1, "loop")
    /\ UNCHANGED <<mpc, stop, wal, iters, results, lock, loaded>>

CommitBusy(t) ==
    /\ pc[t] = "commit" /\ t \in Streams /\ ~CanExclude(lk, t, wal)
    /\ SetLock(t, "pending") /\ Goto(t, "busy_commit")
    /\ UNCHANGED <<mpc, stop, wal, uncommitted, committed, iters, results, lock, owe,
                   loaded, due>>

\* The commit times out: the transaction stays open, still holding PENDING,
\* through "with lock: playback_write_errors += 1", until conn.rollback().
CommitTimedOut(t) ==
    /\ pc[t] = "busy_commit" /\ ~CanExclude(lk, t, wal)
    /\ Tally(t, "playback_write_errors", 1, "rollback")
    /\ UNCHANGED <<mpc, stop, wal, lk, uncommitted, committed, iters, results, lock, loaded>>

-----------------------------------------------------------------------------
(* Steps every thread takes.                                               *)

\* Mutant: "results.<f> += n" outside "with lock:".
TallyLoadUnlocked(t) ==
    /\ pc[t] = "tally"
    /\ loaded' = [loaded EXCEPT ![t] = results[owe[t].f]]
    /\ Goto(t, "store")
    /\ UNCHANGED <<mpc, stop, wal, lk, uncommitted, committed, iters, results, lock, owe, due>>

\* "with lock:" is entered and results.<f> is loaded for the "+=".
TallyLoad(t) ==
    /\ pc[t] = "tally" /\ lock = None
    /\ lock' = t
    /\ loaded' = [loaded EXCEPT ![t] = results[owe[t].f]]
    /\ Goto(t, "store")
    /\ UNCHANGED <<mpc, stop, wal, lk, uncommitted, committed, iters, results, owe, due>>

\* Mutant: lock.acquire() without the matching release.
TallyStoreKeepsLock(t) ==
    /\ pc[t] = "store"
    /\ results' = [results EXCEPT ![owe[t].f] = loaded[t] + owe[t].n]
    /\ Goto(t, owe[t].next)
    /\ UNCHANGED <<mpc, stop, wal, lk, uncommitted, committed, iters, lock, owe, loaded, due>>

\* The sum is stored and the lock released.
TallyStore(t) ==
    /\ pc[t] = "store"
    /\ results' = [results EXCEPT ![owe[t].f] = loaded[t] + owe[t].n]
    /\ lock' = None
    /\ Goto(t, owe[t].next)
    /\ UNCHANGED <<mpc, stop, wal, lk, uncommitted, committed, iters, owe, loaded, due>>

\* Mutant: the except branch without conn.rollback().
RollbackAfterErrorSkipped(t) ==
    /\ pc[t] = "rollback"
    /\ Goto(t, "loop")
    /\ UNCHANGED <<mpc, stop, wal, lk, uncommitted, committed, iters, results, lock,
                   owe, loaded, due>>

\* try: conn.rollback() in an except branch, then time.sleep.
RollbackAfterError(t) ==
    /\ pc[t] = "rollback"
    /\ Rollback(t)
    /\ Goto(t, "loop")
    /\ UNCHANGED <<mpc, stop, wal, committed, iters, results, lock, owe, loaded, due>>

\* stop_flag seen at the loop head: conn.close() and the thread returns.
Exit(t) ==
    /\ pc[t] = "loop" /\ stop
    /\ Rollback(t)
    /\ Goto(t, "exited")
    /\ UNCHANGED <<mpc, stop, wal, committed, iters, results, lock, owe, loaded, due>>

Thread(t) ==
    \/ BeginExclusive(t) \/ BeginGranted(t) \/ BeginTimedOut(t) \/ CommitBatch(t)
    \/ SelectMedia(t) \/ ReadGranted(t) \/ ReadDone(t) \/ ReadTimedOut(t)
    \/ InsertProgress(t) \/ InsertBusy(t) \/ InsertTimedOut(t)
    \/ CommitProgress(t) \/ CommitBusy(t) \/ CommitTimedOut(t)
    \/ TallyLoad(t) \/ TallyStore(t) \/ RollbackAfterError(t) \/ Exit(t)

Next == Main \/ \E t \in Threads : Thread(t)

\* The OS scheduler runs every live thread and the main thread; a busy
\* handler always ends, granted or timed out.
Spec == Init /\ [][Next]_vars /\ WF_vars(Main) /\ \A t \in Threads : WF_vars(Thread(t))

-----------------------------------------------------------------------------
(* Properties.                                                              *)

Labels == {"new", "loop", "busy_begin", "commit", "reading", "busy_read",
           "insert", "busy_insert", "busy_commit", "tally", "store",
           "rollback", "exited"}

\* The variables have their types, and the threading.Lock is held only by a
\* thread between loading and storing its "+=" (the with-block of a tally).
TypeOK ==
    /\ mpc \in {"setup", "run", "join", "cleanup", "done"}
    /\ stop \in BOOLEAN /\ wal \in BOOLEAN
    /\ pc \in [Threads -> Labels]
    /\ lk \in [Threads -> Levels]
    /\ uncommitted \in [Threads -> Nat] /\ committed \in [Threads -> Nat]
    /\ iters \in [Threads -> 0..MaxIter]
    /\ results \in [Fields -> Nat] /\ due \in [Fields -> Nat]
    /\ loaded \in [Threads -> Nat]
    /\ owe \in [Threads -> [f : Fields, n : Nat, next : {"loop", "insert", "rollback"}]]
    /\ lock \in {None} \cup {t \in Threads : pc[t] = "store"}

\* Once every thread has been joined, StressResults holds the sum of every
\* "+=" the threads made: no update was lost between two threads' load and
\* store; and its write counters are exactly the rows the database committed
\* for the writer threads (scan_writes) and for the streams (playback_writes).
CountersMatchDatabase ==
    mpc \in {"cleanup", "done"} =>
        /\ results = due
        /\ results["scan_writes"] = SumFunctionOnSet(committed, Writers)
        /\ results["playback_writes"] = SumFunctionOnSet(committed, Streams)

\* A thread at the head of its loop, or gone, holds no SQLite lock and no open
\* transaction: a stream whose COMMIT timed out while holding PENDING, or a
\* writer whose BEGIN EXCLUSIVE timed out, has rolled back first.
NoLockAtLoopHead ==
    \A t \in Threads : pc[t] \in {"loop", "exited"} =>
        lk[t] = "none" /\ uncommitted[t] = 0

\* stop_flag.set() ends every thread's loop, every join returns and the
\* tables are dropped: the stress test always finishes.
StressFinishes == <>(mpc = "done")

-----------------------------------------------------------------------------
(* run_sqlite_stress implements StressTally: a thread is live until it has *)
(* left its loop, and the results are returned once the tables are dropped. *)

SR == INSTANCE StressTally WITH
        live     <- {t \in Threads : pc[t] # "exited"},
        stopped  <- stop,
        returned <- mpc = "done"

\* Every change of StressResults is one thread's "+=" of a positive amount
\* on top of the current value (no load and store of two threads overlap),
\* only threads still in their loop change it, and stop_flag.set() makes
\* every thread end and the function return the final counters.
TallyRefined == SR!Spec

=============================================================================
