--------------------------- MODULE StressPostgres ---------------------------
(***************************************************************************)
(* run_postgresql_stress of scripts/benchmark_plex_stress.py.  Two library *)
(* scanners, a Kometa thread and the playback streams each take one        *)
(* connection from a ThreadedConnectionPool(1, num_streams + 10), loop      *)
(* until stop_flag, and give the connection back in a finally block; the   *)
(* main thread takes one more for the cleanup after the joins.             *)
(* PostgreSQL's MVCC never makes these statements wait on each other (the  *)
(* scanners insert into a SERIAL table, Kometa is the only updater), so a  *)
(* pass is atomic and the "with lock:" tally is part of it.  What remains  *)
(* is the pool and the failure paths: any statement may raise, either an   *)
(* error that aborts the transaction or a lost connection on which every   *)
(* later statement, conn.rollback() included, raises as well.             *)
(***************************************************************************)
EXTENDS Integers, FiniteSets

CONSTANTS
    Scanners,   \* library_scanner threads
    Kometa,     \* the kometa_updater thread
    Streams,    \* playback_stream threads
    MaxIter,    \* bound on the passes a thread makes before stop_flag is set
    MaxFaults   \* bound on the statements that raise

Writers == Scanners \cup {Kometa}
Threads == Writers \cup Streams

ASSUME /\ Kometa \notin Scanners /\ Writers \cap Streams = {}
       /\ MaxIter \in Nat \ {0} /\ MaxFaults \in Nat

\* Variant whose margin covers the streams and two more connections only.
MaxConnTight == Cardinality(Streams) + 2

\* pool.ThreadedConnectionPool(1, num_streams + 10, **PG_CONFIG)
MaxConn == Cardinality(Streams) + 10

\* batch_size = 10 INSERTs in a scanner; one UPDATE in Kometa.
Batch(t) == IF t \in Scanners THEN 10 ELSE 1

Fields == {"scan_writes", "scan_errors", "playback_reads",
           "playback_read_errors", "playback_writes", "playback_write_errors"}

VARIABLES
    mpc,      \* where the main thread is
    stop,     \* stop_flag
    pc,       \* where each thread is
    iters,    \* passes made so far
    used,     \* the pool's connections in use: the threads holding one
    txn,      \* psycopg2 transaction status of each thread's connection
    broken,   \* the thread's connection has been lost
    faults,   \* statements that raised so far
    results   \* the shared StressResults

vars == <<mpc, stop, pc, iters, used, txn, broken, faults, results>>

Init ==
    /\ mpc = "setup"
    /\ stop = FALSE
    /\ pc = [t \in Threads |-> "unstarted"]
    /\ iters = [t \in Threads |-> 0]
    /\ used = {}
    /\ txn = [t \in Threads |-> "idle"]
    /\ broken = [t \in Threads |-> FALSE]
    /\ faults = 0
    /\ results = [f \in Fields |-> 0]

-----------------------------------------------------------------------------
Goto(t, l) == pc' = [pc EXCEPT ![t] = l]
SetTxn(t, s) == txn' = [txn EXCEPT ![t] = s]

\* "with lock: results.<f> += n", atomic under the lock.
Count(f, n) == results' = [results EXCEPT ![f] = @ + n]

\* What a statement on t's connection can do: succeed, raise an error that
\* aborts the transaction, or lose the connection.  A lost connection makes
\* every later statement raise.
Outcomes(t) ==
    IF broken[t] THEN {"lost"}
    ELSE {"ok"} \cup (IF faults < MaxFaults THEN {"error", "lost"} ELSE {})

\* The effect of outcome o on the fault bookkeeping.
Raise(t, o) ==
    /\ faults' = faults + (IF o # "ok" /\ ~broken[t] THEN 1 ELSE 0)
    /\ broken' = [broken EXCEPT ![t] = @ \/ o = "lost"]

\* "while not stop_flag.is_set()": one more pass.
NextPass(t) ==
    /\ pc[t] = "loop" /\ ~stop /\ iters[t] < MaxIter
    /\ iters' = [iters EXCEPT ![t] = @ + 1]

\* pg_pool.putconn(conn) in a thread's finally block.
PutConn(t) == used' = used \ {t}

-----------------------------------------------------------------------------
(* The main thread.                                                         *)

\* The pool is made; getconn, CREATE TABLE x2, commit, putconn; then the
\* scanners, Kometa and the streams are started.
StartThreads ==
    /\ mpc = "setup"
    /\ mpc' = "run"
    /\ pc' = [t \in Threads |-> "new"]
    /\ UNCHANGED <<stop, iters, used, txn, broken, faults, results>>

\* time.sleep(duration); stop_flag.set()
SetStop ==
    /\ mpc = "run"
    /\ stop' = TRUE
    /\ mpc' = "join"
    /\ UNCHANGED <<pc, iters, used, txn, broken, faults, results>>

Ended == {"exited", "died", "pool_error"}

\* Variant without the "for t in stream_threads: t.join()" loop.
JoinedWritersOnly(t) == t \in Streams \/ pc[t] \in Ended

\* t.join() returns: the thread has ended, an exception ending it too.
Joined(t) == pc[t] \in Ended

\* t.join() for every scanner, Kometa and every stream.
JoinThreads ==
    /\ mpc = "join"
    /\ \A t \in Threads : Joined(t)
    /\ mpc' = "cleanup"
    /\ UNCHANGED <<stop, pc, iters, used, txn, broken, faults, results>>

\* getconn, DROP TABLE x2, commit, putconn, closeall.  getconn raises
\* PoolError when maxconn connections are in use, outside any try.
DropTables ==
    /\ mpc = "cleanup"
    /\ mpc' = IF Cardinality(used) < MaxConn THEN "done" ELSE "pool_error"
    /\ UNCHANGED <<stop, pc, iters, used, txn, broken, faults, results>>

Main == StartThreads \/ SetStop \/ JoinThreads \/ DropTables

-----------------------------------------------------------------------------
(* The threads.                                                             *)

\* conn = pg_pool.getconn() before the try: PoolError ends the thread.
GetConn(t) ==
    /\ pc[t] = "new"
    /\ IF Cardinality(used) < MaxConn
          THEN used' = used \cup {t} /\ Goto(t, "loop")
          ELSE used' = used /\ Goto(t, "pool_error")
    /\ UNCHANGED <<mpc, stop, iters, txn, broken, faults, results>>

\* A library_scanner pass (10 INSERTs and commit) or a kometa_updater pass
\* (one UPDATE and commit), then its tally; on an exception the except
\* branch counts scan_errors and goes on to conn.rollback().
WriterPass(t) ==
    /\ t \in Writers /\ NextPass(t)
    /\ \E o \in Outcomes(t) :
          /\ Raise(t, o)
          /\ IF o = "ok"
                THEN Count("scan_writes", Batch(t)) /\ UNCHANGED txn
                     /\ Goto(t, "loop")
                ELSE Count("scan_errors", 1) /\ SetTxn(t, "aborted")
                     /\ Goto(t, "rollback")
    /\ UNCHANGED <<mpc, stop, used>>

\* The two SELECTs of a playback_stream pass open the transaction; their
\* except branch counts a read error and does not roll back.
StreamRead(t) ==
    /\ t \in Streams /\ NextPass(t)
    /\ \E o \in Outcomes(t) :
          /\ Raise(t, o)
          /\ IF o = "ok"
                THEN Count("playback_reads", 2) /\ SetTxn(t, "active")
                ELSE Count("playback_read_errors", 1) /\ SetTxn(t, "aborted")
    /\ Goto(t, "write")
    /\ UNCHANGED <<mpc, stop, used>>

\* The INSERT INTO stress_progress and commit, in the transaction the reads
\* left: on an aborted one the INSERT raises InFailedSqlTransaction.
StreamWrite(t) ==
    /\ pc[t] = "write"
    /\ \E o \in IF txn[t] = "aborted" THEN {"aborted"} ELSE Outcomes(t) :
          /\ IF o = "aborted" THEN UNCHANGED <<broken, faults>> ELSE Raise(t, o)
          /\ IF o = "ok"
                THEN Count("playback_writes", 1) /\ SetTxn(t, "idle")
                     /\ Goto(t, "loop")
                ELSE Count("playback_write_errors", 1) /\ SetTxn(t, "aborted")
                     /\ Goto(t, "rollback")
    /\ UNCHANGED <<mpc, stop, iters, used>>

\* Variant whose putconn follows the loop instead of being in finally.
RollbackAfterErrorNoFinally(t) ==
    /\ pc[t] = "rollback"
    /\ IF broken[t]
          THEN UNCHANGED <<used, txn>> /\ Goto(t, "died")
          ELSE UNCHANGED used /\ SetTxn(t, "idle") /\ Goto(t, "loop")
    /\ UNCHANGED <<mpc, stop, iters, broken, faults, results>>

\* conn.rollback() in the except branch, outside any try: on a lost
\* connection it raises, the exception leaves the loop and the finally
\* block returns the connection to the pool before the thread dies.
RollbackAfterError(t) ==
    /\ pc[t] = "rollback"
    /\ IF broken[t]
          THEN PutConn(t) /\ UNCHANGED txn /\ Goto(t, "died")
          ELSE UNCHANGED used /\ SetTxn(t, "idle") /\ Goto(t, "loop")
    /\ UNCHANGED <<mpc, stop, iters, broken, faults, results>>

\* stop_flag seen at the loop head: finally: pg_pool.putconn(conn).
Exit(t) ==
    /\ pc[t] = "loop" /\ stop
    /\ PutConn(t)
    /\ Goto(t, "exited")
    /\ UNCHANGED <<mpc, stop, iters, txn, broken, faults, results>>

Thread(t) ==
    \/ GetConn(t) \/ WriterPass(t) \/ StreamRead(t) \/ StreamWrite(t)
    \/ RollbackAfterError(t) \/ Exit(t)

Next == Main \/ \E t \in Threads : Thread(t)

\* The OS scheduler runs every live thread and the main thread.
Spec == Init /\ [][Next]_vars /\ WF_vars(Main) /\ \A t \in Threads : WF_vars(Thread(t))

-----------------------------------------------------------------------------
(* Properties.                                                              *)

Running == {"loop", "write", "rollback"}

\* The variables have their types.
TypeOK ==
    /\ mpc \in {"setup", "run", "join", "cleanup", "done", "pool_error"}
    /\ stop \in BOOLEAN
    /\ pc \in [Threads -> {"unstarted", "new", "exited", "died", "pool_error"} \cup Running]
    /\ iters \in [Threads -> 0..MaxIter]
    /\ used \subseteq Threads
    /\ txn \in [Threads -> {"idle", "active", "aborted"}]
    /\ broken \in [Threads -> BOOLEAN]
    /\ faults \in 0..MaxFaults
    /\ results \in [Fields -> Nat]

\* No getconn raises PoolError: neither a thread's at its start, whatever
\* the others are doing, nor the main thread's getconn for the cleanup
\* after the joins.
PoolNeverExhausted ==
    /\ \A t \in Threads : pc[t] # "pool_error"
    /\ mpc # "pool_error"

\* A thread holds a pool connection exactly while it runs its loop: one
\* that stopped, or that an exception from conn.rollback() on a lost
\* connection killed, has given its connection back (the finally block).
NoLeakedConnection ==
    used = {t \in Threads : pc[t] \in Running}

\* The progress INSERT of a stream runs on a usable transaction: the read
\* step's except branch leaves no aborted transaction behind for it, as
\* the write step's except branch does with conn.rollback().
WriteNotPoisonedByRead ==
    \A t \in Streams : pc[t] = "write" /\ ~broken[t] => txn[t] # "aborted"

-----------------------------------------------------------------------------
(* run_postgresql_stress implements StressTally: a thread is live until it *)
(* has left its loop, died or failed to get a connection.                  *)

SR == INSTANCE StressTally WITH
        live     <- {t \in Threads : pc[t] \notin Ended},
        stopped  <- stop,
        returned <- mpc = "done"

\* Only threads still in their loop add to StressResults, each time a
\* positive amount; stop_flag.set() ends every thread, every join returns
\* and the cleanup runs, so the counters returned are final.
TallyRefined == SR!Spec

=============================================================================
