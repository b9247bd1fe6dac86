----------------------------- MODULE MPPostgres -----------------------------
(***************************************************************************)
(* The PostgreSQL half of scripts/benchmark_multiprocess.py: the parent    *)
(* run_postgresql_multiprocess_test creates the test tables, spawns the    *)
(* scanner, Kometa, PMM and the playback streams as processes with their  *)
(* own psycopg2 connection, joins them and adds up the result queue.       *)
(* psycopg2 opens a transaction at the first statement; each UPDATE of     *)
(* metadata_items takes the row lock of its random id until commit or      *)
(* abort.  The random ids are drawn from a small set Rows: what matters is *)
(* whether two transactions pick the same rows.  Inserts into the fresh    *)
(* SERIAL tables and the SELECTs take no lock another process waits for.   *)
(* On a cycle of row-lock waits the server's deadlock detector aborts one  *)
(* of the waiting transactions, releasing its locks, and raises the error  *)
(* in its process.  Any statement of the scanner or a stream may also      *)
(* raise (at most MaxFaults times): an error that aborts the transaction,  *)
(* or a lost connection, on which the except branch's conn.rollback()      *)
(* raises in turn and ends the process before it reports.                  *)
(***************************************************************************)
EXTENDS Integers, SequencesExt, Relation, ResultTotals

CONSTANTS
    Scanner,    \* pg_plex_scanner
    Kometa,     \* pg_kometa_worker: 5 UPDATEs per transaction
    Pmm,        \* pg_pmm_worker: 3 UPDATEs per transaction
    Streams,    \* pg_playback_worker processes
    Rows,       \* the metadata_items ids random.randint may draw
    MaxIter,    \* bound on the passes of one worker's loop (its duration)
    MaxFaults   \* bound on the scanner and stream statements that raise

Updaters == {Kometa, Pmm}
Workers == {Scanner} \cup Updaters \cup Streams

ASSUME /\ Cardinality(Workers) = 3 + Cardinality(Streams)
       /\ Rows # {} /\ MaxIter \in Nat \ {0} /\ MaxFaults \in Nat

\* for _ in range(5) / range(3)
Updates(w) == IF w = Kometa THEN 5 ELSE 3

NoRow == "none"

VARIABLES
    ppc,          \* where the parent process is
    pc,           \* where each worker process is
    holds,        \* row locks held by the worker's open transaction
    waiting,      \* the row whose lock the worker's UPDATE waits for
    stmts,        \* UPDATEs done in the open transaction
    aborted,      \* the server has aborted the open transaction
    committed,    \* rows the database holds (inserted or updated) per worker
    writes,       \* the worker's local counter "writes"
    errors,       \* "errors" (writers) or "write_errors" (streams)
    reads,        \* a stream's "reads"
    readErrors,   \* a stream's "read_errors"
    broken,       \* the worker's connection to the server has been lost
    faults,       \* statements that raised so far, other than by a row lock
    iters,        \* passes through the loop so far
    queue,        \* result_queue
    results,      \* the parent's dict of totals
    reported      \* workers whose tuple the parent has taken

txnVars == <<holds, waiting, stmts, aborted>>
faultVars == <<readErrors, broken, faults>>
vars == <<ppc, pc, txnVars, committed, writes, errors, reads, faultVars, iters,
          queue, results, reported>>

Init ==
    /\ ppc = "setup"
    /\ pc = [w \in Workers |-> "new"]
    /\ holds = [w \in Workers |-> {}]
    /\ waiting = [w \in Workers |-> NoRow]
    /\ stmts = [w \in Workers |-> 0]
    /\ aborted = [w \in Workers |-> FALSE]
    /\ committed = [w \in Workers |-> 0]
    /\ writes = [w \in Workers |-> 0]
    /\ errors = [w \in Workers |-> 0]
    /\ reads = [w \in Workers |-> 0]
    /\ readErrors = [w \in Workers |-> 0]
    /\ broken = [w \in Workers |-> FALSE]
    /\ faults = 0
    /\ iters = [w \in Workers |-> 0]
    /\ queue = <<>>
    /\ results = NoTotals
    /\ reported = {}

-----------------------------------------------------------------------------
Goto(w, l) == pc' = [pc EXCEPT ![w] = l]
Bump(f, w, n) == f' = [f EXCEPT ![w] = @ + n]

LockedByOthers(w) == UNION {holds[o] : o \in Workers \ {w}}

\* w's UPDATE waits for a lock that another transaction holds.
WaitsFor == [e \in Updaters \X Updaters |->
                e[1] # e[2] /\ waiting[e[1]] \in holds[e[2]]]

\* The server's deadlock check: w waits, transitively, on itself.
InDeadlock(w) == TransitiveClosure(WaitsFor, Updaters)[w, w]

NextPass(w) == /\ pc[w] = "loop" /\ iters[w] < MaxIter /\ Bump(iters, w, 1)

\* What a statement on w's connection can do besides wait for a row lock:
\* succeed, raise an error that aborts the transaction, or lose the
\* connection, after which every statement raises, conn.rollback() too.
Outcomes(w) ==
    IF broken[w] THEN {"lost"}
    ELSE {"ok"} \cup (IF faults < MaxFaults THEN {"error", "lost"} ELSE {})

\* The fault bookkeeping of outcome o.
Raise(w, o) ==
    /\ faults' = faults + (IF o # "ok" /\ ~broken[w] THEN 1 ELSE 0)
    /\ broken' = [broken EXCEPT ![w] = @ \/ o = "lost"]

\* Variant whose except branch leaves the aborted transaction open.
RolledBackNoRollback(w) ==
    /\ UNCHANGED aborted
    /\ Goto(w, IF broken'[w] THEN "died" ELSE "loop")

\* except Exception: <count>; conn.rollback().  On a lost connection the
\* rollback raises outside any try: the process dies before its put.
RolledBack(w) ==
    /\ aborted' = [aborted EXCEPT ![w] = FALSE]
    /\ Goto(w, IF broken'[w] THEN "died" ELSE "loop")

-----------------------------------------------------------------------------
(* The parent.                                                              *)

\* DROP and CREATE both tables on a setup connection, commit, close: done
\* before any process starts (the source's "avoid race condition").
SetupTables ==
    /\ ppc = "setup"
    /\ ppc' = "start"
    /\ UNCHANGED <<pc, txnVars, committed, writes, errors, reads, faultVars, iters, queue,
                   results, reported>>

StartWorkers ==
    /\ ppc = "start"
    /\ ppc' = "join"
    /\ pc' = [w \in Workers |-> "loop"]
    /\ UNCHANGED <<txnVars, committed, writes, errors, reads, faultVars, iters, queue,
                   results, reported>>

\* p.join() returns: the process has ended, having reported or died.
Joined(w) == pc[w] \in {"done", "died"}

\* p.join() for every process.
JoinWorkers ==
    /\ ppc = "join"
    /\ \A w \in Workers : Joined(w)
    /\ ppc' = "collect"
    /\ UNCHANGED <<pc, txnVars, committed, writes, errors, reads, faultVars, iters, queue,
                   results, reported>>

\* Variant draining result_queue before the processes have been joined.
CollectReadyEarly == ppc \in {"join", "collect"}

\* The queue is drained after every p.join().
CollectReady == ppc = "collect"

\* Drain the queue into the totals, then DROP both tables.
CollectResults ==
    /\ CollectReady
    /\ results' = FoldLeft(AddItem, results, queue)
    /\ reported' = Reporters(queue)
    /\ queue' = <<>>
    /\ ppc' = "finished"
    /\ UNCHANGED <<pc, txnVars, committed, writes, errors, reads, faultVars, iters>>

Parent == SetupTables \/ StartWorkers \/ JoinWorkers \/ CollectResults

-----------------------------------------------------------------------------
(* The workers.                                                             *)

\* Variant putting a playback tuple without its write_errors field.
ResultTupleMissingField(w) ==
    IF w \in Streams THEN <<w, reads[w], readErrors[w], writes[w]>>
                     ELSE <<w, writes[w], errors[w]>>

\* (name, writes, errors) or (name, reads, read_errors, writes, write_errors)
ResultTuple(w) ==
    IF w \in Streams THEN <<w, reads[w], readErrors[w], writes[w], errors[w]>>
                     ELSE <<w, writes[w], errors[w]>>

\* Loop exit: conn.close() (the server rolls back an open transaction),
\* result_queue.put(tuple).
Report(w) ==
    /\ pc[w] = "loop"
    /\ queue' = Append(queue, ResultTuple(w))
    /\ holds' = [holds EXCEPT ![w] = {}]
    /\ stmts' = [stmts EXCEPT ![w] = 0]
    /\ aborted' = [aborted EXCEPT ![w] = FALSE]
    /\ Goto(w, "done")
    /\ UNCHANGED <<ppc, waiting, committed, writes, errors, reads, faultVars, iters,
                   results, reported>>

\* pg_plex_scanner: 20 INSERTs and a commit (no other process touches
\* mp_stress_scan, so none of them waits), writes += 20; or the except
\* branch: errors += 1, conn.rollback().
ScanBatch(w) ==
    /\ w = Scanner /\ NextPass(w)
    /\ \E o \in Outcomes(w) :
          /\ Raise(w, o)
          /\ IF o = "ok"
                THEN Bump(committed, w, 20) /\ Bump(writes, w, 20)
                     /\ UNCHANGED <<pc, errors, aborted>>
                ELSE RolledBack(w) /\ Bump(errors, w, 1)
                     /\ UNCHANGED <<committed, writes>>
    /\ UNCHANGED <<ppc, holds, waiting, stmts, reads, readErrors, queue, results,
                   reported>>

\* pg_playback_worker's SELECT (MVCC, no lock) and fetchone, reads += 1;
\* its except branch counts read_errors += 1 and does not roll back, so
\* the transaction the SELECT opened stays aborted.
PlaybackRead(w) ==
    /\ w \in Streams /\ NextPass(w)
    /\ \E o \in Outcomes(w) :
          /\ Raise(w, o)
          /\ IF o = "ok"
                THEN Bump(reads, w, 1) /\ UNCHANGED <<readErrors, aborted>>
                ELSE /\ Bump(readErrors, w, 1) /\ UNCHANGED reads
                     /\ aborted' = [aborted EXCEPT ![w] = TRUE]
    /\ Goto(w, "write")
    /\ UNCHANGED <<ppc, holds, waiting, stmts, committed, writes, errors, queue,
                   results, reported>>

\* The INSERT into the private progress table and conn.commit(), writes
\* += 1; in an aborted transaction the INSERT raises InFailedSqlTransaction.
\* The except branch: write_errors += 1, conn.rollback().
PlaybackWrite(w) ==
    /\ pc[w] = "write"
    /\ \E o \in IF aborted[w] /\ ~broken[w] THEN {"aborted"} ELSE Outcomes(w) :
          /\ IF o = "aborted" THEN UNCHANGED <<broken, faults>> ELSE Raise(w, o)
          /\ IF o = "ok"
                THEN Bump(committed, w, 1) /\ Bump(writes, w, 1)
                     /\ Goto(w, "loop") /\ UNCHANGED <<errors, aborted>>
                ELSE RolledBack(w) /\ Bump(errors, w, 1)
                     /\ UNCHANGED <<committed, writes>>
    /\ UNCHANGED <<ppc, holds, waiting, stmts, reads, readErrors, iters, queue,
                   results, reported>>

\* An updater's pass starts its first UPDATE.
BeginUpdates(w) ==
    /\ w \in Updaters /\ NextPass(w)
    /\ Goto(w, "update")
    /\ UNCHANGED <<ppc, txnVars, committed, writes, errors, reads, faultVars, queue,
                   results, reported>>

\* The UPDATE of row r has its lock: the statement is done.
RowLocked(w, r) ==
    /\ holds' = [holds EXCEPT ![w] = @ \cup {r}]
    /\ waiting' = [waiting EXCEPT ![w] = NoRow]
    /\ Bump(stmts, w, 1)
    /\ Goto(w, IF stmts[w] + 1 = Updates(w) THEN "commit" ELSE "update")

\* Variant whose except branch does not call conn.rollback(): the aborted
\* transaction stays open on the connection.
UpdateFailedNoRollback(w) ==
    /\ Bump(errors, w, 1)
    /\ holds' = [holds EXCEPT ![w] = {}]
    /\ waiting' = [waiting EXCEPT ![w] = NoRow]
    /\ stmts' = [stmts EXCEPT ![w] = 0]
    /\ aborted' = [aborted EXCEPT ![w] = TRUE]
    /\ Goto(w, "loop")

\* except Exception: errors += 1; conn.rollback(); then time.sleep.
UpdateFailed(w) ==
    /\ Bump(errors, w, 1)
    /\ holds' = [holds EXCEPT ![w] = {}]
    /\ waiting' = [waiting EXCEPT ![w] = NoRow]
    /\ stmts' = [stmts EXCEPT ![w] = 0]
    /\ aborted' = [aborted EXCEPT ![w] = FALSE]
    /\ Goto(w, "loop")

\* cur.execute("UPDATE ... WHERE id = %s", random id): in an aborted
\* transaction it raises at once; otherwise it locks the row or waits.
UpdateRow(w) ==
    /\ pc[w] = "update"
    /\ \E r \in Rows :
          IF aborted[w] THEN UpdateFailed(w)
          ELSE \/ /\ r \notin LockedByOthers(w)
                  /\ RowLocked(w, r) /\ UNCHANGED <<aborted, errors>>
               \/ /\ r \in LockedByOthers(w)
                  /\ waiting' = [waiting EXCEPT ![w] = r]
                  /\ Goto(w, "blocked")
                  /\ UNCHANGED <<holds, stmts, aborted, errors>>
    /\ UNCHANGED <<ppc, committed, writes, reads, faultVars, iters, queue, results, reported>>

\* The holder committed or aborted: the waiting UPDATE gets its row.
LockGranted(w) ==
    /\ pc[w] = "blocked"
    /\ waiting[w] \notin LockedByOthers(w)
    /\ RowLocked(w, waiting[w])
    /\ UNCHANGED <<ppc, aborted, committed, writes, errors, reads, faultVars, iters, queue,
                   results, reported>>

\* The deadlock detector picks w: the server aborts its transaction and
\* releases its locks; the error reaches the except branch.
DeadlockVictim(w) ==
    /\ pc[w] = "blocked"
    /\ InDeadlock(w)
    /\ UpdateFailed(w)
    /\ UNCHANGED <<ppc, committed, writes, reads, faultVars, iters, queue, results, reported>>

\* Variant that counts the batch but never calls conn.commit().
CommitUpdatesNoCommit(w) ==
    /\ pc[w] = "commit"
    /\ Bump(writes, w, Updates(w))
    /\ Goto(w, "loop")
    /\ UNCHANGED <<ppc, txnVars, committed, errors, reads, faultVars, iters, queue, results,
                   reported>>

\* conn.commit(); writes += 5 (or 3); time.sleep.
CommitUpdates(w) ==
    /\ pc[w] = "commit"
    /\ Bump(committed, w, stmts[w])
    /\ Bump(writes, w, Updates(w))
    /\ holds' = [holds EXCEPT ![w] = {}]
    /\ stmts' = [stmts EXCEPT ![w] = 0]
    /\ Goto(w, "loop")
    /\ UNCHANGED <<ppc, waiting, aborted, errors, reads, faultVars, iters, queue, results,
                   reported>>

Worker(w) ==
    \/ ScanBatch(w) \/ PlaybackRead(w) \/ PlaybackWrite(w)
    \/ BeginUpdates(w) \/ UpdateRow(w) \/ LockGranted(w) \/ DeadlockVictim(w)
    \/ CommitUpdates(w)
    \/ Report(w)

Next == Parent \/ \E w \in Workers : Worker(w)

Spec == Init /\ [][Next]_vars /\ WF_vars(Parent) /\ \A w \in Workers : WF_vars(Worker(w))

-----------------------------------------------------------------------------
(* Properties.                                                              *)

TypeOK ==
    /\ ppc \in {"setup", "start", "join", "collect", "finished"}
    /\ pc \in [Workers -> {"new", "loop", "update", "blocked", "commit", "write",
                           "done", "died"}]
    /\ holds \in [Workers -> SUBSET Rows]
    /\ waiting \in [Workers -> Rows \cup {NoRow}]
    /\ aborted \in [Workers -> BOOLEAN]
    /\ \A f \in {stmts, committed, writes, errors, reads, readErrors, iters} :
           f \in [Workers -> Nat]
    /\ broken \in [Workers -> BOOLEAN]
    /\ faults \in 0..MaxFaults
    /\ \A i \in DOMAIN queue :
           queue[i] \in ((Workers \ Streams) \X Nat \X Nat)
                        \cup (Streams \X Nat \X Nat \X Nat \X Nat)
    /\ results \in [TotalKeys -> Nat]
    /\ reported \subseteq Workers

\* The "writes" a process reports are the rows the server committed for it:
\* an UPDATE batch that the deadlock detector aborted half way is neither
\* counted nor durable.
CountsMatchCommitted == \A w \in Workers : writes[w] = committed[w]

\* A worker back at the head of its loop holds no row lock and has no open
\* or aborted transaction: a failed or finished pass never carries its locks
\* (or "current transaction is aborted") into the next one.
NoTransactionAtLoopHead ==
    \A w \in Workers :
        pc[w] \in {"loop", "done"} =>
            holds[w] = {} /\ waiting[w] = NoRow /\ stmts[w] = 0 /\ ~aborted[w]

\* The progress INSERT of a stream runs in a usable transaction: a failed
\* SELECT's except branch, which has no conn.rollback(), leaves no aborted
\* transaction behind for it.
WriteNotPoisonedByRead ==
    \A w \in Streams : pc[w] = "write" /\ ~broken[w] => ~aborted[w]

\* "PostgreSQL handles this with row-level locking - all processes can write
\* simultaneously": no Kometa or PMM transaction ever fails.
UpdatersNeverFail == \A w \in Updaters : errors[w] = 0

-----------------------------------------------------------------------------
(* The parent implements the fan-in of FanIn: a worker has reported once    *)
(* its tuple is put, and its counters are final from then on; the totals   *)
(* are collected when the parent has drained the queue.                    *)

FI == INSTANCE FanIn WITH
        Keys   <- TotalKeys,
        status <- [w \in Workers |-> CASE pc[w] = "done" -> "reported"
                                        [] pc[w] = "died" -> "died"
                                        [] OTHER -> "running"],
        sent   <- [w \in Workers |->
                     IF pc[w] = "done"
                        THEN [writes |-> writes[w], write_errors |-> errors[w],
                              reads |-> reads[w], read_errors |-> readErrors[w]]
                        ELSE NoTotals],
        totals <- results,
        phase  <- IF ppc = "finished" THEN "collected" ELSE "running"

\* The tuples the workers put, decoded by position after the joins, give
\* the totals FanIn promises: each reporter counted once, by field name,
\* and only after every process has ended.
FanInRefined == FI!Spec

=============================================================================
