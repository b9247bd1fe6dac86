---------------------------- MODULE StressSummary ----------------------------
(***************************************************************************)
(* main() and print_results of scripts/benchmark_plex_stress.py: find the  *)
(* Plex database (sys.exit(1) without one), run the SQLite and then the    *)
(* PostgreSQL stress test, print each one's error rate, then the summary   *)
(* table, the speedup and the error difference.  The two stress runs are   *)
(* abstracted to the StressResults they may return (StressSqlite,          *)
(* StressPostgres); what is kept is the arithmetic on them: a quotient is  *)
(* a pair <<numerator, divisor>>, and a zero divisor is Python's            *)
(* ZeroDivisionError, which ends the script.  The %-formatting of the      *)
(* quotients is left out: no property is about the printed digits.         *)
(***************************************************************************)
EXTENDS Integers, FiniteSets

CONSTANTS
    Results,   \* StressResults a run_*_stress call may return
    NPaths,    \* candidate paths find_plex_db tries, in order
    None,      \* Python's None: no result or no line yet
    Inf        \* float('inf')

ASSUME NPaths \in Nat \ {0}

Dbs == {"SQLite", "PostgreSQL"}

VARIABLES
    step,      \* where main is: "find", a database being run, "summary", ...
    res        \* the StressResults of each run

vars == <<step, res>>

Init ==
    /\ step = "find"
    /\ res = [d \in Dbs |-> None]

\* total_ops and total_errors, as print_results and main both add them up.
Ops(r) == r.scan_writes + r.playback_reads + r.playback_writes
Errs(r) == r.scan_errors + r.playback_read_errors + r.playback_write_errors

\* Python's max(x, 1).
AtLeastOne(x) == IF x < 1 THEN 1 ELSE x

\* A quotient Python can evaluate: Inf, or a pair whose divisor is not 0.
Evaluable(q) == q \in {None, Inf} \/ q[2] # 0

-----------------------------------------------------------------------------
\* find_plex_db: the first candidate path that exists, or None; main calls
\* sys.exit(1) on None.
FindPlexDb ==
    /\ step = "find"
    /\ \E exists \in SUBSET (1..NPaths) :
          step' = IF exists = {} THEN "exit" ELSE "SQLite"
    /\ UNCHANGED res

\* Variant dividing by total_ops + total_errors without max(..., 1).
ErrorRateNoMax(r) == <<100 * Errs(r), Ops(r) + Errs(r)>>

\* print_results: error_rate = 100 * total_errors / max(total_ops + total_errors, 1)
ErrorRate(r) == <<100 * Errs(r), AtLeastOne(Ops(r) + Errs(r))>>

\* run_<db>_stress(duration, num_streams) returns some results r, and
\* print_results(name, r, ...) prints them with their error rate.
RunStress(db, next) ==
    /\ step = db
    /\ \E r \in Results :
          /\ res' = [res EXCEPT ![db] = r]
          /\ step' = IF Evaluable(ErrorRate(r)) THEN next ELSE "crashed"

\* sqlite_error_rate / pg_error_rate of the summary table.
TableRate(r) == <<100 * Errs(r), AtLeastOne(Ops(r) + Errs(r))>>

\* "if pg_total > sqlite_total: speedup = pg_total / sqlite_total if
\* sqlite_total > 0 else float('inf')"; the error line needs no division.
Speedup(s, p) ==
    IF Ops(p) > Ops(s) THEN IF Ops(s) > 0 THEN <<Ops(p), Ops(s)>> ELSE Inf
                       ELSE None

\* The summary: the table of both runs, then the speedup line.
Summary ==
    /\ step = "summary"
    /\ step' = IF /\ \A d \in Dbs : Evaluable(TableRate(res[d]))
                  /\ Evaluable(Speedup(res["SQLite"], res["PostgreSQL"]))
               THEN "done" ELSE "crashed"
    /\ UNCHANGED res

Next ==
    \/ FindPlexDb
    \/ RunStress("SQLite", "PostgreSQL")
    \/ RunStress("PostgreSQL", "summary")
    \/ Summary

Spec == Init /\ [][Next]_vars

-----------------------------------------------------------------------------
(* Properties.                                                              *)

\* No division of the report raises ZeroDivisionError, even for a run that
\* completed nothing (stop_flag set before any thread made a pass, or every
\* thread failing): print_results, the summary table and the speedup all
\* guard their divisors.
NoZeroDivision == step # "crashed"

=============================================================================
