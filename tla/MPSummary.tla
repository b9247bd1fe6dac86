----------------------------- MODULE MPSummary -----------------------------
(***************************************************************************)
(* main() of scripts/benchmark_multiprocess.py: find the Plex database     *)
(* (sys.exit(1) without one), run the SQLite and then the PostgreSQL       *)
(* multi-process test, and print the summary: the totals, the error        *)
(* reduction as a percentage, and the projected errors per minute and per  *)
(* hour.  The two tests are abstracted to the totals dict they return     *)
(* (FanIn); what is kept is the arithmetic, and the rounding of           *)
(* f"{pct:.0f}", because a property is about the printed percentage.      *)
(***************************************************************************)
EXTENDS Integers

CONSTANTS
    Results,   \* totals dicts a run_*_multiprocess_test call may return, as
               \* their error counts (writes and reads are only printed)
    NPaths,    \* candidate paths find_plex_db tries, in order
    None       \* Python's None: no result or no line yet

ASSUME NPaths \in Nat \ {0}

Dbs == {"SQLite", "PostgreSQL"}

VARIABLES
    step,      \* where main is: "find", a test being run, "summary", "done"
    res,       \* the totals dict of each test
    fewer      \* the "% fewer errors" line: [pct, reduction], or None

vars == <<step, res, fewer>>

Init ==
    /\ step = "find"
    /\ res = [d \in Dbs |-> None]
    /\ fewer = None

\* total_sqlite_errors / total_pg_errors
TotalErrors(r) == r.write_errors + r.read_errors

\* f"{p / q:.0f}" for p >= 0, q > 0: the nearest integer, a tie going to
\* the even neighbour.  A tie k + 1/2 is a binary fraction, so the float
\* quotient is exact and Python's round-half-even applies to it as is.
RoundHalfEven(p, q) ==
    LET k == p \div q
        r == p % q
    IN CASE 2 * r < q -> k
         [] 2 * r > q -> k + 1
         [] OTHER     -> IF k % 2 = 0 THEN k ELSE k + 1

-----------------------------------------------------------------------------
\* find_plex_db: the first candidate path that exists, or None; main calls
\* sys.exit(1) on None.
FindPlexDb ==
    /\ step = "find"
    /\ \E exists \in SUBSET (1..NPaths) :
          step' = IF exists = {} THEN "exit" ELSE "SQLite"
    /\ UNCHANGED <<res, fewer>>

\* sqlite_results = run_sqlite_multiprocess_test(db_path, duration), then
\* pg_results = run_postgresql_multiprocess_test(duration).
RunTest(db, next) ==
    /\ step = db
    /\ \E r \in Results : res' = [res EXCEPT ![db] = r]
    /\ step' = next
    /\ UNCHANGED fewer

\* "if total_sqlite_errors > total_pg_errors: ... if total_sqlite_errors > 0:
\* pct = 100 * error_reduction / total_sqlite_errors".
FewerLine(s, p) ==
    IF s > p /\ s > 0 THEN [pct |-> RoundHalfEven(100 * (s - p), s), reduction |-> s - p]
                      ELSE None

\* The summary: the totals, the reduction line, then errors * 60 / duration
\* per minute and that * 60 per hour (duration = 15: no division by zero,
\* and no line a property is about).
Summary ==
    /\ step = "summary"
    /\ fewer' = FewerLine(TotalErrors(res["SQLite"]), TotalErrors(res["PostgreSQL"]))
    /\ step' = "done"
    /\ UNCHANGED res

Next ==
    \/ FindPlexDb
    \/ RunTest("SQLite", "PostgreSQL")
    \/ RunTest("PostgreSQL", "summary")
    \/ Summary

Spec == Init /\ [][Next]_vars

-----------------------------------------------------------------------------
(* Properties.                                                              *)

\* The printed percentage agrees with the count beside it: it is 100 only
\* when PostgreSQL had no errors at all, and never 0 for a line that
\* reports a positive number of fewer failures.
FewerPctTruthful ==
    fewer # None =>
        /\ fewer.pct = 100 <=> TotalErrors(res["PostgreSQL"]) = 0
        /\ fewer.pct > 0

=============================================================================
