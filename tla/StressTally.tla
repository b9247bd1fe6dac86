----------------------------- MODULE StressTally -----------------------------
(***************************************************************************)
(* What run_sqlite_stress and run_postgresql_stress of                    *)
(* scripts/benchmark_plex_stress.py promise about the StressResults they   *)
(* return, without connections, locks or passes: each field is a counter  *)
(* that only a running thread adds to, and only by a positive amount; the *)
(* main thread sets stop_flag, every thread then ends, and the results are *)
(* returned once no thread is left that could still add to them.  A       *)
(* thread may also end early, killed by an exception.                     *)
(***************************************************************************)
EXTENDS Integers

CONSTANTS
    Threads,   \* the scanner, Kometa and stream threads
    Fields     \* the counters of StressResults

VARIABLES
    results,   \* the StressResults counters
    live,      \* threads that have not ended
    stopped,   \* stop_flag is set
    returned   \* the function has returned results

vars == <<results, live, stopped, returned>>

Init ==
    /\ results = [f \in Fields |-> 0]
    /\ live = Threads
    /\ stopped = FALSE
    /\ returned = FALSE

\* "with lock: results.<f> += n" by a running thread, n > 0.
Count(t) ==
    /\ t \in live
    /\ \E f \in Fields :
          /\ results'[f] > results[f]
          /\ results' = [results EXCEPT ![f] = results'[f]]
    /\ UNCHANGED <<live, stopped, returned>>

\* The thread leaves its loop, or an exception ends it.
End(t) ==
    /\ t \in live
    /\ live' = live \ {t}
    /\ UNCHANGED <<results, stopped, returned>>

\* time.sleep(duration); stop_flag.set()
Stop ==
    /\ ~stopped
    /\ stopped' = TRUE
    /\ UNCHANGED <<results, live, returned>>

\* Every join has returned: "return results".
Return ==
    /\ stopped /\ live = {} /\ ~returned
    /\ returned' = TRUE
    /\ UNCHANGED <<results, live, stopped>>

Next == Stop \/ Return \/ \E t \in Threads : Count(t) \/ End(t)

\* stop_flag is set, every thread then ends, and the function returns.
Spec == /\ Init /\ [][Next]_vars
        /\ WF_vars(Stop) /\ WF_vars(Return)
        /\ \A t \in Threads : stopped ~> t \notin live

=============================================================================
