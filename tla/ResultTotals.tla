----------------------------- MODULE ResultTotals -----------------------------
(***************************************************************************)
(* The fan-in shared by both parents of scripts/benchmark_multiprocess.py: *)
(* each worker process puts one tuple on result_queue, a 3-tuple           *)
(* (name, writes, errors) from a writer and a 5-tuple (name, reads,        *)
(* read_errors, writes, write_errors) from a playback stream; the parent   *)
(* adds them into a dict of totals.                                        *)
(***************************************************************************)
EXTENDS Integers, SequencesExt

TotalKeys == {"writes", "write_errors", "reads", "read_errors"}

\* results = {"writes": 0, "write_errors": 0, "reads": 0, "read_errors": 0}
NoTotals == [k \in TotalKeys |-> 0]

\* One tuple taken from the queue, dispatched on len(item) == 3.
AddItem(r, item) ==
    IF Len(item) = 3
    THEN [r EXCEPT !.writes = @ + item[2], !.write_errors = @ + item[3]]
    ELSE [r EXCEPT !.reads = @ + item[2], !.read_errors = @ + item[3],
                   !.writes = @ + item[4], !.write_errors = @ + item[5]]

\* The names of the processes whose tuples are in q.
Reporters(q) == {q[i][1] : i \in DOMAIN q}

=============================================================================
