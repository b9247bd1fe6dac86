------------------------------- MODULE FanIn -------------------------------
(***************************************************************************)
(* What the parents of scripts/benchmark_multiprocess.py promise about     *)
(* their workers' counts, without the queue or the tuples: every worker    *)
(* ends, either by reporting its counts or by dying without a report; once *)
(* all have ended the parent adds up, exactly once, the counts of those    *)
(* that reported, field by field.  MPSqlite and MPPostgres implement this   *)
(* with a multiprocessing.Queue of positional 3- and 5-tuples that the     *)
(* parent drains after joining every process.                              *)
(***************************************************************************)
EXTENDS Integers, Functions

CONSTANTS
    Workers,   \* the worker processes
    Keys       \* the names of the totals

VARIABLES
    status,    \* "running", "reported" or "died" for each worker
    sent,      \* the counts a worker reported, by name
    totals,    \* the parent's totals
    phase      \* "running" until the parent has collected, then "collected"

vars == <<status, sent, totals, phase>>

Zero == [k \in Keys |-> 0]

Init ==
    /\ status = [w \in Workers |-> "running"]
    /\ sent = [w \in Workers |-> Zero]
    /\ totals = Zero
    /\ phase = "running"

\* result_queue.put(...) at the end of a worker: its counts become final.
Report(w) ==
    /\ status[w] = "running"
    /\ status' = [status EXCEPT ![w] = "reported"]
    /\ sent' \in [Workers -> [Keys -> Nat]]
    /\ \A o \in Workers \ {w} : sent'[o] = sent[o]
    /\ UNCHANGED <<totals, phase>>

\* The process ends on an exception before it reports.
Die(w) ==
    /\ status[w] = "running"
    /\ status' = [status EXCEPT ![w] = "died"]
    /\ UNCHANGED <<sent, totals, phase>>

Reporters == {w \in Workers : status[w] = "reported"}

\* After every p.join(): each reporter's counts are added once, by name.
Collect ==
    /\ phase = "running"
    /\ \A w \in Workers : status[w] # "running"
    /\ totals' = [k \in Keys |-> SumFunctionOnSet([w \in Workers |-> sent[w][k]],
                                                 Reporters)]
    /\ phase' = "collected"
    /\ UNCHANGED <<status, sent>>

Next == Collect \/ \E w \in Workers : Report(w) \/ Die(w)

\* Every process ends (how long it runs is not the parent's to decide, so
\* this is stated of the workers directly), and the parent then collects.
Spec == /\ Init /\ [][Next]_vars
        /\ \A w \in Workers : <>(status[w] # "running")
        /\ WF_vars(Collect)

=============================================================================
