\* Kometa and PMM on two ids: can a PostgreSQL writer transaction fail?
CONSTANTS
    scanner = scanner
    kometa = kometa
    pmm = pmm
    s1 = s1
    r1 = r1
    r2 = r2
    Scanner = scanner
    Kometa = kometa
    Pmm = pmm
    Streams <- MCStreams
    Rows <- MCRows
    MaxIter = 2
    MaxFaults = 0
SPECIFICATION Spec
\* The parent exits after printing the totals.
CHECK_DEADLOCK FALSE
INVARIANT UpdatersNeverFail
