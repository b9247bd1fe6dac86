\* Scanner, Kometa, PMM and one stream; two ids; one pass each and two
\* statements that raise: a SELECT error poisoning the INSERT after it, and a
\* lost connection killing the scanner or the stream before it reports.
CONSTANTS
    scanner = scanner
    kometa = kometa
    pmm = pmm
    s1 = s1
    r1 = r1
    r2 = r2
    Scanner = scanner
    Kometa = kometa
    Pmm = pmm
    Streams <- MCStreams
    Rows <- MCRows
    MaxIter = 1
    MaxFaults = 2
SPECIFICATION Spec
\* The parent exits after printing the totals.
CHECK_DEADLOCK FALSE
INVARIANT TypeOK
INVARIANT CountsMatchCommitted
INVARIANT NoTransactionAtLoopHead
PROPERTY FanInRefined
