\* One stream whose SELECT may raise: is its INSERT run in an aborted transaction?
CONSTANTS
    scanner = scanner
    kometa = kometa
    pmm = pmm
    s1 = s1
    r1 = r1
    r2 = r2
    Scanner = scanner
    Kometa = kometa
    Pmm = pmm
    Streams <- MCStreams
    Rows <- MCRows
    MaxIter = 1
    MaxFaults = 1
SPECIFICATION Spec
\* The parent exits after printing the totals.
CHECK_DEADLOCK FALSE
INVARIANT WriteNotPoisonedByRead
