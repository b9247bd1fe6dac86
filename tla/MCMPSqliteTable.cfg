\* Scanner, Kometa and one stream, starting without the test tables (the
\* previous run dropped them): is every write error a lock error?
CONSTANTS
    scanner = scanner
    kometa = kometa
    pmm = pmm
    s1 = s1
    s2 = s2
    Scanner = scanner
    Updaters <- MCUpdatersOne
    Streams <- MCStreamsOne
    MaxIter = 2
SPECIFICATION Spec
CHECK_DEADLOCK FALSE
INVARIANT WriteErrorsAreLockErrors
