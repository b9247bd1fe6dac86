\* Scanner, Kometa and two playback streams, one pass each, both journal
\* modes: two streams are needed for a COMMIT refused by the other's SHARED lock.
CONSTANTS
    scanner = scanner
    kometa = kometa
    pmm = pmm
    s1 = s1
    s2 = s2
    Scanner = scanner
    Updaters <- MCUpdatersOne
    Streams <- MCStreamsTwo
    MaxIter = 1
SPECIFICATION Spec
CHECK_DEADLOCK FALSE
INVARIANT TypeOK
INVARIANT CountsMatchCommitted
INVARIANT NoTransactionAtLoopHead
PROPERTY FanInRefined
