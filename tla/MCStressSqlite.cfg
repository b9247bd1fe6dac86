\* One scanner, Kometa and two streams in both journal modes, one pass each
\* before stop_flag: the streams can refuse each other's COMMIT.
CONSTANTS
    sc1 = sc1
    sc2 = sc2
    kometa = kometa
    s1 = s1
    s2 = s2
    None = None
    Scanners <- MCScannersOne
    Kometa = kometa
    Streams <- MCStreamsTwo
    MaxIter = 1
SPECIFICATION Spec
\* The stress test really ends once every thread has been joined.
CHECK_DEADLOCK FALSE
INVARIANT TypeOK
INVARIANT CountersMatchDatabase
INVARIANT NoLockAtLoopHead
PROPERTY StressFinishes
