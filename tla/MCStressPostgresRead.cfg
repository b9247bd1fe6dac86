\* A stream's SELECT raises and the same pass goes on to its progress INSERT.
CONSTANTS
    sc1 = sc1
    sc2 = sc2
    kometa = kometa
    s1 = s1
    Scanners <- MCScanners
    Kometa = kometa
    Streams <- MCStreams
    MaxIter = 2
    MaxFaults = 2
SPECIFICATION Spec
\* The stress test really ends once every thread has been joined.
CHECK_DEADLOCK FALSE
INVARIANT WriteNotPoisonedByRead
