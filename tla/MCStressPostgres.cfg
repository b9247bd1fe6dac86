\* Two scanners, Kometa and one stream, two passes each, and up to two
\* statements that raise (an error or a lost connection).
CONSTANTS
    sc1 = sc1
    sc2 = sc2
    kometa = kometa
    s1 = s1
    Scanners <- MCScanners
    Kometa = kometa
    Streams <- MCStreams
    MaxIter = 2
    MaxFaults = 2
SPECIFICATION Spec
\* The stress test really ends once every thread has been joined.
CHECK_DEADLOCK FALSE
INVARIANT PoolNeverExhausted
INVARIANT NoLeakedConnection
PROPERTY TallyRefined
