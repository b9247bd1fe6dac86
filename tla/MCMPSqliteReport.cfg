\* Scanner, Kometa and one playback stream: does every spawned process report?
CONSTANTS
    scanner = scanner
    kometa = kometa
    pmm = pmm
    s1 = s1
    s2 = s2
    Scanner = scanner
    Updaters <- MCUpdatersOne
    Streams <- MCStreamsOne
    MaxIter = 2
SPECIFICATION Spec
CHECK_DEADLOCK FALSE
INVARIANT AllWorkersReported
