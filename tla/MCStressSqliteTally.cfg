\* One scanner, Kometa and one stream in both journal modes, one pass each:
\* the scanner's and Kometa's tallies of scan_writes can overlap.
CONSTANTS
    sc1 = sc1
    sc2 = sc2
    kometa = kometa
    s1 = s1
    s2 = s2
    None = None
    Scanners <- MCScannersOne
    Kometa = kometa
    Streams <- MCStreamsOne
    MaxIter = 1
SPECIFICATION Spec
\* The stress test really ends once every thread has been joined.
CHECK_DEADLOCK FALSE
PROPERTY TallyRefined
