\* Seven StressResults per run, the empty one included, and both outcomes
\* of find_plex_db over its two candidate paths.
CONSTANTS
    Results <- MCResults
    NPaths = 2
    None = None
    Inf = Inf
SPECIFICATION Spec
\* main ends: after sys.exit(1), the summary, or an exception.
CHECK_DEADLOCK FALSE
INVARIANT NoZeroDivision
