\* Seven totals per test, some around 200 errors, where the rounded
\* percentage of fewer errors reaches 0 or 100; both outcomes of find_plex_db.
CONSTANTS
    Results <- MCResults
    NPaths = 2
    None = None
SPECIFICATION Spec
\* main ends, after sys.exit(1) or the summary.
CHECK_DEADLOCK FALSE
INVARIANT FewerPctTruthful
