--------------------------- MODULE MCStressSummary ---------------------------
EXTENDS StressSummary

\* StressResults(scan_writes, scan_errors, playback_reads,
\*               playback_read_errors, playback_writes, playback_write_errors)
SR(sw, se, pr, pre, pw, pwe) ==
    [scan_writes |-> sw, scan_errors |-> se, playback_reads |-> pr,
     playback_read_errors |-> pre, playback_writes |-> pw,
     playback_write_errors |-> pwe]

\* Nothing done (stop_flag before any pass); only errors; no errors; a
\* typical contended SQLite run; a typical PostgreSQL run; equal totals.
MCResults ==
    { SR(0, 0, 0, 0, 0, 0), SR(0, 1, 0, 1, 0, 1), SR(10, 0, 2, 0, 1, 0),
      SR(20, 3, 4, 2, 1, 2), SR(30, 0, 8, 0, 4, 0), SR(0, 0, 6, 0, 1, 0),
      SR(10, 1, 0, 0, 0, 0) }
=============================================================================
