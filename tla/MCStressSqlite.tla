--------------------------- MODULE MCStressSqlite ---------------------------
(* StressSqlite with one scanner, the Kometa thread and two streams.       *)
EXTENDS StressSqlite

CONSTANTS sc1, sc2, kometa, s1, s2

MCScannersOne == {sc1}
MCStreamsTwo == {s1, s2}
MCStreamsOne == {s1}

=============================================================================
