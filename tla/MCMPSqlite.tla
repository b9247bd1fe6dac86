----------------------------- MODULE MCMPSqlite -----------------------------
(* Model-checking instance of MPSqlite: the scanner, the Kometa updater and *)
(* playback streams as model values, and a bound on each worker's passes.   *)
EXTENDS MPSqlite

CONSTANTS scanner, kometa, pmm, s1, s2

MCUpdatersOne == {kometa}
MCUpdaters == {kometa, pmm}
MCStreamsOne == {s1}
MCStreamsTwo == {s1, s2}
=============================================================================
