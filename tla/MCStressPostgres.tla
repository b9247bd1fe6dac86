-------------------------- MODULE MCStressPostgres --------------------------
(* StressPostgres with the code's two scanners, Kometa and one stream.     *)
EXTENDS StressPostgres

CONSTANTS sc1, sc2, kometa, s1

MCScanners == {sc1, sc2}
MCStreams == {s1}

=============================================================================
