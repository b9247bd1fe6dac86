---------------------------- MODULE MCMPPostgres ----------------------------
(* Model-checking instance of MPPostgres: processes and metadata_items ids  *)
(* as model values.                                                        *)
EXTENDS MPPostgres

CONSTANTS scanner, kometa, pmm, s1, r1, r2

MCStreams == {s1}
MCRows == {r1, r2}
=============================================================================
