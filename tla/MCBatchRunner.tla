--------------------------- MODULE MCBatchRunner ---------------------------
(* Small instances of BatchRunner for TLC. *)
EXTENDS BatchRunner

CONSTANTS t1, t2, t3, c1, c2
=============================================================================
