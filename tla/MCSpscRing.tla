----------------------------- MODULE MCSpscRing -----------------------------
(* Small instances of SpscRing: two batches to tell apart.                 *)
EXTENDS SpscRing

CONSTANTS v1, v2

MCValues == {v1, v2}
=============================================================================
