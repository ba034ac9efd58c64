---------------------------- MODULE MCThreadPool ----------------------------
(* Small instances of ThreadPool: two callers.                      *)
EXTENDS ThreadPool

CONSTANTS c1, c2

TwoCallers == {c1, c2}
=============================================================================
