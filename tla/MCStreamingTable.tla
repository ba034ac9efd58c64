-------------------------- MODULE MCStreamingTable --------------------------
(* Small instances of StreamingTable: one or two readers.  Readers differ  *)
(* in nothing but their name.                                              *)
EXTENDS StreamingTable, TLC

CONSTANTS r1, r2

OneReader == {r1}
TwoReaders == {r1, r2}
ReaderSymmetry == Permutations(TwoReaders)
=============================================================================
