------------------------------- MODULE Ranges -------------------------------
(***************************************************************************)
(* The ranges ThreadPool::for_ranges and ThreadPool::map_reduce            *)
(* (include/strata/threadpool.hpp) hand to their tasks, in closed form.    *)
(* Partition has the loops that build them.  A range is <<lo, hi>> and     *)
(* stands for the rows lo + 1 .. hi.                                       *)
(***************************************************************************)
EXTENDS Integers, Sequences

Smaller(a, b) == IF a < b THEN a ELSE b

MutantParts(size, nparts, rows) == IF nparts # 0 THEN nparts ELSE size

(* P = nparts ? nparts : size(), at least 1, at most n.                    *)
Parts(size, nparts, rows) ==
    LET wanted == IF nparts # 0 THEN nparts ELSE size
    IN  Smaller(IF wanted = 0 THEN 1 ELSE wanted, rows)

(* chunk = (n + P - 1) / P                                                 *)
ChunkSize(rows, parts) == (rows + parts - 1) \div parts

(* Range i, counted from 1, of map_reduce.                                 *)
MapRange(rows, parts, i) ==
    <<(i - 1) * ChunkSize(rows, parts), Smaller(rows, i * ChunkSize(rows, parts))>>

(* map_reduce: one range per partition, and map(0, 0) without rows.        *)
MapRanges(rows, parts) ==
    IF rows = 0 THEN << <<0, 0>> >>
    ELSE [i \in 1 .. parts |-> MapRange(rows, parts, i)]

(* for_ranges: only the partitions that have rows, the first ceil(n/chunk). *)
ForRanges(rows, parts) ==
    LET c == ChunkSize(rows, parts)
    IN  IF rows = 0 THEN <<>>
        ELSE [i \in 1 .. (rows + c - 1) \div c |-> MapRange(rows, parts, i)]
=============================================================================
