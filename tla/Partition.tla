----------------------------- MODULE Partition ------------------------------
(***************************************************************************)
(* How ThreadPool::for_ranges and ThreadPool::map_reduce                   *)
(* (include/strata/threadpool.hpp) cut [0,n) into one range per task: the  *)
(* two loops that build the task list.  A range is <<lo, hi>>.             *)
(***************************************************************************)
EXTENDS Ranges, FiniteSets

CONSTANTS
    MaxRows,    \* bound: n
    MaxThreads  \* bound: size of the pool, and the nparts argument

ASSUME PartitionAssumption == MaxRows \in Nat /\ MaxThreads \in Nat

VARIABLES
    algo,       \* "for_ranges" or "map_reduce"; "none" before the call
    n,          \* rows
    P,          \* partitions, after the adjustments
    k,          \* loop counter
    ranges      \* the ranges of the tasks built so far

vars == <<algo, n, P, k, ranges>>

Init == algo = "none" /\ n = 0 /\ P = 0 /\ k = 0 /\ ranges = <<>>

(* The call.  Without rows for_ranges returns at once and map_reduce       *)
(* evaluates map(0, 0) on the calling thread.                              *)
Start ==
    /\ algo = "none"
    /\ algo' \in {"for_ranges", "map_reduce"}
    /\ n' \in 0 .. MaxRows
    /\ \E size \in 1 .. MaxThreads, nparts \in 0 .. MaxThreads :
            P' = Parts(size, nparts, n')
    /\ k' = 0
    /\ ranges' = IF n' = 0 /\ algo' = "map_reduce" THEN << <<0, 0>> >> ELSE <<>>

MutantChunk == n \div P

Chunk == ChunkSize(n, P)

Lo == k * Chunk

MutantHi == Lo + Chunk

Hi == Smaller(n, Lo + Chunk)

(* for_ranges: a partition without rows gets no task.                      *)
ForStep ==
    /\ algo = "for_ranges" /\ k < P
    /\ ranges' = IF Lo < Hi THEN Append(ranges, <<Lo, Hi>>) ELSE ranges
    /\ k' = k + 1
    /\ UNCHANGED <<algo, n, P>>

MapStep ==
    /\ algo = "map_reduce" /\ k < P
    /\ ranges' = Append(ranges, <<Lo, Hi>>)
    /\ k' = k + 1
    /\ UNCHANGED <<algo, n, P>>

Built == algo # "none" /\ k = P

(* run(tasks): the list is complete.                                       *)
Finished == Built /\ UNCHANGED vars

Next == Start \/ ForStep \/ MapStep \/ Finished

Spec == Init /\ [][Next]_vars

-----------------------------------------------------------------------------
(* Properties.                                                             *)

TypeOK ==
    /\ algo \in {"none", "for_ranges", "map_reduce"}
    /\ n \in 0 .. MaxRows /\ P \in 0 .. n /\ k \in 0 .. P
    /\ ranges \in Seq(Nat \X Nat)

(* The ranges of for_ranges are not empty and follow one another from 0 to *)
(* n, for every number of rows and partitions.  The tasks write the filter *)
(* mask through their ranges without a lock, so an overlap is a race and a *)
(* gap is rows the filter never saw.                                       *)
RangesTile ==
    Built /\ algo = "for_ranges" =>
        /\ \A i \in DOMAIN ranges :
            /\ ranges[i][1] < ranges[i][2]
            /\ ranges[i][1] = IF i = 1 THEN 0 ELSE ranges[i - 1][2]
        /\ n > 0 => ranges # <<>> /\ ranges[Len(ranges)][2] = n

(* A loop over the rows of each range (every reduction but the count of an *)
(* unfiltered query) visits each row once, also in map_reduce, whose last  *)
(* ranges can start behind their end.                                      *)
EachRowOnce ==
    Built => \A row \in 0 .. n - 1 :
        Cardinality({i \in DOMAIN ranges :
                        ranges[i][1] <= row /\ row < ranges[i][2]}) = 1

(* What the loops build is the closed form Ranges gives, from which the    *)
(* executor's model takes its tasks.                                       *)
LoopsBuildRanges ==
    /\ Built /\ algo = "for_ranges" => ranges = ForRanges(n, P)
    /\ Built /\ algo = "map_reduce" => ranges = MapRanges(n, P)
=============================================================================
