-------------------------- MODULE PartitionProofs ---------------------------
(***************************************************************************)
(* Theorems about Partition, for every number of rows and every number of  *)
(* threads: the counters stay in range, the ranges of for_ranges tile      *)
(* [0,n), and every row is in one range of either algorithm.               *)
(***************************************************************************)
EXTENDS Partition, SequenceTheorems, FiniteSetTheorems, TLAPS

(* Rounding up: P chunks of ceil(rows / parts) rows reach the last row.    *)
LEMMA Ceiling ==
    ASSUME NEW rows \in Nat, NEW parts \in Nat, parts >= 1
    PROVE  LET c == (rows + parts - 1) \div parts
           IN  /\ c \in Nat
               /\ parts * c >= rows
               /\ rows >= 1 => c >= 1
<1> DEFINE a == rows + parts - 1
           c == a \div parts
<1>1. a \in Nat
    OBVIOUS
<1> HIDE DEF a
<1>2. c \in Nat /\ a < parts * c + parts
    BY <1>1
<1> HIDE DEF c
<1>3. parts * c \in Nat
    BY <1>2
<1>4. parts * c >= rows
    BY <1>2, <1>3 DEF a
<1>5. c = 0 => parts * c = 0
    BY <1>2
<1> QED
    BY <1>2, <1>4, <1>5 DEF c, a

(* The k-th range starts where the one before it ended.                    *)
LEMMA NextLo ==
    ASSUME NEW i \in Nat, NEW c \in Nat
    PROVE  i * c \in Nat /\ (i + 1) * c = i * c + c
OBVIOUS

LEMMA Monotone ==
    ASSUME NEW i \in Nat, NEW j \in Nat, NEW c \in Nat, i <= j
    PROVE  i * c <= j * c
<1>1. j * c = i * c + (j - i) * c
    OBVIOUS
<1>2. (j - i) * c \in Nat /\ i * c \in Nat /\ j * c \in Nat
    <2>1. j - i \in Nat
        OBVIOUS
    <2> QED
        BY <2>1
<1> QED
    BY <1>1, <1>2

(* The chunk a row lies in.                                                *)
LEMMA Quotient ==
    ASSUME NEW row \in Nat, NEW c \in Nat, c >= 1
    PROVE  /\ row \div c \in Nat
           /\ (row \div c) * c <= row
           /\ row < (row \div c) * c + c
OBVIOUS

(* A chunk that begins at or before a row is not beyond that row's.        *)
LEMMA Below ==
    ASSUME NEW row \in Nat, NEW c \in Nat, NEW i \in Nat, NEW j \in Nat,
           i * c <= row, row < j * c
    PROVE  i < j
<1> SUFFICES ASSUME j <= i PROVE FALSE
    OBVIOUS
<1>1. j * c <= i * c
    BY Monotone
<1> QED
    BY <1>1, NextLo

LEMMA SameChunk ==
    ASSUME NEW row \in Nat, NEW c \in Nat, NEW i \in Nat, NEW j \in Nat,
           i * c <= row, row < i * c + c, j * c <= row, row < j * c + c
    PROVE  i = j
<1>1. row < (i + 1) * c /\ row < (j + 1) * c
    BY NextLo
<1>2. i < j + 1 /\ j < i + 1
    BY <1>1, Below
<1> QED
    BY <1>2

(* The number of partitions is between one and the number of rows.         *)
LEMMA PartsBounds ==
    ASSUME NEW size \in Nat, NEW nparts \in Nat, NEW rows \in Nat
    PROVE  /\ Parts(size, nparts, rows) \in 0 .. rows
           /\ rows >= 1 => Parts(size, nparts, rows) >= 1
BY DEF Parts, Smaller

-----------------------------------------------------------------------------
(* The inductive invariant.  Mid-loop the ranges reach as far as the       *)
(* counter: up to row k * Chunk, or n once that is beyond it.              *)

Reached == Smaller(n, k * Chunk)

Chained ==
    \A i \in DOMAIN ranges :
        /\ ranges[i][1] < ranges[i][2]
        /\ ranges[i][1] = IF i = 1 THEN 0 ELSE ranges[i - 1][2]

PInv ==
    /\ TypeOK
    /\ algo # "none" /\ n >= 1 => P >= 1
    /\ algo = "for_ranges" =>
        /\ Chained
        /\ ranges = <<>> => k = 0 \/ n = 0
        /\ ranges # <<>> => ranges[Len(ranges)][2] = Reached

LEMMA InitPInv == Init => PInv
BY PartitionAssumption DEF Init, PInv, TypeOK

LEMMA StartPInv == ASSUME PInv, Start PROVE PInv'
<1>1. PICK size \in 1 .. MaxThreads, nparts \in 0 .. MaxThreads :
            P' = Parts(size, nparts, n')
    BY DEF Start
<1>2. n' \in 0 .. MaxRows /\ n' \in Nat
    BY PartitionAssumption DEF Start
<1>3. P' \in 0 .. n' /\ (n' >= 1 => P' >= 1)
    BY <1>1, <1>2, PartitionAssumption, PartsBounds
<1>4. ranges' \in Seq(Nat \X Nat)
    <2> DEFINE none == <<0, 0>>
    <2>1. none \in Nat \X Nat
        OBVIOUS
    <2>2. ranges' = << none >> \/ ranges' = <<>>
        BY DEF Start
    <2>3. ASSUME NEW S, NEW e \in S PROVE << e >> \in Seq(S) /\ <<>> \in Seq(S)
        OBVIOUS
    <2> HIDE DEF none
    <2> QED
        BY <2>1, <2>2, <2>3
<1>5. TypeOK'
    BY <1>2, <1>3, <1>4 DEF Start, TypeOK
<1>6. algo' = "for_ranges" => ranges' = <<>> /\ k' = 0
    BY DEF Start
<1> QED
    BY <1>3, <1>5, <1>6 DEF PInv, Chained

(* What a loop iteration starts from.                                      *)
LEMMA LoopFacts ==
    ASSUME TypeOK, k < P, n >= 1 => P >= 1
    PROVE  /\ n \in Nat /\ n >= 1 /\ P \in Nat /\ k \in Nat
           /\ Chunk \in Nat /\ Chunk >= 1
           /\ Lo \in Nat /\ Hi \in Nat
           /\ k * Chunk = Lo /\ (k + 1) * Chunk = Lo + Chunk
<1>1. n \in Nat /\ P \in Nat /\ P <= n /\ k \in Nat /\ n >= 1 /\ P >= 1
    BY PartitionAssumption DEF TypeOK
<1>2. Chunk \in Nat /\ Chunk >= 1
    BY <1>1, Ceiling DEF Chunk, ChunkSize
<1>3. Lo \in Nat /\ (k + 1) * Chunk = Lo + Chunk
    BY <1>1, <1>2, NextLo DEF Lo
<1> QED
    BY <1>1, <1>2, <1>3 DEF Lo, Hi, Smaller

LEMMA ForStepPInv == ASSUME PInv, ForStep PROVE PInv'
<1>1. TypeOK /\ k < P /\ algo = "for_ranges" /\ (n >= 1 => P >= 1)
    BY DEF PInv, ForStep
<1>2. /\ n \in Nat /\ n >= 1 /\ P \in Nat /\ k \in Nat
      /\ Chunk \in Nat /\ Chunk >= 1
      /\ Lo \in Nat /\ Hi \in Nat
      /\ k * Chunk = Lo /\ (k + 1) * Chunk = Lo + Chunk
    BY <1>1, LoopFacts
<1>3. /\ k' = k + 1 /\ n' = n /\ P' = P /\ algo' = algo
      /\ ranges' = IF Lo < Hi THEN Append(ranges, <<Lo, Hi>>) ELSE ranges
    BY DEF ForStep
<1>4. Chunk' = Chunk
    BY <1>3 DEF Chunk, ChunkSize
<1>5. Reached' = Smaller(n, Lo + Chunk)
    BY <1>2, <1>3, <1>4 DEF Reached
<1>6. Reached' = Hi
    BY <1>5 DEF Hi
<1>7. ranges \in Seq(Nat \X Nat)
    BY <1>1 DEF TypeOK
<1>8. TypeOK'
    <2>1. ranges' \in Seq(Nat \X Nat)
        BY <1>2, <1>3, <1>7
    <2> QED
        BY <1>1, <1>2, <1>3, <2>1 DEF TypeOK
<1>9. CASE Lo < Hi
    <2>1. Lo < n /\ Reached = Lo
        BY <1>2, <1>9 DEF Hi, Smaller, Reached
    <2>2. /\ Len(ranges) \in Nat /\ Len(ranges') = Len(ranges) + 1
          /\ DOMAIN ranges = 1 .. Len(ranges)
          /\ DOMAIN ranges' = 1 .. Len(ranges) + 1
          /\ ranges'[Len(ranges) + 1] = <<Lo, Hi>>
          /\ \A i \in 1 .. Len(ranges) : ranges'[i] = ranges[i]
        BY <1>2, <1>3, <1>7, <1>9, AppendProperties, LenProperties
    <2>3. ranges' # <<>>
        BY <2>2
    <2>4. Lo = IF Len(ranges) = 0 THEN 0 ELSE ranges[Len(ranges)][2]
        <3>1. CASE ranges = <<>>
            <4>1. k = 0
                BY <1>1, <1>2, <3>1 DEF PInv
            <4> QED
                BY <1>2, <3>1, <4>1
        <3>2. CASE ranges # <<>>
            BY <1>1, <1>7, <2>1, <2>2, <3>2, EmptySeq DEF PInv
        <3> QED
            BY <3>1, <3>2
    <2>5. Chained'
        <3> SUFFICES ASSUME NEW i \in DOMAIN ranges'
                     PROVE  /\ ranges'[i][1] < ranges'[i][2]
                            /\ ranges'[i][1] =
                                    IF i = 1 THEN 0 ELSE ranges'[i - 1][2]
            BY DEF Chained
        <3>1. CASE i = Len(ranges) + 1
            BY <1>9, <2>2, <2>4, <3>1
        <3>2. CASE i # Len(ranges) + 1
            <4>1. /\ i \in DOMAIN ranges
                  /\ i # 1 => i - 1 \in 1 .. Len(ranges)
                BY <2>2, <3>2
            <4>2. Chained
                BY <1>1 DEF PInv
            <4> QED
                BY <2>2, <4>1, <4>2 DEF Chained
        <3> QED
            BY <3>1, <3>2
    <2>6. ranges'[Len(ranges')][2] = Reached'
        BY <1>6, <2>2
    <2> QED
        BY <1>1, <1>2, <1>3, <1>8, <2>3, <2>5, <2>6 DEF PInv
<1>10. CASE ~(Lo < Hi)
    <2>1. n <= Lo /\ Reached = n /\ Reached' = n
        BY <1>2, <1>5, <1>10 DEF Hi, Smaller, Reached
    <2>2. ranges # <<>>
        <3>1. CASE k = 0
            BY <1>2, <2>1, <3>1
        <3> QED
            BY <1>1, <1>2, <3>1 DEF PInv
    <2>3. ranges' = ranges /\ Chained' /\ ranges'[Len(ranges')][2] = Reached'
        BY <1>1, <1>3, <1>10, <2>1, <2>2 DEF PInv, Chained
    <2> QED
        BY <1>1, <1>2, <1>3, <1>8, <2>2, <2>3 DEF PInv
<1> QED
    BY <1>9, <1>10

LEMMA MapStepPInv == ASSUME PInv, MapStep PROVE PInv'
<1>1. TypeOK /\ k < P /\ algo = "map_reduce" /\ (n >= 1 => P >= 1)
    BY DEF PInv, MapStep
<1>2. n \in Nat /\ P \in Nat /\ k \in Nat /\ Lo \in Nat /\ Hi \in Nat
    BY <1>1, LoopFacts
<1>3. ranges' \in Seq(Nat \X Nat)
    BY <1>1, <1>2 DEF MapStep, TypeOK
<1> QED
    BY <1>1, <1>2, <1>3 DEF MapStep, PInv, TypeOK

LEMMA NextPInv == PInv /\ [Next]_vars => PInv'
<1> SUFFICES ASSUME PInv, [Next]_vars PROVE PInv'
    OBVIOUS
<1>1. CASE UNCHANGED vars
    BY <1>1 DEF vars, PInv, TypeOK, Chained, Reached, Chunk, ChunkSize
<1> QED
    BY <1>1, StartPInv, ForStepPInv, MapStepPInv DEF Next, Finished

(* In every state of either loop the ranges built so far are in order and  *)
(* reach as far as the loop counter says.                                  *)
THEOREM PartitionInvariance == Spec => []PInv
BY InitPInv, NextPInv, PTL DEF Spec

-----------------------------------------------------------------------------

(* Neither the partition count nor the loop counter leaves its range, and  *)
(* the bounds of every range are natural numbers.                          *)
THEOREM PartitionTypes == Spec => []TypeOK
<1>1. PInv => TypeOK
    BY DEF PInv
<1> QED
    BY <1>1, PartitionInvariance, PTL

(* for_ranges (threadpool.hpp:51-65) cuts [0,n) without gap or overlap for *)
(* every n and every number of partitions.                                 *)
THEOREM Tiling == Spec => []RangesTile
<1>1. PInv => RangesTile
    <2> SUFFICES ASSUME PInv, Built, algo = "for_ranges"
                 PROVE  /\ Chained
                        /\ n > 0 => ranges # <<>> /\ ranges[Len(ranges)][2] = n
        BY DEF RangesTile, Chained
    <2>1. n \in Nat /\ P \in Nat /\ k = P
        BY PartitionAssumption DEF PInv, TypeOK, Built
    <2>2. ASSUME n > 0
          PROVE  P >= 1 /\ Reached = n
        <3>1. P >= 1
            BY <2>1, <2>2 DEF PInv
        <3>2. Chunk \in Nat /\ P * Chunk >= n
            BY <2>1, <3>1, Ceiling DEF Chunk, ChunkSize
        <3> QED
            BY <2>1, <3>1, <3>2 DEF Reached, Smaller
    <2> QED
        BY <2>1, <2>2 DEF PInv
<1> QED
    BY <1>1, PartitionInvariance, PTL

-----------------------------------------------------------------------------
(* For single rows one must know where each range lies: the i-th begins    *)
(* i - 1 chunks from the start.  Only for_ranges skips iterations, and     *)
(* only once the ranges already reach n.                                   *)

RangeAt(i) == <<(i - 1) * Chunk, Smaller(n, (i - 1) * Chunk + Chunk)>>

Placed ==
    /\ \A i \in DOMAIN ranges : ranges[i] = RangeAt(i)
    /\ Len(ranges) <= k
    /\ Len(ranges) = k \/ Len(ranges) * Chunk >= n

PlacedInv == algo # "none" /\ n >= 1 => Placed

LEMMA InitPlaced == Init => PlacedInv
BY DEF Init, PlacedInv

LEMMA StartPlaced == ASSUME Start PROVE PlacedInv'
<1>1. n' >= 1 => ranges' = <<>> /\ k' = 0
    BY PartitionAssumption DEF Start
<1> QED
    BY <1>1 DEF PlacedInv, Placed

(* An iteration that appends the range it computes.                        *)
LEMMA AppendPlaced ==
    ASSUME PInv, PlacedInv, algo # "none", k < P, Len(ranges) = k,
           k' = k + 1, n' = n, P' = P, ranges' = Append(ranges, <<Lo, Hi>>)
    PROVE  Placed'
<1>1. /\ n \in Nat /\ n >= 1 /\ P \in Nat /\ k \in Nat
      /\ Lo \in Nat /\ Hi \in Nat /\ ranges \in Seq(Nat \X Nat)
    BY LoopFacts DEF PInv, TypeOK
<1>2. /\ DOMAIN ranges = 1 .. k /\ DOMAIN ranges' = 1 .. k + 1
      /\ Len(ranges') = k + 1
      /\ ranges'[k + 1] = <<Lo, Hi>>
      /\ \A i \in 1 .. k : ranges'[i] = ranges[i]
    BY <1>1, AppendProperties, LenProperties
<1>3. Chunk' = Chunk
    BY DEF Chunk, ChunkSize
<1>4. ASSUME NEW i \in 1 .. k + 1 PROVE ranges'[i] = RangeAt(i)'
    <2>1. RangeAt(i)' = RangeAt(i)
        BY <1>3 DEF RangeAt
    <2>2. CASE i = k + 1
        <3>1. i - 1 = k
            BY <1>1, <2>2
        <3> QED
            BY <1>2, <2>1, <2>2, <3>1 DEF RangeAt, Lo, Hi
    <2>3. CASE i # k + 1
        <3>1. i \in 1 .. k
            BY <1>1, <2>3
        <3>2. ranges[i] = RangeAt(i)
            BY <1>1, <1>2, <3>1 DEF PlacedInv, Placed
        <3> QED
            BY <1>2, <2>1, <3>1, <3>2
    <2> QED
        BY <2>2, <2>3
<1> QED
    BY <1>1, <1>2, <1>4 DEF Placed

LEMMA ForStepPlaced == ASSUME PInv, PlacedInv, ForStep PROVE PlacedInv'
<1>1. /\ algo # "none" /\ k < P /\ TypeOK /\ (n >= 1 => P >= 1)
      /\ k' = k + 1 /\ n' = n /\ P' = P
      /\ ranges' = IF Lo < Hi THEN Append(ranges, <<Lo, Hi>>) ELSE ranges
    BY DEF ForStep, PInv
<1>2. /\ n \in Nat /\ n >= 1 /\ P \in Nat /\ k \in Nat
      /\ Chunk \in Nat /\ Chunk >= 1 /\ Lo \in Nat
      /\ k * Chunk = Lo
    BY <1>1, LoopFacts
<1>3. Len(ranges) \in Nat /\ Placed
    BY <1>1, <1>2, LenProperties DEF PlacedInv, TypeOK
<1>4. Chunk' = Chunk
    BY <1>1 DEF Chunk, ChunkSize
<1>5. CASE Lo < Hi
    <2>1. k * Chunk < n
        BY <1>2, <1>5 DEF Hi, Smaller
    <2>2. Len(ranges) = k
        <3> SUFFICES ASSUME Len(ranges) # k PROVE FALSE
            OBVIOUS
        <3>1. Len(ranges) <= k /\ Len(ranges) * Chunk >= n
            BY <1>3 DEF Placed
        <3>2. k * Chunk >= Len(ranges) * Chunk
            BY <1>2, <1>3, <3>1, Monotone
        <3> QED
            BY <1>2, <1>3, <2>1, <3>1, <3>2, NextLo
    <2> QED
        BY <1>1, <1>5, <2>2, AppendPlaced DEF PlacedInv
<1>6. CASE ~(Lo < Hi)
    <2>1. Lo >= n
        BY <1>2, <1>6 DEF Hi, Smaller
    <2>2. Len(ranges) * Chunk >= n
        BY <1>2, <1>3, <2>1 DEF Placed
    <2>3. ranges' = ranges /\ Len(ranges') <= k'
        BY <1>1, <1>2, <1>3, <1>6 DEF Placed
    <2>4. ASSUME NEW i \in DOMAIN ranges' PROVE ranges'[i] = RangeAt(i)'
        BY <1>1, <1>3, <1>4, <2>3 DEF Placed, RangeAt
    <2> QED
        BY <1>1, <1>4, <2>2, <2>3, <2>4 DEF PlacedInv, Placed
<1> QED
    BY <1>5, <1>6

(* map_reduce appends in every iteration.                                  *)
MapLength == algo = "map_reduce" /\ n >= 1 => Len(ranges) = k

LEMMA NextMapLength == PInv /\ MapLength /\ [Next]_vars => MapLength'
<1> SUFFICES ASSUME PInv, MapLength, [Next]_vars PROVE MapLength'
    OBVIOUS
<1>1. CASE Start
    <2>1. n' >= 1 => ranges' = <<>> /\ k' = 0
        BY <1>1, PartitionAssumption DEF Start
    <2> QED
        BY <2>1 DEF MapLength
<1>2. CASE ForStep
    BY <1>2 DEF ForStep, MapLength
<1>3. CASE MapStep
    <2>1. /\ n >= 1 /\ Lo \in Nat /\ Hi \in Nat /\ ranges \in Seq(Nat \X Nat)
        BY <1>3, LoopFacts DEF PInv, MapStep, TypeOK
    <2>2. Len(ranges') = Len(ranges) + 1
        BY <1>3, <2>1, AppendProperties DEF MapStep
    <2> QED
        BY <1>3, <2>1, <2>2 DEF MapStep, MapLength
<1>4. CASE UNCHANGED vars
    BY <1>4 DEF vars, MapLength
<1> QED
    BY <1>1, <1>2, <1>3, <1>4 DEF Next, Finished

LEMMA MapStepPlaced ==
    ASSUME PInv, PlacedInv, MapLength, MapStep PROVE PlacedInv'
<1>1. n >= 1
    BY LoopFacts DEF PInv, MapStep
<1> QED
    BY <1>1, AppendPlaced DEF MapStep, MapLength, PlacedInv

LEMMA NextPlaced ==
    PInv /\ PlacedInv /\ MapLength /\ [Next]_vars => PlacedInv'
<1> SUFFICES ASSUME PInv, PlacedInv, MapLength, [Next]_vars PROVE PlacedInv'
    OBVIOUS
<1>1. CASE UNCHANGED vars
    BY <1>1 DEF vars, PlacedInv, Placed, RangeAt, Chunk, ChunkSize
<1> QED
    BY <1>1, StartPlaced, ForStepPlaced, MapStepPlaced DEF Next, Finished

(* In every state the i-th range built begins i - 1 chunks from the start, *)
(* and none of [0,n) that the loop has passed is missing.                  *)
THEOREM Placement == Spec => [](PInv /\ PlacedInv)
<1>1. Init => MapLength
    BY DEF Init, MapLength
<1> QED
    BY <1>1, InitPInv, InitPlaced, NextPInv, NextMapLength, NextPlaced, PTL
    DEF Spec

(* Every row is in exactly one of the ranges, of for_ranges and of         *)
(* map_reduce, though the latter's last ranges can start behind their end  *)
(* (threadpool.hpp:82-86).                                                 *)
THEOREM RowsOnce == Spec => []EachRowOnce
<1>1. PInv /\ PlacedInv => EachRowOnce
    <2> SUFFICES ASSUME PInv, PlacedInv, Built, NEW row \in 0 .. n - 1
                 PROVE  Cardinality({i \in DOMAIN ranges :
                            ranges[i][1] <= row /\ row < ranges[i][2]}) = 1
        BY DEF EachRowOnce
    <2> DEFINE hits == {i \in DOMAIN ranges :
                            ranges[i][1] <= row /\ row < ranges[i][2]}
               i0 == row \div Chunk + 1
    <2>1. /\ n \in Nat /\ n >= 1 /\ P \in Nat /\ P >= 1 /\ k = P /\ row \in Nat
          /\ row < n /\ ranges \in Seq(Nat \X Nat)
        BY PartitionAssumption DEF PInv, TypeOK, Built
    <2>2. Chunk \in Nat /\ Chunk >= 1 /\ P * Chunk >= n
        BY <2>1, Ceiling DEF Chunk, ChunkSize
    <2>3. Placed /\ Len(ranges) \in Nat /\ DOMAIN ranges = 1 .. Len(ranges)
        BY <2>1, LenProperties DEF PlacedInv, Built
    <2>4. Len(ranges) * Chunk >= n
        BY <2>1, <2>2, <2>3 DEF Placed
    <2>5. /\ i0 \in Nat /\ i0 >= 1 /\ i0 - 1 \in Nat
          /\ (i0 - 1) * Chunk <= row /\ row < (i0 - 1) * Chunk + Chunk
        <3>1. i0 - 1 = row \div Chunk /\ row \div Chunk \in Nat
            BY <2>1, <2>2, Quotient
        <3>2. i0 \in Nat /\ i0 >= 1
            BY <3>1
        <3> QED
            BY <2>1, <2>2, <3>1, <3>2, Quotient
    <2> HIDE DEF i0
    <2>6. i0 \in DOMAIN ranges
        <3>1. row < Len(ranges) * Chunk
            BY <2>1, <2>2, <2>3, <2>4, NextLo
        <3>2. i0 - 1 < Len(ranges)
            BY <2>1, <2>2, <2>3, <2>5, <3>1, Below
        <3> QED
            BY <2>3, <2>5, <3>2
    <2>7. ASSUME NEW i \in DOMAIN ranges
          PROVE  /\ ranges[i][1] = (i - 1) * Chunk
                 /\ ranges[i][2] = Smaller(n, (i - 1) * Chunk + Chunk)
                 /\ i \in Nat /\ i - 1 \in Nat
                 /\ (i - 1) * Chunk \in Nat
        <3>1. i \in Nat /\ i - 1 \in Nat
            BY <2>3
        <3>2. (i - 1) * Chunk \in Nat
            BY <2>2, <3>1, NextLo
        <3> QED
            BY <2>3, <3>1, <3>2 DEF Placed, RangeAt
    <2>8. i0 \in hits
        BY <2>1, <2>2, <2>5, <2>6, <2>7 DEF Smaller
    <2>9. ASSUME NEW i \in hits PROVE i = i0
        <3>1. /\ i \in Nat /\ i - 1 \in Nat
              /\ (i - 1) * Chunk <= row /\ row < (i - 1) * Chunk + Chunk
            <4> DEFINE lo == (i - 1) * Chunk
            <4>1. i \in DOMAIN ranges /\ ranges[i][1] <= row /\ row < ranges[i][2]
                OBVIOUS
            <4>2. /\ ranges[i][1] = lo /\ ranges[i][2] = Smaller(n, lo + Chunk)
                  /\ i \in Nat /\ i - 1 \in Nat /\ lo \in Nat
                BY <2>7, <4>1
            <4> HIDE DEF lo
            <4>3. lo <= row /\ row < lo + Chunk
                BY <2>1, <2>2, <4>1, <4>2 DEF Smaller
            <4> QED
                BY <4>2, <4>3 DEF lo
        <3>2. i - 1 = i0 - 1
            BY <2>1, <2>2, <2>5, <3>1, SameChunk
        <3> QED
            BY <2>5, <3>1, <3>2
    <2>10. hits = {i0}
        BY <2>8, <2>9
    <2> QED
        BY <2>10, FS_Singleton
<1> QED
    BY <1>1, Placement, PTL

-----------------------------------------------------------------------------
(* The loops and their closed forms.  A call without rows builds its list  *)
(* at once.                                                                *)

NoRows ==
    n = 0 => /\ algo = "for_ranges" => ranges = <<>>
             /\ algo = "map_reduce" => ranges = << <<0, 0>> >>

LEMMA NextNoRows == PInv /\ NoRows /\ [Next]_vars => NoRows'
<1> SUFFICES ASSUME PInv, NoRows, [Next]_vars PROVE NoRows'
    OBVIOUS
<1>1. CASE Start
    BY <1>1 DEF Start, NoRows
<1>2. CASE ForStep \/ MapStep
    <2>1. n >= 1 /\ n \in Nat /\ n' = n
        BY <1>2, LoopFacts DEF PInv, ForStep, MapStep
    <2> QED
        BY <2>1 DEF NoRows
<1>3. CASE UNCHANGED vars
    BY <1>3 DEF vars, NoRows
<1> QED
    BY <1>1, <1>2, <1>3 DEF Next, Finished

(* The number of chunks that have a row is the only one that reaches the   *)
(* last row and whose last chunk begins before it.                         *)
LEMMA ChunkCount ==
    ASSUME NEW rows \in Nat, NEW c \in Nat, NEW m \in Nat,
           c >= 1, m >= 1, m * c >= rows, (m - 1) * c < rows
    PROVE  m = (rows + c - 1) \div c
<1> DEFINE q == (rows + c - 1) \div c
<1>1. rows >= 1
    <2>1. m - 1 \in Nat
        OBVIOUS
    <2> QED
        BY <2>1, NextLo
<1>2. q \in Nat /\ q * c <= rows + c - 1 /\ rows + c - 1 < q * c + c
    <2>1. rows + c - 1 \in Nat
        OBVIOUS
    <2> QED
        BY <2>1, Quotient
<1> HIDE DEF q
<1>3. m * c \in Nat /\ q * c \in Nat /\ m * c = (m - 1) * c + c
    <2>1. m - 1 \in Nat
        OBVIOUS
    <2>2. (m - 1 + 1) * c = (m - 1) * c + c
        BY <2>1, NextLo
    <2> QED
        BY <1>2, <2>2, NextLo
<1>4. q <= m
    <2> SUFFICES ASSUME m + 1 <= q PROVE FALSE
        BY <1>2
    <2>1. (m + 1) * c <= q * c /\ (m + 1) * c = m * c + c
        BY <1>2, Monotone, NextLo
    <2> QED
        BY <1>2, <1>3, <2>1
<1>5. m <= q
    <2> SUFFICES ASSUME q + 1 <= m PROVE FALSE
        BY <1>2
    <2>1. (q + 1) * c <= m * c /\ (q + 1) * c = q * c + c
        BY <1>2, Monotone, NextLo
    <2>2. (m - 1) * c \in Int
        BY <1>3
    <2> QED
        BY <1>2, <1>3, <2>1, <2>2
<1> QED
    BY <1>2, <1>4, <1>5 DEF q

(* A placed range is the one the closed form names.                        *)
LEMMA RangeIsMapRange ==
    ASSUME PInv, PlacedInv, algo # "none", n >= 1, NEW i \in DOMAIN ranges
    PROVE  i \in Nat /\ i >= 1 /\ ranges[i] = MapRange(n, P, i)
<1>1. n \in Nat /\ P \in Nat /\ P >= 1 /\ ranges \in Seq(Nat \X Nat)
    BY PartitionAssumption DEF PInv, TypeOK
<1>2. Chunk \in Nat
    BY <1>1, Ceiling DEF Chunk, ChunkSize
<1>3. i \in Nat /\ i >= 1 /\ i - 1 \in Nat
    BY <1>1, LenProperties
<1>4. (i - 1 + 1) * Chunk = (i - 1) * Chunk + Chunk
    BY <1>2, <1>3, NextLo
<1>5. i * Chunk = (i - 1) * Chunk + Chunk
    BY <1>3, <1>4
<1>6. ranges[i] = RangeAt(i)
    BY DEF PlacedInv, Placed
<1>7. RangeAt(i) = <<(i - 1) * Chunk, Smaller(n, i * Chunk)>>
    BY <1>5 DEF RangeAt
<1> QED
    BY <1>3, <1>6, <1>7 DEF MapRange, Chunk

(* A finished for_ranges has one range for every chunk that has a row.     *)
LEMMA ForLength ==
    ASSUME PInv, PlacedInv, Built, algo = "for_ranges", n >= 1
    PROVE  Len(ranges) = (n + Chunk - 1) \div Chunk
<1>1. /\ n \in Nat /\ P \in Nat /\ P >= 1 /\ k = P
      /\ ranges \in Seq(Nat \X Nat) /\ Chained /\ ranges # <<>>
    BY PartitionAssumption DEF PInv, TypeOK, Built
<1>2. Chunk \in Nat /\ Chunk >= 1 /\ P * Chunk >= n
    BY <1>1, Ceiling DEF Chunk, ChunkSize
<1> DEFINE m == Len(ranges)
<1>3. m \in Nat /\ m >= 1 /\ DOMAIN ranges = 1 .. m
    BY <1>1, LenProperties, EmptySeq
<1>4. m * Chunk >= n
    BY <1>1, <1>2, <1>3 DEF PlacedInv, Placed
<1>5. (m - 1) * Chunk < n
    <2>1. m \in DOMAIN ranges /\ m - 1 \in Nat
        BY <1>3
    <2>2. ranges[m] = RangeAt(m) /\ ranges[m][1] < ranges[m][2]
        BY <1>1, <2>1 DEF PlacedInv, Placed, Chained
    <2>3. (m - 1) * Chunk \in Nat
        BY <1>2, <2>1, NextLo
    <2> HIDE DEF m
    <2>4. (m - 1) * Chunk < Smaller(n, (m - 1) * Chunk + Chunk)
        BY <2>2 DEF RangeAt
    <2> QED
        BY <1>1, <1>2, <2>3, <2>4 DEF Smaller
<1> HIDE DEF m
<1>6. m = (n + Chunk - 1) \div Chunk
    BY <1>1, <1>2, <1>3, <1>4, <1>5, ChunkCount
<1> QED
    BY <1>6 DEF m

(* The loops of for_ranges and map_reduce (threadpool.hpp:51-103) build,   *)
(* for every n and every number of partitions, the ranges that Ranges      *)
(* gives in closed form and the executor's model cuts its tables with.     *)
THEOREM LoopsAreClosed == Spec => []LoopsBuildRanges
<1>1. ASSUME PInv, PlacedInv, MapLength, NoRows PROVE LoopsBuildRanges
    <2>1. n \in Nat /\ P \in Nat /\ ranges \in Seq(Nat \X Nat)
        BY <1>1, PartitionAssumption DEF PInv, TypeOK
    <2>2. CASE n = 0
        BY <1>1, <2>2 DEF LoopsBuildRanges, NoRows, ForRanges, MapRanges
    <2>3. CASE n >= 1 /\ Built
        <3>1. \A i \in DOMAIN ranges : ranges[i] = MapRange(n, P, i)
            BY <1>1, <2>3, RangeIsMapRange DEF Built
        <3>2. ranges = [i \in 1 .. Len(ranges) |-> MapRange(n, P, i)]
            BY <2>1, <3>1, LenProperties
        <3>3. algo = "for_ranges" => ranges = ForRanges(n, P)
            BY <1>1, <2>1, <2>3, <3>2, ForLength DEF ForRanges, Chunk
        <3>4. algo = "map_reduce" => ranges = MapRanges(n, P)
            BY <1>1, <2>1, <2>3, <3>2 DEF MapLength, Built, MapRanges
        <3> QED
            BY <3>3, <3>4 DEF LoopsBuildRanges
    <2> QED
        BY <2>1, <2>2, <2>3 DEF LoopsBuildRanges
<1>2. Init => MapLength /\ NoRows
    BY DEF Init, MapLength, NoRows
<1> QED
    BY <1>1, <1>2, InitPInv, InitPlaced, NextPInv, NextMapLength, NextPlaced,
       NextNoRows, PTL DEF Spec
=============================================================================
