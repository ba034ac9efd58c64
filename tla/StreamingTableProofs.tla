------------------------- MODULE StreamingTableProofs -----------------------
(***************************************************************************)
(* Theorems about StreamingTable, for every flush threshold, queue         *)
(* capacity, number of readers and number of rows: no row is lost,         *)
(* duplicated or reordered, the counters follow what they count, queries   *)
(* run on whole batches of a store that stands still, the queue keeps      *)
(* within its capacity, and no wake-up is lost.                            *)
(***************************************************************************)
EXTENDS StreamingTable, SequenceTheorems, WellFoundedInduction, TLAPS

(* Induction without an operator parameter: a nonempty set of natural      *)
(* numbers has a least element.                                            *)
LEMMA LeastNumber ==
    ASSUME NEW T, T \subseteq Nat, T # {}
    PROVE  \E n \in T : \A i \in T : n <= i
<1> DEFINE R == {p \in Nat \X Nat : p[1] < p[2]}
<1>1. IsWellFoundedOn(R, Nat)
    BY NatLessThanWellFounded, Zenon DEF OpToRel
<1>2. PICK n \in T : \A i \in T : <<i, n>> \notin R
    <2> HIDE DEF R
    <2> QED
        BY <1>1, WFMin
<1>3. ASSUME NEW i \in T PROVE n <= i
    <2>1. i \in Nat /\ n \in Nat /\ <<i, n>> \in Nat \X Nat
        OBVIOUS
    <2>2. ~(i < n)
        BY <1>2, <2>1
    <2> QED
        BY <2>1, <2>2
<1> QED
    BY <1>3

(* f[i] is what the first i of the sequences s make when joined.           *)
Joins(f, s) ==
    \A i \in 1 .. Len(s) : f[i] = IF i = 1 THEN s[i] ELSE f[i - 1] \o s[i]

LEMMA JoinsExists ==
    ASSUME NEW S, NEW s \in Seq(Seq(S))
    PROVE  \E f \in [1 .. Len(s) -> Seq(S)] : Joins(f, s)
<1> DEFINE Upto(f, n) ==
                \A i \in 1 .. n : f[i] = IF i = 1 THEN s[i] ELSE f[i - 1] \o s[i]
           T == {n \in 0 .. Len(s) : ~\E f \in [1 .. n -> Seq(S)] : Upto(f, n)}
<1>1. Len(s) \in Nat /\ \A i \in 1 .. Len(s) : s[i] \in Seq(S)
    OBVIOUS
<1>2. T = {}
    <2> SUFFICES ASSUME T # {} PROVE FALSE
        OBVIOUS
    <2>1. T \subseteq Nat
        BY <1>1
    <2>2. PICK n \in T : \A i \in T : n <= i
        BY <2>1, LeastNumber
    <2>3. n \in 0 .. Len(s) /\ ~\E f \in [1 .. n -> Seq(S)] : Upto(f, n)
        OBVIOUS
    <2>4. n # 0
        <3> SUFFICES ASSUME n = 0 PROVE FALSE
            OBVIOUS
        <3> DEFINE e == [i \in 1 .. 0 |-> <<>>]
        <3>1. e \in [1 .. 0 -> Seq(S)] /\ Upto(e, 0)
            OBVIOUS
        <3> QED
            BY <2>3, <3>1
    <2>5. n - 1 \in 0 .. Len(s)
        BY <1>1, <2>3, <2>4
    <2>6. n - 1 \notin T
        <3> HIDE DEF T
        <3> QED
            BY <1>1, <2>2, <2>3
    <2>7. PICK g \in [1 .. n - 1 -> Seq(S)] : Upto(g, n - 1)
        BY <2>5, <2>6
    <2> DEFINE last == IF n = 1 THEN s[n] ELSE g[n - 1] \o s[n]
               f == [i \in 1 .. n |-> IF i = n THEN last ELSE g[i]]
    <2>8. last \in Seq(S)
        <3>1. s[n] \in Seq(S)
            BY <1>1, <2>3, <2>4
        <3>2. n # 1 => g[n - 1] \in Seq(S)
            BY <1>1, <2>3, <2>4
        <3>3. ASSUME NEW a \in Seq(S), NEW b \in Seq(S) PROVE a \o b \in Seq(S)
            OBVIOUS
        <3> QED
            BY <3>1, <3>2, <3>3
    <2>9. f \in [1 .. n -> Seq(S)]
        <3> HIDE DEF last
        <3>1. \A i \in 1 .. n : i # n => g[i] \in Seq(S)
            BY <1>1, <2>3
        <3> QED
            BY <2>8, <3>1
    <2>10. Upto(f, n)
        <3> SUFFICES ASSUME NEW i \in 1 .. n
                     PROVE f[i] = IF i = 1 THEN s[i] ELSE f[i - 1] \o s[i]
            OBVIOUS
        <3>1. CASE i = n
            BY <3>1, <1>1, <2>3, <2>4
        <3>2. CASE i # n
            <4>1. i \in 1 .. n - 1 /\ (i # 1 => i - 1 \in 1 .. n - 1)
                BY <1>1, <2>3, <3>2
            <4>2. g[i] = IF i = 1 THEN s[i] ELSE g[i - 1] \o s[i]
                BY <2>7, <4>1
            <4>3. f[i] = g[i] /\ (i # 1 => f[i - 1] = g[i - 1])
                BY <1>1, <2>3, <3>2, <4>1
            <4> QED
                BY <4>2, <4>3
        <3> QED
            BY <3>1, <3>2
    <2> QED
        BY <2>3, <2>9, <2>10
<1>3. \E f \in [1 .. Len(s) -> Seq(S)] : Upto(f, Len(s))
    <2>1. Len(s) \notin T
        BY <1>2
    <2> QED
        BY <1>1, <2>1
<1> QED
    BY <1>3 DEF Joins

(* Two such functions agree as long as the sequences do.                   *)
Agree(f, g, n) == \A i \in 1 .. n : f[i] = g[i]

LEMMA JoinsAgree ==
    ASSUME NEW S, NEW s \in Seq(Seq(S)), NEW t \in Seq(Seq(S)), NEW f, NEW g,
           NEW n \in Nat, n <= Len(s), n <= Len(t),
           Joins(f, s), Joins(g, t), Agree(s, t, n)
    PROVE  Agree(f, g, n)
<1> DEFINE T == {i \in 1 .. n : f[i] # g[i]}
<1> SUFFICES ASSUME T # {} PROVE FALSE
    BY DEF Agree
<1>1. PICK i \in T : \A j \in T : i <= j
    <2>1. T \subseteq Nat
        OBVIOUS
    <2> HIDE DEF T
    <2> QED
        BY <2>1, LeastNumber
<1>2. i \in 1 .. n /\ f[i] # g[i] /\ i \in 1 .. Len(s) /\ i \in 1 .. Len(t)
    OBVIOUS
<1>3. i # 1 => f[i - 1] = g[i - 1]
    <2>1. i - 1 \notin T
        <3> HIDE DEF T
        <3> QED
            BY <1>1, <1>2
    <2> QED
        BY <1>2, <2>1
<1>4. /\ f[i] = IF i = 1 THEN s[i] ELSE f[i - 1] \o s[i]
      /\ g[i] = IF i = 1 THEN t[i] ELSE g[i - 1] \o t[i]
    BY <1>2 DEF Joins
<1>5. s[i] = t[i]
    BY <1>2 DEF Agree
<1> QED
    BY <1>2, <1>3, <1>4, <1>5

(* FlattenSeq evaluates its recursive function at the end.                 *)
LEMMA FlattenIsJoin ==
    ASSUME NEW S, NEW s \in Seq(Seq(S)), s # <<>>
    PROVE  \E f \in [1 .. Len(s) -> Seq(S)] :
                Joins(f, s) /\ Seqs!FlattenSeq(s) = f[Len(s)]
<1> DEFINE Step(f) == [i \in 1 .. Len(s) |->
                            IF i = 1 THEN s[i] ELSE f[i - 1] \o s[i]]
           c == CHOOSE f : f = Step(f)
<1>1. PICK f \in [1 .. Len(s) -> Seq(S)] : Joins(f, s)
    BY JoinsExists
<1>2. f = Step(f)
    BY <1>1 DEF Joins
<1>3. c = Step(c)
    BY <1>2
<1>4. Len(s) # 0
    BY EmptySeq
<1>5. Seqs!FlattenSeq(s) = c[Len(s)]
    BY <1>4 DEF Seqs!FlattenSeq
<1>6. Joins(c, s) /\ c[Len(s)] = f[Len(s)]
    <2>1. Joins(c, s)
        <3> HIDE DEF c
        <3> QED
            BY <1>3 DEF Joins
    <2> HIDE DEF c
    <2>2. Len(s) \in Nat
        OBVIOUS
    <2>3. Agree(s, s, Len(s))
        BY DEF Agree
    <2>4. Agree(c, f, Len(s))
        BY <1>1, <2>1, <2>2, <2>3, JoinsAgree
    <2> QED
        BY <1>4, <2>1, <2>2, <2>4 DEF Agree
<1> QED
    BY <1>1, <1>5, <1>6

LEMMA FlattenType ==
    ASSUME NEW S, NEW s \in Seq(Seq(S))
    PROVE  Seqs!FlattenSeq(s) \in Seq(S)
<1>1. CASE s = <<>>
    BY <1>1 DEF Seqs!FlattenSeq
<1>2. CASE s # <<>>
    <2>1. PICK f \in [1 .. Len(s) -> Seq(S)] : Seqs!FlattenSeq(s) = f[Len(s)]
        BY <1>2, FlattenIsJoin
    <2>2. Len(s) \in 1 .. Len(s)
        BY <1>2, EmptySeq
    <2> QED
        BY <2>1, <2>2
<1> QED
    BY <1>1, <1>2

(* A pushed batch comes last ...                                           *)
LEMMA FlattenAppend ==
    ASSUME NEW S, NEW s \in Seq(Seq(S)), NEW b \in Seq(S)
    PROVE  Seqs!FlattenSeq(Append(s, b)) = Seqs!FlattenSeq(s) \o b
<1> DEFINE longer == Append(s, b)
           size == Len(s)
<1>1. /\ longer \in Seq(Seq(S)) /\ longer # <<>>
      /\ Len(longer) = size + 1 /\ size \in Nat
      /\ longer[size + 1] = b /\ \A i \in 1 .. size : longer[i] = s[i]
    BY AppendProperties, LenProperties
<1> HIDE DEF longer
<1>2. PICK g \in [1 .. size + 1 -> Seq(S)] :
            Joins(g, longer) /\ Seqs!FlattenSeq(longer) = g[size + 1]
    BY <1>1, FlattenIsJoin
<1>3. g[size + 1] = IF size = 0 THEN b ELSE g[size] \o b
    <2> HIDE DEF size
    <2>1. /\ size + 1 \in 1 .. Len(longer) /\ (size + 1) - 1 = size
          /\ size + 1 = 1 <=> size = 0
        BY <1>1
    <2> QED
        BY <1>1, <1>2, <2>1 DEF Joins
<1>4. CASE s = <<>>
    <2>1. size = 0 /\ Seqs!FlattenSeq(s) = <<>>
        BY <1>4 DEF Seqs!FlattenSeq
    <2> QED
        BY <1>2, <1>3, <2>1, ConcatEmptySeq DEF longer
<1>5. CASE s # <<>>
    <2>1. size >= 1
        BY <1>5, EmptySeq
    <2>2. PICK f \in [1 .. size -> Seq(S)] :
                Joins(f, s) /\ Seqs!FlattenSeq(s) = f[size]
        BY <1>5, FlattenIsJoin
    <2>3. \A i \in 1 .. size : s[i] = longer[i]
        BY <1>1
    <2>4. Len(s) = size
        OBVIOUS
    <2> HIDE DEF size
    <2>5. Agree(f, g, size)
        <3>1. /\ size \in Nat /\ size <= Len(s) /\ size <= Len(longer)
              /\ Len(s) \in Nat /\ Len(longer) \in Nat
            BY <1>1, <2>4
        <3>2. Joins(f, s) /\ Joins(g, longer)
            BY <1>2, <2>2
        <3>3. Agree(s, longer, size)
            BY <2>3 DEF Agree
        <3> QED
            BY <1>1, <3>1, <3>2, <3>3, JoinsAgree
    <2>6. f[size] = g[size] /\ size # 0
        BY <1>1, <2>1, <2>5 DEF Agree
    <2> QED
        BY <1>2, <1>3, <2>2, <2>6 DEF longer
<1> QED
    BY <1>4, <1>5

(* ... and the popped one was first.                                       *)
LEMMA FlattenHead ==
    ASSUME NEW S, NEW s \in Seq(Seq(S)), s # <<>>
    PROVE  Seqs!FlattenSeq(s) = Head(s) \o Seqs!FlattenSeq(Tail(s))
<1> DEFINE rest == Tail(s)
           first == Head(s)
           size == Len(rest)
<1>1. /\ first \in Seq(S) /\ first = s[1] /\ rest \in Seq(Seq(S)) /\ size \in Nat
      /\ Len(s) = size + 1 /\ \A i \in 1 .. size : rest[i] = s[i + 1]
      /\ \A i \in 1 .. size : rest[i] \in Seq(S)
    BY HeadTailProperties, LenProperties, ElementOfSeq
<1>2. PICK f \in [1 .. size + 1 -> Seq(S)] :
            Joins(f, s) /\ Seqs!FlattenSeq(s) = f[size + 1]
    BY <1>1, FlattenIsJoin
<1>3. f[1] = first
    BY <1>1, <1>2 DEF Joins
<1>4. CASE rest = <<>>
    <2>1. size = 0 /\ Seqs!FlattenSeq(rest) = <<>>
        BY <1>4 DEF Seqs!FlattenSeq
    <2> HIDE DEF rest, first, size
    <2>2. Seqs!FlattenSeq(s) = first /\ first \o <<>> = first
        BY <1>1, <1>2, <1>3, <2>1, ConcatEmptySeq
    <2> QED
        BY <2>1, <2>2 DEF rest, first
<1>5. CASE rest # <<>>
    <2>1. size >= 1
        BY <1>1, <1>5, EmptySeq
    <2> HIDE DEF rest, first
    <2>2. PICK g \in [1 .. size -> Seq(S)] :
                Joins(g, rest) /\ Seqs!FlattenSeq(rest) = g[size]
        BY <1>1, <1>5, FlattenIsJoin
    <2> DEFINE T == {i \in 1 .. size : f[i + 1] # first \o g[i]}
    <2>3. T = {}
        <3> SUFFICES ASSUME T # {} PROVE FALSE
            OBVIOUS
        <3>1. PICK i \in T : \A j \in T : i <= j
            <4>1. T \subseteq Nat
                BY <1>1
            <4> HIDE DEF T
            <4> QED
                BY <4>1, LeastNumber
        <3>2. i \in 1 .. size /\ f[i + 1] # first \o g[i]
            OBVIOUS
        <3>3. i # 1 => f[i] = first \o g[i - 1]
            <4>1. i - 1 \notin T
                <5> HIDE DEF T
                <5> QED
                    BY <1>1, <3>1, <3>2
            <4> HIDE DEF size
            <4>2. ASSUME i # 1
                  PROVE  i - 1 \in 1 .. size /\ (i - 1) + 1 = i
                BY <1>1, <3>2, <4>2
            <4> QED
                BY <4>1, <4>2
        <3> HIDE DEF T, size
        <3>4. /\ f[i + 1] = f[i] \o rest[i]
              /\ g[i] = IF i = 1 THEN rest[i] ELSE g[i - 1] \o rest[i]
            <4>1. i + 1 \in 1 .. Len(s) /\ i + 1 # 1 /\ (i + 1) - 1 = i
                BY <1>1, <3>2
            <4>2. s[i + 1] = rest[i]
                BY <1>1, <3>2
            <4> QED
                BY <1>2, <2>2, <3>2, <4>1, <4>2 DEF Joins, size
        <3>5. CASE i = 1
            BY <1>3, <3>2, <3>4, <3>5
        <3>6. CASE i # 1
            <4>1. i - 1 \in 1 .. size
                BY <1>1, <3>2, <3>6 DEF size
            <4>2. g[i - 1] \in Seq(S)
                BY <2>2, <4>1
            <4>3. rest[i] \in Seq(S) /\ first \in Seq(S)
                BY <1>1, <3>2 DEF size
            <4>4. first \o (g[i - 1] \o rest[i]) = (first \o g[i - 1]) \o rest[i]
                <5>1. ASSUME NEW x \in Seq(S), NEW y \in Seq(S), NEW z \in Seq(S)
                      PROVE  x \o (y \o z) = (x \o y) \o z
                    OBVIOUS
                <5> QED
                    BY <4>2, <4>3, <5>1
            <4> QED
                BY <3>2, <3>3, <3>4, <3>6, <4>4
        <3> QED
            BY <3>5, <3>6
    <2> HIDE DEF size
    <2>4. f[size + 1] = first \o g[size]
        <3>1. size \notin T /\ size \in 1 .. size
            <4> HIDE DEF T
            <4> QED
                BY <1>1, <2>1, <2>3
        <3> QED
            BY <3>1
    <2> QED
        BY <1>2, <2>2, <2>4 DEF rest, first
<1> QED
    BY <1>4, <1>5
-----------------------------------------------------------------------------
(* Types, by who changes them.  Those of the queue are stronger than       *)
(* TypeOK's: it holds batches of rows, and nobody thinks it is longer than *)
(* it is.                                                                  *)

ProducerTypes ==
    /\ ppc \in {"idle", "push", "handoff", "announce", "sync", "syncNotify",
                "syncLock", "syncCheck", "syncPark"}
    /\ call \in {"none", "insert", "flush_sync"}
    /\ buffer \in Seq(Rows) /\ inserted \in 0 .. MaxRows

QueueTypes ==
    /\ q \in Seq(Seq(Rows)) /\ visible \in Nat /\ owed \in Nat
    /\ visible <= Len(q) /\ covered <= Len(q)

FlushTypes ==
    /\ fpc \in {"pop", "lock", "append", "count", "tally", "pass", "announce",
                "stopcheck", "waitlock", "waitcheck", "park", "done"}
    /\ batch \in Seq(Rows) /\ todo \in Seq(Rows)
    /\ flushed \in Nat /\ batches \in Nat

StoreTypes == store \in Seq(Rows) /\ numRows \in Nat /\ writer \in BOOLEAN

WakeTypes ==
    /\ wakeMu \in {"free", "producer", "flusher"}
    /\ waiters \subseteq {"producer", "flusher"}
    /\ covered \in Nat /\ flushedSafe \in Nat

ReadTypes ==
    /\ rpc \in [Readers -> {"idle", "query", "scan"}]
    /\ lastVisible \in [Readers -> Nat] /\ snapshot \in [Readers -> Nat]

DownTypes ==
    /\ stop \in BOOLEAN
    /\ dpc \in {"alive", "callbacks", "pass", "announce", "join", "gone"}

Types ==
    /\ ProducerTypes /\ QueueTypes /\ FlushTypes /\ StoreTypes
    /\ WakeTypes /\ ReadTypes /\ DownTypes

LEMMA TypesImplyTypeOK == Types => TypeOK
<1> SUFFICES ASSUME Types PROVE TypeOK
    OBVIOUS
<1>1. q \in Seq(Seq(Nat))
    <2>1. Rows \subseteq Nat
        BY StreamingAssumption DEF Rows
    <2>2. Seq(Rows) \subseteq Seq(Nat)
        BY <2>1, SeqMonotonic
    <2>3. q \in Seq(Seq(Rows))
        BY DEF Types, QueueTypes
    <2> QED
        BY <2>2, <2>3, SeqMonotonic
<1> QED
    BY <1>1 DEF Types, ProducerTypes, QueueTypes, FlushTypes, StoreTypes,
                WakeTypes, ReadTypes, DownTypes, TypeOK, QTypeOK

LEMMA InitTypes == Init => Types
<1> SUFFICES ASSUME Init PROVE Types
    OBVIOUS
<1> USE DEF Init
<1>1. ProducerTypes
    BY StreamingAssumption DEF ProducerTypes
<1>2. QueueTypes
    BY DEF QInit, QueueTypes
<1>3. FlushTypes /\ StoreTypes
    <2>1. <<>> \in Seq(Rows)
        BY EmptySeq
    <2> QED
        BY <2>1 DEF FlushTypes, StoreTypes
<1>4. WakeTypes /\ ReadTypes /\ DownTypes
    BY DEF WakeTypes, ReadTypes, DownTypes
<1> QED
    BY <1>1, <1>2, <1>3, <1>4 DEF Types

(* What of the types an action keeps by leaving variables alone.           *)
LEMMA TypesFrame ==
    ASSUME Types
    PROVE  /\ UNCHANGED prodVars => ProducerTypes'
           /\ UNCHANGED <<ringVars, covered>> => QueueTypes'
           /\ UNCHANGED flushVars => FlushTypes'
           /\ UNCHANGED storeVars => StoreTypes'
           /\ UNCHANGED wakeVars => WakeTypes'
           /\ UNCHANGED readVars => ReadTypes'
           /\ UNCHANGED downVars => DownTypes'
<1> USE DEF Types
<1>1. UNCHANGED prodVars => ProducerTypes'
    BY DEF ProducerTypes, prodVars
<1>2. UNCHANGED <<ringVars, covered>> => QueueTypes'
    BY DEF QueueTypes, ringVars
<1>3. UNCHANGED flushVars => FlushTypes'
    BY DEF FlushTypes, flushVars
<1>4. UNCHANGED storeVars => StoreTypes'
    BY DEF StoreTypes, storeVars
<1>5. UNCHANGED wakeVars => WakeTypes'
    BY DEF WakeTypes, wakeVars
<1>6. UNCHANGED readVars => ReadTypes'
    BY DEF ReadTypes, readVars
<1>7. UNCHANGED downVars => DownTypes'
    BY DEF DownTypes, downVars
<1> QED
    BY <1>1, <1>2, <1>3, <1>4, <1>5, <1>6, <1>7

LEMMA ProducerKeepsTypes == ASSUME Types, Producer PROVE Types'
<1> USE DEF Types, ProducerTypes, QueueTypes, FlushTypes, StoreTypes, WakeTypes,
           ReadTypes, DownTypes, prodVars, ringVars, flushVars, storeVars,
           wakeVars, readVars, downVars,
           NotifyAll, PassWakeMu, Push
<1>1. CASE Insert
    BY <1>1, StreamingAssumption DEF Insert, Rows
<1>2. CASE FlushSync
    BY <1>2 DEF FlushSync
<1>3. CASE PushBatch
    BY <1>3 DEF PushBatch
<1>4. CASE PushFull
    BY <1>4 DEF PushFull
<1>5. CASE HandOff
    BY <1>5 DEF HandOff
<1>6. CASE Announce
    BY <1>6 DEF Announce
<1>7. CASE SyncPass
    BY <1>7 DEF SyncPass
<1>8. CASE SyncNotify
    BY <1>8 DEF SyncNotify
<1>9. CASE SyncLock
    BY <1>9 DEF SyncLock
<1>10. CASE SyncReturn
    BY <1>10 DEF SyncReturn
<1>11. CASE SyncCheckFails
    BY <1>11 DEF SyncCheckFails
<1>12. CASE SyncPark
    BY <1>12 DEF SyncPark
<1> QED
    BY <1>1, <1>2, <1>3, <1>4, <1>5, <1>6, <1>7, <1>8, <1>9, <1>10, <1>11, <1>12
    DEF Producer

LEMMA FlusherKeepsTypes == ASSUME Types, Flusher PROVE Types'
<1> USE DEF Types, ProducerTypes, QueueTypes, FlushTypes, StoreTypes, WakeTypes,
           ReadTypes, DownTypes, prodVars, ringVars, flushVars, storeVars,
           wakeVars, readVars, downVars,
           NotifyAll, FlusherCatchesUp, Bigger
<1>1. CASE FlushPop
    <2>1. q # <<>> /\ Len(q) \in Nat
        BY <1>1 DEF FlushPop, Pop, SeesEmpty
    <2>2. Head(q) \in Seq(Rows) /\ Tail(q) \in Seq(Seq(Rows)) /\ Len(Tail(q)) = Len(q) - 1
        BY <2>1, HeadTailProperties
    <2>3. ProducerTypes' /\ StoreTypes' /\ ReadTypes' /\ DownTypes'
        BY <1>1, TypesFrame DEF FlushPop
    <2>4. FlushTypes' /\ WakeTypes'
        BY <1>1, <2>2 DEF FlushPop
    <2>5. QueueTypes'
        BY <1>1, <2>1, <2>2 DEF FlushPop, Pop, SeesEmpty
    <2> QED
        BY <2>3, <2>4, <2>5
<1>2. CASE FlushPopEmpty
    BY <1>2 DEF FlushPopEmpty
<1>3. CASE FlushLock
    BY <1>3 DEF FlushLock
<1>4. CASE FlushAppend
    BY <1>4 DEF FlushAppend
<1>5. CASE FlushPublish
    <2>1. Len(batch) \in Nat
        BY LenProperties
    <2>2. numRows' \in Nat
        BY <1>5, <2>1 DEF FlushPublish
    <2> QED
        BY <1>5, <2>2 DEF FlushPublish
<1>6. CASE FlushCount
    <2>1. Len(batch) \in Nat
        BY LenProperties
    <2> QED
        BY <1>6, <2>1 DEF FlushCount
<1>7. CASE FlushTally
    BY <1>7 DEF FlushTally
<1>8. CASE FlushPass
    BY <1>8 DEF FlushPass
<1>9. CASE FlushAnnounce
    BY <1>9 DEF FlushAnnounce
<1>10. CASE FlushGoOn
    BY <1>10 DEF FlushGoOn
<1>11. CASE FlushStop
    BY <1>11 DEF FlushStop
<1>12. CASE FlushWaitLock
    BY <1>12 DEF FlushWaitLock
<1>13. CASE FlushWaitOver
    BY <1>13 DEF FlushWaitOver
<1>14. CASE FlushWaitOn
    BY <1>14 DEF FlushWaitOn
<1>15. CASE FlushPark
    <2>1. Len(q) \in Nat
        BY LenProperties
    <2>2. waiters' \subseteq {"producer", "flusher"}
        BY <1>15 DEF FlushPark
    <2>3. QueueTypes' /\ FlushTypes' /\ WakeTypes'
        BY <1>15, <2>1, <2>2 DEF FlushPark
    <2> QED
        BY <1>15, <2>3 DEF FlushPark
<1> QED
    BY <1>1, <1>2, <1>3, <1>4, <1>5, <1>6, <1>7, <1>8, <1>9, <1>10, <1>11,
       <1>12, <1>13, <1>14, <1>15
    DEF Flusher

LEMMA DestroyerKeepsTypes == ASSUME Types, Destroyer PROVE Types'
<1> USE DEF Types, ProducerTypes, QueueTypes, FlushTypes, StoreTypes, WakeTypes,
           ReadTypes, DownTypes, prodVars, ringVars, flushVars, storeVars,
           wakeVars, readVars, downVars,
           NotifyAll, PassWakeMu
<1>1. CASE RequestStop
    BY <1>1 DEF RequestStop
<1>2. CASE StopCallbacks
    BY <1>2 DEF StopCallbacks
<1>3. CASE DestroyPass
    BY <1>3 DEF DestroyPass
<1>4. CASE DestroyAnnounce
    BY <1>4 DEF DestroyAnnounce
<1>5. CASE JoinAndApply
    <2>1. Leftover \in Seq(Rows) /\ Len(Leftover) \in Nat
        BY FlattenType, ConcatProperties, LenProperties DEF Leftover
    <2>2. Len(q) \in Nat
        BY LenProperties
    <2>3. store' \in Seq(Rows)
        BY <1>5, <2>1, ConcatProperties DEF JoinAndApply
    <2>4. ProducerTypes' /\ QueueTypes' /\ FlushTypes'
        BY <1>5, <2>1, <2>2 DEF JoinAndApply
    <2>5. StoreTypes' /\ WakeTypes' /\ ReadTypes' /\ DownTypes'
        BY <1>5, <2>1, <2>3 DEF JoinAndApply
    <2> QED
        BY <2>4, <2>5
<1> QED
    BY <1>1, <1>2, <1>3, <1>4, <1>5 DEF Destroyer

LEMMA ReaderKeepsTypes ==
    ASSUME Types, NEW r \in Readers, Reader(r)
    PROVE  Types'
<1>1. CASE Poll(r)
    <2>1. ReadTypes'
        BY <1>1 DEF Poll, Types, ReadTypes, FlushTypes
    <2> QED
        BY <1>1, <2>1, TypesFrame DEF Poll, Types, wakeVars
<1>2. CASE QueryLock(r)
    <2>1. ReadTypes'
        BY <1>2 DEF QueryLock, Types, ReadTypes, StoreTypes
    <2> QED
        BY <1>2, <2>1, TypesFrame DEF QueryLock, Types, wakeVars
<1>3. CASE QueryUnlock(r)
    <2>1. ReadTypes'
        BY <1>3 DEF QueryUnlock, Types, ReadTypes
    <2> QED
        BY <1>3, <2>1, TypesFrame DEF QueryUnlock, Types, wakeVars
<1> QED
    BY <1>1, <1>2, <1>3 DEF Reader

LEMMA NextTypes == Types /\ [Next]_vars => Types'
<1> SUFFICES ASSUME Types, [Next]_vars PROVE Types'
    OBVIOUS
<1>1. CASE SpuriousWake
    BY <1>1 DEF SpuriousWake, Types, ProducerTypes, QueueTypes, FlushTypes,
        StoreTypes, WakeTypes, ReadTypes, DownTypes, prodVars, ringVars,
        flushVars, storeVars, readVars, downVars
<1>2. CASE Visibility
    <2>1. QueueTypes'
        BY <1>2 DEF Visibility, TailSeen, HeadSeen, Types, QueueTypes, wakeVars
    <2> QED
        BY <1>2, <2>1, TypesFrame DEF Visibility, Types
<1>3. CASE UNCHANGED vars
    BY <1>3, TypesFrame DEF vars, Types, wakeVars
<1> QED
    BY <1>1, <1>2, <1>3, ProducerKeepsTypes, FlusherKeepsTypes,
       ReaderKeepsTypes,
       DestroyerKeepsTypes
    DEF Next, Gone
-----------------------------------------------------------------------------
(* Where the threads are.                                                  *)

(* What the place of the producer says about its call, its buffer and the  *)
(* wake-up lock.                                                           *)
ProducerPlace ==
    /\ ppc = "push" => buffer # <<>>
    /\ ppc \notin {"idle", "push"} => buffer = <<>>
    /\ ppc # "idle" => call # "none"
    /\ ppc \in {"sync", "syncNotify", "syncLock", "syncCheck", "syncPark"} =>
            call = "flush_sync"
    /\ wakeMu = "producer" <=> ppc \in {"syncCheck", "syncPark"}
    /\ "producer" \in waiters => ppc = "syncLock"

(* The same of the flush thread and both its locks.                        *)
FlusherPlace ==
    /\ wakeMu = "flusher" <=> fpc \in {"waitcheck", "park"}
    /\ "flusher" \in waiters => fpc = "waitlock"
    /\ writer <=> fpc = "append"
    /\ writer => \A r \in Readers : rpc[r] # "scan"
    /\ fpc = "done" => stop /\ q = <<>>

(* Nobody else is in a member function once the destructor runs.           *)
Shutdown ==
    /\ stop <=> dpc # "alive"
    /\ stop => ppc = "idle" /\ \A r \in Readers : rpc[r] = "idle"
    /\ dpc = "gone" => fpc = "done" /\ buffer = <<>>

Control == Types /\ ProducerPlace /\ FlusherPlace /\ Shutdown

LEMMA InitControl == Init => Control
BY InitTypes DEF Init, Control, ProducerPlace, FlusherPlace, Shutdown

LEMMA ProducerKeepsControl ==
    ASSUME Control, Producer
    PROVE  ProducerPlace' /\ FlusherPlace' /\ Shutdown'
<1> USE DEF Control, ProducerPlace, FlusherPlace, Shutdown, prodVars, ringVars,
           flushVars, storeVars, wakeVars, readVars, downVars, NotifyAll,
           PassWakeMu
<1>1. CASE Insert
    <2>1. Len(buffer') # 0 => buffer' # <<>>
        OBVIOUS
    <2>2. ppc' = "push" => Len(buffer') >= 1
        BY <1>1, StreamingAssumption DEF Insert, Threshold
    <2> QED
        BY <1>1, <2>1, <2>2 DEF Insert
<1>2. CASE FlushSync
    BY <1>2 DEF FlushSync
<1>3. CASE PushBatch
    BY <1>3 DEF PushBatch, Push
<1>4. CASE PushFull
    BY <1>4 DEF PushFull
<1>5. CASE HandOff
    BY <1>5 DEF HandOff
<1>6. CASE Announce
    BY <1>6 DEF Announce, Types, ProducerTypes
<1>7. CASE SyncPass
    BY <1>7 DEF SyncPass
<1>8. CASE SyncNotify
    BY <1>8 DEF SyncNotify
<1>9. CASE SyncLock
    BY <1>9 DEF SyncLock
<1>10. CASE SyncReturn
    BY <1>10 DEF SyncReturn
<1>11. CASE SyncCheckFails
    BY <1>11 DEF SyncCheckFails
<1>12. CASE SyncPark
    BY <1>12 DEF SyncPark
<1> QED
    BY <1>1, <1>2, <1>3, <1>4, <1>5, <1>6, <1>7, <1>8, <1>9, <1>10, <1>11, <1>12
    DEF Producer

LEMMA FlusherKeepsControl ==
    ASSUME Control, Flusher
    PROVE  ProducerPlace' /\ FlusherPlace' /\ Shutdown'
<1> USE DEF Control, ProducerPlace, FlusherPlace, Shutdown, prodVars, ringVars,
           flushVars, storeVars, wakeVars, readVars, downVars, NotifyAll
<1>1. CASE FlushPop
    BY <1>1 DEF FlushPop
<1>2. CASE FlushPopEmpty
    BY <1>2 DEF FlushPopEmpty
<1>3. CASE FlushLock
    BY <1>3 DEF FlushLock
<1>4. CASE FlushAppend
    BY <1>4 DEF FlushAppend
<1>5. CASE FlushPublish
    BY <1>5 DEF FlushPublish
<1>6. CASE FlushCount
    BY <1>6 DEF FlushCount
<1>7. CASE FlushTally
    BY <1>7 DEF FlushTally
<1>8. CASE FlushPass
    BY <1>8 DEF FlushPass
<1>9. CASE FlushAnnounce
    BY <1>9 DEF FlushAnnounce
<1>10. CASE FlushGoOn
    BY <1>10 DEF FlushGoOn
<1>11. CASE FlushStop
    BY <1>11 DEF FlushStop
<1>12. CASE FlushWaitLock
    BY <1>12 DEF FlushWaitLock
<1>13. CASE FlushWaitOver
    BY <1>13 DEF FlushWaitOver
<1>14. CASE FlushWaitOn
    BY <1>14 DEF FlushWaitOn
<1>15. CASE FlushPark
    BY <1>15 DEF FlushPark
<1> QED
    BY <1>1, <1>2, <1>3, <1>4, <1>5, <1>6, <1>7, <1>8, <1>9, <1>10, <1>11,
       <1>12, <1>13, <1>14, <1>15
    DEF Flusher

LEMMA DestroyerKeepsControl ==
    ASSUME Control, Destroyer
    PROVE  ProducerPlace' /\ FlusherPlace' /\ Shutdown'
<1> USE DEF Control, ProducerPlace, FlusherPlace, Shutdown, prodVars, ringVars,
           flushVars, storeVars, wakeVars, readVars, downVars, NotifyAll,
           PassWakeMu
<1>1. CASE RequestStop
    BY <1>1 DEF RequestStop
<1>2. CASE StopCallbacks
    BY <1>2 DEF StopCallbacks
<1>3. CASE DestroyPass
    BY <1>3 DEF DestroyPass
<1>4. CASE DestroyAnnounce
    BY <1>4 DEF DestroyAnnounce
<1>5. CASE JoinAndApply
    BY <1>5 DEF JoinAndApply
<1> QED
    BY <1>1, <1>2, <1>3, <1>4, <1>5 DEF Destroyer

LEMMA ReaderKeepsControl ==
    ASSUME Control, NEW r \in Readers, Reader(r)
    PROVE  ProducerPlace' /\ FlusherPlace' /\ Shutdown'
<1> USE DEF Control, ProducerPlace, FlusherPlace, Shutdown, Types, ReadTypes,
           prodVars, ringVars, flushVars, storeVars, wakeVars, downVars
<1>1. CASE Poll(r)
    BY <1>1 DEF Poll
<1>2. CASE QueryLock(r)
    BY <1>2 DEF QueryLock
<1>3. CASE QueryUnlock(r)
    BY <1>3 DEF QueryUnlock
<1> QED
    BY <1>1, <1>2, <1>3 DEF Reader

LEMMA NextControl == Control /\ [Next]_vars => Control'
<1> SUFFICES ASSUME Control, [Next]_vars PROVE Control'
    OBVIOUS
<1>1. Types'
    BY NextTypes DEF Control
<1>2. ProducerPlace' /\ FlusherPlace' /\ Shutdown'
    <2> USE DEF Control, ProducerPlace, FlusherPlace, Shutdown, prodVars,
               ringVars, flushVars, storeVars, readVars, downVars
    <2>1. CASE SpuriousWake
        BY <2>1 DEF SpuriousWake
    <2>2. CASE Visibility
        BY <2>2 DEF Visibility, TailSeen, HeadSeen, wakeVars
    <2>3. CASE UNCHANGED vars
        BY <2>3 DEF vars, wakeVars
    <2> QED
        BY <2>1, <2>2, <2>3, ProducerKeepsControl, FlusherKeepsControl,
           ReaderKeepsControl, DestroyerKeepsControl DEF Next, Gone
<1> QED
    BY <1>1, <1>2 DEF Control

(* In every state the threads are where their locks, the stop flag and the *)
(* wait set say.                                                           *)
THEOREM ControlInvariance == Spec => []Control
BY InitControl, NextControl, PTL DEF Spec

(* Every variable keeps its type, whatever the order of the threads' steps *)
(* (memtable.cpp).                                                         *)
THEOREM TableTypes == Spec => []TypeOK
<1>1. Control => TypeOK
    BY TypesImplyTypeOK DEF Control
<1> QED
    BY <1>1, ControlInvariance, PTL

-----------------------------------------------------------------------------
(* The counters.                                                           *)

(* What the flush thread has done of the batch in its hands: Applied of    *)
(* its rows are stored and not yet shown, Uncounted shown and not counted. *)
Applied == IF fpc = "append" THEN Len(batch) - Len(todo) ELSE 0
Uncounted == IF fpc = "count" THEN Len(batch) ELSE 0

BatchProgress ==
    /\ fpc = "lock" => todo = batch
    /\ fpc = "append" => Len(todo) <= Len(batch)
    /\ fpc \notin {"lock", "append"} => todo = <<>>

Counters ==
    /\ Len(store) = numRows + Applied
    /\ numRows = flushed + Uncounted
    /\ flushedSafe <= flushed
    /\ fpc \notin {"tally", "pass"} /\ dpc # "gone" => flushedSafe = flushed

Snapshots ==
    \A r \in Readers :
        /\ lastVisible[r] <= flushed
        /\ rpc[r] = "scan" => snapshot[r] = numRows

Counted == BatchProgress /\ Counters /\ Snapshots

LEMMA InitCounted == Init => Counted
BY DEF Init, Counted, BatchProgress, Counters, Snapshots, Applied, Uncounted

(* The variables the counters are about.                                   *)
countVars == <<fpc, batch, todo, flushed, store, numRows, flushedSafe, readVars>>

LEMMA CountedFrame ==
    ASSUME Counted, UNCHANGED countVars, dpc # "gone" \/ UNCHANGED dpc
    PROVE  Counted'
BY DEF Counted, BatchProgress, Counters, Snapshots, Applied, Uncounted,
       countVars, readVars

LEMMA ProducerKeepsCounted == ASSUME Control, Counted, Producer PROVE Counted'
<1>1. UNCHANGED countVars /\ UNCHANGED dpc
    BY DEF Producer, Insert, FlushSync, PushBatch, PushFull, HandOff, Announce,
           SyncPass, SyncNotify, SyncLock, SyncReturn, SyncCheckFails, SyncPark,
           countVars, flushVars, storeVars, wakeVars, readVars, downVars
<1> QED
    BY <1>1, CountedFrame

LEMMA FlusherKeepsCounted == ASSUME Control, Counted, Flusher PROVE Counted'
<1> USE DEF Counted, BatchProgress, Counters, Snapshots, Applied, Uncounted,
           prodVars, ringVars, flushVars, storeVars, wakeVars, readVars,
           downVars
<1>0. /\ Len(batch) \in Nat /\ Len(todo) \in Nat /\ Len(store) \in Nat
      /\ flushed \in Nat /\ numRows \in Nat /\ flushedSafe \in Nat
      /\ todo \in Seq(Rows) /\ store \in Seq(Rows) /\ batch \in Seq(Rows)
      /\ lastVisible \in [Readers -> Nat]
    BY LenProperties
    DEF Control, Types, FlushTypes, StoreTypes, WakeTypes, ReadTypes
<1>1. CASE FlushPop
    BY <1>0, <1>1 DEF FlushPop
<1>2. CASE FlushPopEmpty
    BY <1>0, <1>2 DEF FlushPopEmpty
<1>3. CASE FlushLock
    BY <1>0, <1>3 DEF FlushLock
<1>4. CASE FlushAppend
    <2>1. Len(store') = Len(store) + 1 /\ Len(todo') = Len(todo) - 1
        BY <1>0, <1>4, AppendProperties, HeadTailProperties DEF FlushAppend
    <2> QED
        BY <1>0, <1>4, <2>1 DEF FlushAppend
<1>5. CASE FlushPublish
    <2>1. \A r \in Readers : rpc[r] # "scan"
        BY <1>5 DEF FlushPublish, Control, FlusherPlace
    <2>2. Len(todo) = 0
        BY <1>5 DEF FlushPublish
    <2> QED
        BY <1>0, <1>5, <2>1, <2>2 DEF FlushPublish
<1>6. CASE FlushCount
    BY <1>0, <1>6 DEF FlushCount
<1>7. CASE FlushTally
    BY <1>0, <1>7 DEF FlushTally
<1>8. CASE FlushPass
    BY <1>0, <1>8 DEF FlushPass
<1>9. CASE FlushAnnounce
    BY <1>0, <1>9 DEF FlushAnnounce
<1>10. CASE FlushGoOn
    BY <1>0, <1>10 DEF FlushGoOn
<1>11. CASE FlushStop
    BY <1>0, <1>11 DEF FlushStop
<1>12. CASE FlushWaitLock
    BY <1>0, <1>12 DEF FlushWaitLock
<1>13. CASE FlushWaitOver
    BY <1>0, <1>13 DEF FlushWaitOver
<1>14. CASE FlushWaitOn
    BY <1>0, <1>14 DEF FlushWaitOn
<1>15. CASE FlushPark
    BY <1>0, <1>15 DEF FlushPark
<1> QED
    BY <1>1, <1>2, <1>3, <1>4, <1>5, <1>6, <1>7, <1>8, <1>9, <1>10, <1>11,
       <1>12, <1>13, <1>14, <1>15
    DEF Flusher

LEMMA DestroyerKeepsCounted == ASSUME Control, Counted, Destroyer PROVE Counted'
<1>1. CASE JoinAndApply
    <2>1. /\ fpc = "done" /\ dpc' = "gone" /\ q = <<>>
          /\ \A r \in Readers : rpc[r] = "idle"
        BY <1>1 DEF JoinAndApply, Control, FlusherPlace, Shutdown
    <2>2. /\ flushed \in Nat /\ numRows \in Nat /\ flushedSafe \in Nat
          /\ store \in Seq(Rows) /\ buffer \in Seq(Rows)
          /\ lastVisible \in [Readers -> Nat]
        BY DEF Control, Types, ProducerTypes, FlushTypes, StoreTypes, WakeTypes,
               ReadTypes
    <2>3. /\ Len(store') = Len(store) + Len(buffer) /\ Len(buffer) \in Nat
          /\ numRows' = numRows + Len(buffer) /\ flushed' = flushed + Len(buffer)
        BY <1>1, <2>1, <2>2, ConcatProperties, LenProperties
        DEF JoinAndApply, Leftover
    <2> QED
        BY <1>1, <2>1, <2>2, <2>3
        DEF JoinAndApply, Counted, BatchProgress, Counters, Snapshots, Applied,
            Uncounted, readVars
<1>2. CASE RequestStop \/ StopCallbacks \/ DestroyPass \/ DestroyAnnounce
    <2>1. UNCHANGED countVars /\ dpc # "gone"
        BY <1>2 DEF RequestStop, StopCallbacks, DestroyPass, DestroyAnnounce,
            countVars, flushVars, storeVars, wakeVars, readVars
    <2> QED
        BY <2>1, CountedFrame
<1> QED
    BY <1>1, <1>2 DEF Destroyer

LEMMA ReaderKeepsCounted ==
    ASSUME Control, Counted, NEW r \in Readers, Reader(r) PROVE Counted'
<1>1. /\ flushed \in Nat /\ lastVisible \in [Readers -> Nat]
      /\ snapshot \in [Readers -> Nat]
      /\ rpc \in [Readers -> {"idle", "query", "scan"}]
    BY DEF Control, Types, FlushTypes, ReadTypes
<1>2. BatchProgress' /\ Counters'
    BY DEF Reader, Poll, QueryLock, QueryUnlock, Counted, BatchProgress,
           Counters, Applied, Uncounted, flushVars, storeVars, wakeVars, downVars
<1>3. Snapshots'
    <2> USE DEF Counted, Snapshots, flushVars, storeVars
    <2>1. CASE Poll(r)
        BY <1>1, <2>1 DEF Poll
    <2>2. CASE QueryLock(r)
        BY <1>1, <2>2 DEF QueryLock
    <2>3. CASE QueryUnlock(r)
        BY <1>1, <2>3 DEF QueryUnlock
    <2> QED
        BY <2>1, <2>2, <2>3 DEF Reader
<1> QED
    BY <1>2, <1>3 DEF Counted

LEMMA NextCounted == Control /\ Counted /\ [Next]_vars => Counted'
<1> SUFFICES ASSUME Control, Counted, [Next]_vars PROVE Counted'
    OBVIOUS
<1>1. CASE SpuriousWake \/ Visibility \/ UNCHANGED vars
    <2>1. UNCHANGED countVars /\ UNCHANGED dpc
        BY <1>1 DEF SpuriousWake, Visibility, vars, countVars, flushVars,
            storeVars, wakeVars, readVars, downVars
    <2> QED
        BY <2>1, CountedFrame
<1> QED
    BY <1>1, ProducerKeepsCounted, FlusherKeepsCounted, ReaderKeepsCounted,
       DestroyerKeepsCounted DEF Next, Gone

(* In every state the counters tell exactly how far the flush thread is.   *)
THEOREM CountedInvariance == Spec => [](Control /\ Counted)
BY InitControl, InitCounted, NextControl, NextCounted, PTL DEF Spec

LEMMA CountersHold == Control /\ Counted => CountersFollow
<1> SUFFICES ASSUME Control, Counted PROVE CountersFollow
    OBVIOUS
<1>1. /\ flushed \in Nat /\ numRows \in Nat /\ Len(store) \in Nat
      /\ Len(batch) \in Nat /\ Len(todo) \in Nat
      /\ lastVisible \in [Readers -> Nat] /\ snapshot \in [Readers -> Nat]
    BY LenProperties DEF Control, Types, FlushTypes, StoreTypes, ReadTypes
<1>2. Applied \in Nat /\ Uncounted \in Nat
    BY <1>1 DEF Applied, Uncounted, Counted, BatchProgress
<1> QED
    BY <1>1, <1>2 DEF CountersFollow, Counted, Counters, Snapshots

(* No counter runs ahead of what it counts, and a query sees at least the  *)
(* rows that visible_rows() announced before it (memtable.hpp:85).         *)
THEOREM CountersTrue == Spec => []CountersFollow
BY CountersHold, CountedInvariance, PTL

(* While a query runs, every column has num_rows() entries and the flush   *)
(* thread is not among them (memtable.hpp:91-95).                          *)
THEOREM WholeBatches == Spec => []QueriesSeeWholeBatches
<1>1. Control /\ Counted => QueriesSeeWholeBatches
    BY DEF Control, FlusherPlace, Types, StoreTypes, Counted, Counters, Applied,
           QueriesSeeWholeBatches
<1> QED
    BY <1>1, CountedInvariance, PTL

-----------------------------------------------------------------------------
(* The rows.                                                               *)

Flat == Seqs!FlattenSeq(q)

(* The rows the steps move are sequences of rows.                          *)
LEMMA RowTypes ==
    ASSUME Types
    PROVE  /\ store \in Seq(Rows) /\ todo \in Seq(Rows) /\ buffer \in Seq(Rows)
           /\ q \in Seq(Seq(Rows)) /\ Flat \in Seq(Rows) /\ inserted \in Nat
           /\ store \o todo \in Seq(Rows)
           /\ store \o todo \o Flat \in Seq(Rows)
<1>1. /\ store \in Seq(Rows) /\ todo \in Seq(Rows) /\ buffer \in Seq(Rows)
      /\ q \in Seq(Seq(Rows)) /\ inserted \in Nat
    BY StreamingAssumption
    DEF Types, ProducerTypes, QueueTypes, FlushTypes, StoreTypes
<1>2. Flat \in Seq(Rows)
    BY <1>1, FlattenType DEF Flat
<1>3. store \o todo \in Seq(Rows)
    BY <1>1, ConcatProperties
<1>4. store \o todo \o Flat \in Seq(Rows)
    BY <1>2, <1>3, ConcatProperties
<1> QED
    BY <1>1, <1>2, <1>3, <1>4

Numbers(n) == [i \in 1 .. n |-> i]

LEMMA NumbersGrow ==
    ASSUME NEW S, NEW a \in Seq(S), NEW b \in Seq(S), NEW n \in Nat, n + 1 \in S,
           a \o b = Numbers(n)
    PROVE  a \o Append(b, n + 1) = Numbers(n + 1)
<1> USE DEF Numbers
<1>1. Len(a) + Len(b) = n /\ Len(a) \in Nat /\ Len(b) \in Nat
    <2>1. Len(a \o b) = Len(a) + Len(b) /\ a \o b \in Seq(S)
        BY ConcatProperties
    <2>2. DOMAIN (a \o b) = 1 .. n /\ DOMAIN (a \o b) = 1 .. Len(a \o b)
        BY <2>1, LenProperties
    <2> QED
        BY <2>1, <2>2, LenProperties
<1> DEFINE longer == a \o Append(b, n + 1)
<1>2. /\ longer \in Seq(S) /\ Len(longer) = n + 1
      /\ \A i \in 1 .. n + 1 :
            longer[i] = IF i <= Len(a) THEN a[i] ELSE Append(b, n + 1)[i - Len(a)]
    BY <1>1, AppendProperties, ConcatProperties
<1>3. \A i \in 1 .. n : i = IF i <= Len(a) THEN a[i] ELSE b[i - Len(a)]
    <2> DEFINE joined == a \o b
    <2>1. \A i \in 1 .. Len(a) + Len(b) :
                joined[i] = IF i <= Len(a) THEN a[i] ELSE b[i - Len(a)]
        BY ConcatProperties
    <2>2. joined = [i \in 1 .. n |-> i]
        OBVIOUS
    <2> HIDE DEF joined
    <2>3. \A i \in 1 .. n : joined[i] = i
        BY <2>2
    <2> QED
        BY <1>1, <2>1, <2>3
<1>4. ASSUME NEW i \in 1 .. n + 1 PROVE longer[i] = i
    <2>1. CASE i = n + 1
        BY <1>1, <1>2, <2>1, AppendProperties
    <2>2. CASE i # n + 1
        <3>1. i \in 1 .. n /\ (i > Len(a) => i - Len(a) \in 1 .. Len(b))
            BY <1>1, <2>2
        <3> QED
            BY <1>1, <1>2, <1>3, <3>1, AppendProperties
    <2> QED
        BY <2>1, <2>2
<1> HIDE DEF longer
<1>5. longer = [i \in 1 .. n + 1 |-> i]
    BY <1>2, <1>4, LenProperties
<1> QED
    BY <1>5 DEF longer

LEMMA InitNothingLost == Init => NothingLost
<1> SUFFICES ASSUME Init PROVE NothingLost
    OBVIOUS
<1>1. Seqs!FlattenSeq(q) = <<>>
    BY DEF Init, QInit, Seqs!FlattenSeq
<1> QED
    BY <1>1 DEF Init, NothingLost

rowVars == <<store, todo, q, buffer, inserted>>

LEMMA RowsFrame == ASSUME NothingLost, UNCHANGED rowVars PROVE NothingLost'
BY DEF NothingLost, rowVars

(* insert() appends the next number to the last place.                     *)
LEMMA InsertKeepsRows ==
    ASSUME Control, NothingLost, Insert PROVE NothingLost'
<1> DEFINE before == store \o todo \o Flat
<1>1. before \in Seq(Rows) /\ buffer \in Seq(Rows) /\ inserted \in Nat
    BY RowTypes DEF Control
<1>2. inserted + 1 \in Rows
    BY <1>1, StreamingAssumption DEF Insert, Rows
<1>3. before \o buffer = Numbers(inserted)
    BY DEF NothingLost, Flat, Numbers
<1> HIDE DEF before
<1>4. before \o Append(buffer, inserted + 1) = Numbers(inserted + 1)
    BY <1>1, <1>2, <1>3, NumbersGrow
<1>5. /\ buffer' = Append(buffer, inserted + 1) /\ inserted' = inserted + 1
      /\ store' = store /\ todo' = todo /\ q' = q
    BY DEF Insert, ringVars, flushVars, storeVars
<1>6. Flat' = Flat
    BY <1>5 DEF Flat
<1> QED
    BY <1>4, <1>5, <1>6 DEF NothingLost, Flat, Numbers, before

(* push() moves the buffer to the end of the queue.                        *)
LEMMA PushKeepsRows ==
    ASSUME Control, NothingLost, PushBatch PROVE NothingLost'
<1>1. /\ q' = Append(q, buffer) /\ buffer' = <<>> /\ inserted' = inserted
      /\ store' = store /\ todo' = todo
    BY DEF PushBatch, Push, flushVars, storeVars
<1>2. /\ buffer \in Seq(Rows) /\ q \in Seq(Seq(Rows)) /\ Flat \in Seq(Rows)
      /\ store \o todo \in Seq(Rows)
    BY RowTypes DEF Control
<1>3. Flat' = Flat \o buffer
    BY <1>1, <1>2, FlattenAppend DEF Flat
<1>4. ASSUME NEW a \in Seq(Rows), NEW b \in Seq(Rows), NEW c \in Seq(Rows)
      PROVE  (a \o (b \o c)) \o <<>> = (a \o b) \o c
    OBVIOUS
<1>5. ((store \o todo) \o (Flat \o buffer)) \o <<>> = ((store \o todo) \o Flat) \o buffer
    BY <1>2, <1>4
<1>6. ((store' \o todo') \o Flat') \o buffer' = ((store \o todo) \o Flat) \o buffer
    BY <1>1, <1>3, <1>5
<1> QED
    BY <1>1, <1>6 DEF NothingLost, Flat

(* pop() takes the first batch of the queue in hand.                       *)
LEMMA PopKeepsRows ==
    ASSUME Control, Counted, NothingLost, FlushPop PROVE NothingLost'
<1>1. /\ q' = Tail(q) /\ todo' = Head(q) /\ store' = store /\ buffer' = buffer
      /\ inserted' = inserted /\ visible # 0 /\ fpc = "pop"
    BY DEF FlushPop, Pop, SeesEmpty, prodVars, storeVars
<1>2. /\ q \in Seq(Seq(Rows)) /\ store \in Seq(Rows) /\ buffer \in Seq(Rows)
    BY RowTypes DEF Control
<1>3. q # <<>>
    BY <1>1 DEF Control, Types, QueueTypes
<1>4. todo = <<>>
    BY <1>1 DEF Counted, BatchProgress
<1>5. /\ Head(q) \in Seq(Rows) /\ Tail(q) \in Seq(Seq(Rows))
    BY <1>2, <1>3, HeadTailProperties
<1>6. Flat = Head(q) \o Flat' /\ Flat' \in Seq(Rows)
    BY <1>1, <1>2, <1>3, <1>5, FlattenHead, FlattenType DEF Flat
<1>7. ASSUME NEW a \in Seq(Rows), NEW b \in Seq(Rows), NEW c \in Seq(Rows)
      PROVE  (a \o b) \o c = (a \o <<>>) \o (b \o c)
    OBVIOUS
<1>8. (store \o Head(q)) \o Flat' = (store \o <<>>) \o (Head(q) \o Flat')
    BY <1>2, <1>5, <1>6, <1>7
<1>9. (store' \o todo') \o Flat' = (store \o todo) \o Flat
    BY <1>1, <1>4, <1>6, <1>8
<1> QED
    BY <1>1, <1>9 DEF NothingLost, Flat

(* apply_batch() moves one row from the batch to the columns.              *)
LEMMA AppendKeepsRows ==
    ASSUME Control, NothingLost, FlushAppend PROVE NothingLost'
<1>1. /\ store' = Append(store, Head(todo)) /\ todo' = Tail(todo) /\ todo # <<>>
      /\ q' = q /\ buffer' = buffer /\ inserted' = inserted
    BY DEF FlushAppend, prodVars, ringVars
<1>2. store \in Seq(Rows) /\ todo \in Seq(Rows)
    BY RowTypes DEF Control
<1>3. ASSUME NEW a \in Seq(Rows), NEW b \in Seq(Rows), b # <<>>
      PROVE  Append(a, Head(b)) \o Tail(b) = a \o b
    <2>1. /\ Head(b) \in Rows /\ Head(b) = b[1] /\ Tail(b) \in Seq(Rows)
          /\ Len(b) \in Nat /\ Len(b) >= 1 /\ Len(Tail(b)) = Len(b) - 1
          /\ \A i \in 1 .. Len(b) - 1 : Tail(b)[i] = b[i + 1]
        BY <1>3, HeadTailProperties, EmptySeq, LenProperties
    <2>2. /\ Append(a, Head(b)) \in Seq(Rows)
          /\ Len(Append(a, Head(b))) = Len(a) + 1
          /\ \A i \in 1 .. Len(a) : Append(a, Head(b))[i] = a[i]
          /\ Append(a, Head(b))[Len(a) + 1] = b[1]
        BY <2>1, AppendProperties
    <2> DEFINE l == Append(a, Head(b)) \o Tail(b)
               r == a \o b
    <2>3. Len(a) \in Nat
        BY LenProperties
    <2>4. /\ l \in Seq(Rows) /\ Len(l) = Len(a) + Len(b)
          /\ \A i \in 1 .. Len(a) + Len(b) :
                l[i] = IF i <= Len(a) + 1 THEN Append(a, Head(b))[i]
                       ELSE Tail(b)[i - (Len(a) + 1)]
        BY <2>1, <2>2, <2>3, ConcatProperties
    <2>5. /\ r \in Seq(Rows) /\ Len(r) = Len(a) + Len(b)
          /\ \A i \in 1 .. Len(a) + Len(b) :
                r[i] = IF i <= Len(a) THEN a[i] ELSE b[i - Len(a)]
        BY ConcatProperties
    <2> HIDE DEF l, r
    <2>6. ASSUME NEW i \in 1 .. Len(a) + Len(b) PROVE l[i] = r[i]
        <3>1. CASE i <= Len(a)
            BY <2>1, <2>2, <2>3, <2>4, <2>5, <3>1
        <3>2. CASE i = Len(a) + 1
            BY <2>1, <2>2, <2>3, <2>4, <2>5, <3>2
        <3>3. CASE i > Len(a) + 1
            <4>1. /\ i - (Len(a) + 1) \in 1 .. Len(b) - 1
                  /\ (i - (Len(a) + 1)) + 1 = i - Len(a)
                BY <2>1, <2>3, <3>3
            <4> QED
                BY <2>1, <2>3, <2>4, <2>5, <3>3, <4>1
        <3> QED
            BY <2>1, <2>3, <3>1, <3>2, <3>3
    <2>7. l = r
        BY <2>4, <2>5, <2>6, SeqEqual
    <2> QED
        BY <2>7 DEF l, r
<1>4. store' \o todo' = store \o todo
    BY <1>1, <1>2, <1>3
<1>5. Flat' = Flat
    BY <1>1 DEF Flat
<1> QED
    BY <1>1, <1>4, <1>5 DEF NothingLost, Flat

(* The destructor appends what is buffered.                                *)
LEMMA JoinKeepsRows ==
    ASSUME Control, Counted, NothingLost, JoinAndApply PROVE NothingLost'
<1>1. /\ fpc = "done" /\ q = <<>> /\ todo = <<>>
    BY DEF JoinAndApply, Control, FlusherPlace, Counted, BatchProgress
<1>2. /\ store' = store \o buffer /\ todo' = todo /\ q' = <<>> /\ buffer' = <<>>
      /\ inserted' = inserted
    BY <1>1 DEF JoinAndApply, Leftover
<1>3. store \in Seq(Rows) /\ buffer \in Seq(Rows)
    BY RowTypes DEF Control
<1>4. Flat = <<>> /\ Flat' = <<>>
    BY <1>1, <1>2 DEF Flat, Seqs!FlattenSeq
<1>5. ASSUME NEW a \in Seq(Rows), NEW b \in Seq(Rows)
      PROVE  (((a \o b) \o <<>>) \o <<>>) \o <<>> = ((a \o <<>>) \o <<>>) \o b
    OBVIOUS
<1>6. (((store \o buffer) \o <<>>) \o <<>>) \o <<>> = ((store \o <<>>) \o <<>>) \o buffer
    BY <1>3, <1>5
<1>7. ((store' \o todo') \o Flat') \o buffer' = ((store \o todo) \o Flat) \o buffer
    BY <1>1, <1>2, <1>4, <1>6
<1> QED
    BY <1>2, <1>7 DEF NothingLost, Flat

LEMMA NextNothingLost ==
    Control /\ Counted /\ NothingLost /\ [Next]_vars => NothingLost'
<1> SUFFICES ASSUME Control, Counted, NothingLost, [Next]_vars
             PROVE  NothingLost'
    OBVIOUS
<1>1. CASE Producer
    <2>1. CASE Insert \/ PushBatch
        BY <2>1, InsertKeepsRows, PushKeepsRows
    <2>2. CASE ~(Insert \/ PushBatch)
        <3>1. UNCHANGED rowVars
            BY <1>1, <2>2
            DEF Producer, FlushSync, PushFull, HandOff, Announce, SyncPass,
                SyncNotify, SyncLock, SyncReturn, SyncCheckFails, SyncPark,
                rowVars, prodVars, ringVars, flushVars, storeVars
        <3> QED
            BY <3>1, RowsFrame
    <2> QED
        BY <2>1, <2>2
<1>2. CASE Flusher
    <2>1. CASE FlushPop \/ FlushAppend
        BY <2>1, PopKeepsRows, AppendKeepsRows
    <2>2. CASE ~(FlushPop \/ FlushAppend)
        <3>1. UNCHANGED rowVars
            BY <1>2, <2>2
            DEF Flusher, FlushPopEmpty, FlushLock, FlushPublish, FlushCount,
                FlushTally, FlushPass, FlushAnnounce, FlushGoOn, FlushStop,
                FlushWaitLock, FlushWaitOver, FlushWaitOn, FlushPark,
                rowVars, prodVars, ringVars, flushVars, storeVars
        <3> QED
            BY <3>1, RowsFrame
    <2> QED
        BY <2>1, <2>2
<1>3. CASE Destroyer
    <2>1. CASE JoinAndApply
        BY <2>1, JoinKeepsRows
    <2>2. CASE ~JoinAndApply
        <3>1. UNCHANGED rowVars
            BY <1>3, <2>2
            DEF Destroyer, RequestStop, StopCallbacks, DestroyPass,
                DestroyAnnounce, rowVars, prodVars, ringVars, flushVars, storeVars
        <3> QED
            BY <3>1, RowsFrame
    <2> QED
        BY <2>1, <2>2
<1>4. ASSUME NEW r \in Readers, Reader(r) PROVE NothingLost'
    <2>1. UNCHANGED rowVars
        BY <1>4 DEF Reader, Poll, QueryLock, QueryUnlock, rowVars, prodVars,
                    ringVars, flushVars, storeVars
    <2> QED
        BY <2>1, RowsFrame
<1>5. CASE SpuriousWake \/ Visibility \/ UNCHANGED vars
    <2>1. UNCHANGED rowVars
        BY <1>5 DEF SpuriousWake, Visibility, TailSeen, HeadSeen, vars, rowVars,
                    prodVars, ringVars, flushVars, storeVars
    <2> QED
        BY <2>1, RowsFrame
<1> QED
    BY <1>1, <1>2, <1>3, <1>4, <1>5 DEF Next, Gone

RowsInv == Control /\ Counted /\ NothingLost

THEOREM RowsInvariance == Spec => []RowsInv
BY InitControl, InitCounted, InitNothingLost, NextControl, NextCounted,
   NextNothingLost, PTL DEF Spec, RowsInv

(* No retry of push(), no hand-off, no interleaving of flush and insert    *)
(* and no shutdown loses, duplicates or reorders a row (memtable.cpp:22-79).*)
THEOREM RowsKept == Spec => []NothingLost
<1>1. RowsInv => NothingLost
    BY DEF RowsInv
<1> QED
    BY <1>1, RowsInvariance, PTL

LEMMA ConcatLeft ==
    ASSUME NEW S, NEW a \in Seq(S), NEW b \in Seq(S)
    PROVE  /\ a \o b \in Seq(S) /\ Len(a \o b) = Len(a) + Len(b)
           /\ \A i \in 1 .. Len(a) : (a \o b)[i] = a[i]
<1>1. Len(a) \in Nat /\ Len(b) \in Nat
    BY LenProperties
<1> QED
    BY <1>1, ConcatProperties

(* The places add up to what was inserted, and the store is a prefix.      *)
LEMMA StoreIsPrefix ==
    ASSUME RowsInv
    PROVE  /\ Len(store) \in Nat /\ inserted \in Nat
           /\ Len(store) + Len(buffer) <= inserted
           /\ store \in Seq(Rows)
           /\ \A i \in 1 .. Len(store) : store[i] = i
<1>1. /\ store \in Seq(Rows) /\ todo \in Seq(Rows) /\ buffer \in Seq(Rows)
      /\ Flat \in Seq(Rows) /\ inserted \in Nat
    BY RowTypes DEF RowsInv, Control
<1> DEFINE one == store \o todo
           two == one \o Flat
           all == two \o buffer
<1>2. /\ Len(store) \in Nat /\ Len(todo) \in Nat /\ Len(Flat) \in Nat
      /\ Len(buffer) \in Nat
    BY <1>1, LenProperties
<1>3. /\ one \in Seq(Rows) /\ Len(one) = Len(store) + Len(todo)
      /\ \A i \in 1 .. Len(store) : one[i] = store[i]
    BY <1>1, <1>2, ConcatProperties
<1> HIDE DEF one
<1>4. /\ two \in Seq(Rows) /\ Len(two) = Len(one) + Len(Flat)
      /\ \A i \in 1 .. Len(one) : two[i] = one[i]
    BY <1>1, <1>3, ConcatLeft
<1> HIDE DEF two
<1>5. /\ all \in Seq(Rows) /\ Len(all) = Len(two) + Len(buffer)
      /\ \A i \in 1 .. Len(two) : all[i] = two[i]
    BY <1>1, <1>4, ConcatLeft
<1>6. all = Numbers(inserted)
    BY DEF RowsInv, NothingLost, Flat, Numbers, one, two
<1> HIDE DEF all
<1>7. Len(all) = inserted /\ \A i \in 1 .. inserted : all[i] = i
    <2>1. DOMAIN all = 1 .. inserted /\ \A i \in 1 .. inserted : all[i] = i
        BY <1>6 DEF Numbers
    <2>2. DOMAIN all = 1 .. Len(all) /\ Len(all) \in Nat
        BY <1>5, LenProperties
    <2> QED
        BY <1>1, <2>1, <2>2
<1>8. Len(store) + Len(todo) + Len(Flat) + Len(buffer) = inserted
    BY <1>2, <1>3, <1>4, <1>5, <1>7
<1>9. ASSUME NEW i \in 1 .. Len(store) PROVE store[i] = i
    <2>1. i \in 1 .. Len(one) /\ i \in 1 .. Len(two) /\ i \in 1 .. inserted
        BY <1>2, <1>3, <1>4, <1>8
    <2> QED
        BY <1>3, <1>4, <1>5, <1>7, <2>1
<1> QED
    BY <1>1, <1>2, <1>8, <1>9

(* A load of rows_flushed_ that returns rows_inserted_ means that all of   *)
(* the rows are shown.                                                     *)
LEMMA AllFlushed ==
    ASSUME RowsInv, NEW f \in flushedSafe .. flushed, f = inserted
    PROVE  numRows = inserted /\ store = [i \in 1 .. inserted |-> i]
<1>1. /\ Len(store) \in Nat /\ inserted \in Nat /\ store \in Seq(Rows)
      /\ Len(store) + Len(buffer) <= inserted
      /\ \A i \in 1 .. Len(store) : store[i] = i
    BY StoreIsPrefix
<1>2. /\ flushed \in Nat /\ numRows \in Nat /\ flushedSafe \in Nat
      /\ Len(batch) \in Nat /\ Len(todo) \in Nat /\ Len(buffer) \in Nat
    BY LenProperties
    DEF RowsInv, Control, Types, ProducerTypes, FlushTypes, StoreTypes, WakeTypes
<1>3. flushed <= numRows /\ numRows <= Len(store)
    BY CountersHold DEF RowsInv, CountersFollow
<1>4. numRows = inserted /\ Len(store) = inserted
    BY <1>1, <1>2, <1>3
<1> QED
    BY <1>1, <1>4, LenProperties

(* flush_sync() returns only when every row inserted before it is visible  *)
(* to queries, whatever stale count it read (memtable.hpp:82).             *)
THEOREM SyncIsComplete == Spec => SyncMeansVisible
<1> DEFINE Returns == call = "flush_sync" /\ ppc # "idle" /\ ppc' = "idle"
<1>1. ASSUME RowsInv, [Next]_vars, Returns
      PROVE  numRows = inserted /\ store = [i \in 1 .. inserted |-> i]
    <2>1. SyncReturn
        BY <1>1
        DEF Next, vars, Producer, Insert, FlushSync, PushBatch, PushFull,
            HandOff, Announce, SyncPass, SyncNotify, SyncLock, SyncCheckFails,
            SyncPark, Flusher, FlushPop, FlushPopEmpty, FlushLock, FlushAppend,
            FlushPublish, FlushCount, FlushTally, FlushPass, FlushAnnounce,
            FlushGoOn, FlushStop, FlushWaitLock, FlushWaitOver, FlushWaitOn,
            FlushPark, Reader, Poll, QueryLock, QueryUnlock, Destroyer,
            RequestStop, StopCallbacks, DestroyPass, DestroyAnnounce,
            JoinAndApply, Gone, SpuriousWake, Visibility, prodVars
    <2>2. PICK f \in flushedSafe .. flushed : f = inserted
        BY <2>1 DEF SyncReturn
    <2> QED
        BY <1>1, <2>2, AllFlushed
<1>2. RowsInv /\ [Next]_vars =>
        [Returns => numRows = inserted /\ store = [i \in 1 .. inserted |-> i]]_vars
    BY <1>1
<1> QED
    BY <1>2, RowsInvariance, PTL DEF Spec, SyncMeansVisible

(* The store stands still under a running query (memtable.hpp:91, "safe to *)
(* query concurrently with ingest").                                       *)
THEOREM StoreStandsStill == Spec => StableUnderQuery
<1>1. ASSUME RowsInv, [Next]_vars, NEW r \in Readers, rpc[r] = "scan"
      PROVE  UNCHANGED <<store, numRows>>
    <2>1. ~writer /\ fpc # "append" /\ ~stop /\ dpc = "alive"
        BY <1>1 DEF RowsInv, Control, FlusherPlace, Shutdown
    <2>2. ~FlushAppend /\ ~FlushPublish /\ ~JoinAndApply
        BY <2>1 DEF FlushAppend, FlushPublish, JoinAndApply
    <2> QED
        BY <1>1, <2>2 DEF Next, vars, Producer, Insert, FlushSync, PushBatch,
            PushFull, HandOff, Announce, SyncPass, SyncNotify, SyncLock,
            SyncReturn, SyncCheckFails, SyncPark, Flusher, FlushPop,
            FlushPopEmpty, FlushLock, FlushCount, FlushTally, FlushPass,
            FlushAnnounce, FlushGoOn, FlushStop, FlushWaitLock, FlushWaitOver,
            FlushWaitOn, FlushPark, Reader, Poll, QueryLock, QueryUnlock,
            Destroyer, RequestStop, StopCallbacks, DestroyPass, DestroyAnnounce,
            Gone, SpuriousWake, Visibility, storeVars
<1>2. RowsInv /\ [Next]_vars =>
        [(\E r \in Readers : rpc[r] = "scan") => UNCHANGED <<store, numRows>>]_vars
    BY <1>1
<1> QED
    BY <1>2, RowsInvariance, PTL DEF Spec, StableUnderQuery

-----------------------------------------------------------------------------
(* The hand-over between the producer and the flush thread: the queue      *)
(* keeps within its capacity, and no wake-up is lost.                      *)

(* The flush thread sees all of the queue at its next lock of wake_mu_ but *)
(* for a batch that is not handed off yet, and it goes to sleep only when  *)
(* that is nothing.                                                        *)
Handed ==
    /\ Len(q) <= covered + (IF ppc = "handoff" THEN 1 ELSE 0)
    /\ fpc \in {"waitcheck", "park"} => covered <= visible
    /\ fpc = "park" => covered = 0

(* A flush_sync() about to sleep on a stale count has a notify to come.    *)
AboutToPark ==
    ppc = "syncPark" /\ flushed = inserted => fpc \in {"tally", "pass"}

Woken == Handed /\ AboutToPark /\ NoLostWakeup

LEMMA QueueNumbers ==
    ASSUME Control
    PROVE  /\ Len(q) \in Nat /\ visible \in Nat /\ owed \in Nat /\ covered \in Nat
           /\ visible <= Len(q) /\ covered <= Len(q)
           /\ flushed \in Nat /\ flushedSafe \in Nat /\ inserted \in Nat
           /\ q \in Seq(Seq(Rows)) /\ buffer \in Seq(Rows)
           /\ (q = <<>> <=> Len(q) = 0)
<1>1. /\ visible \in Nat /\ owed \in Nat /\ covered \in Nat /\ visible <= Len(q)
      /\ covered <= Len(q) /\ flushed \in Nat /\ flushedSafe \in Nat
      /\ inserted \in Nat /\ q \in Seq(Seq(Rows)) /\ buffer \in Seq(Rows)
    BY StreamingAssumption
    DEF Control, Types, ProducerTypes, QueueTypes, FlushTypes, WakeTypes
<1> QED
    BY <1>1, LenProperties, EmptySeq

(* What push() and pop() do to the length of the queue.                    *)
LEMMA PushLength == ASSUME Control, PushBatch PROVE Len(q') = Len(q) + 1
<1>1. q' = Append(q, buffer)
    BY DEF PushBatch, Push
<1> QED
    BY <1>1, QueueNumbers, AppendProperties

LEMMA PopLength ==
    ASSUME Control, FlushPop PROVE Len(q') = Len(q) - 1 /\ Len(q) >= 1
<1>1. q' = Tail(q) /\ visible # 0
    BY DEF FlushPop, Pop, SeesEmpty
<1>2. Len(q) >= 1
    BY <1>1, QueueNumbers
<1> QED
    BY <1>1, <1>2, QueueNumbers, HeadTailProperties

-----------------------------------------------------------------------------
(* The queue keeps within its capacity.                                    *)

LEMMA InitBounded == Init => QBounded
<1>1. Len(<<>>) = 0
    OBVIOUS
<1> QED
    BY <1>1, StreamingAssumption DEF Init, QInit, QBounded

LEMMA NextBounded == Control /\ Control' /\ QBounded /\ [Next]_vars => QBounded'
<1> SUFFICES ASSUME Control, Control', QBounded, [Next]_vars
             PROVE  QBounded'
    OBVIOUS
<1> DEFINE bound == (IF QueueCapacity = 0 THEN 2 ELSE QueueCapacity) - 1
<1>1. /\ Len(q) \in Nat /\ owed \in Nat /\ Len(q') \in Nat /\ owed' \in Nat
      /\ visible' <= Len(q') /\ bound \in Int
    <2>1. Len(q) \in Nat /\ owed \in Nat
        BY QueueNumbers
    <2>2. /\ q' \in Seq(Seq(Rows)) /\ owed' \in Nat /\ visible' <= Len(q')
        BY DEF Control, Types, QueueTypes
    <2>3. Len(q') \in Nat
        BY <2>2, LenProperties
    <2>4. bound \in Int
        BY StreamingAssumption
    <2> QED
        BY <2>1, <2>2, <2>3, <2>4
<1>2. Len(q) + owed <= bound
    BY DEF QBounded
<1> SUFFICES Len(q') + owed' <= bound
    BY <1>1 DEF QBounded
<1>3. CASE PushBatch
    <2>1. Len(q) + owed < bound /\ owed' = owed
        BY <1>3 DEF PushBatch, Push, HasRoom
    <2>2. Len(q') = Len(q) + 1
        BY <1>3, PushLength
    <2> HIDE DEF bound
    <2> QED
        BY <1>1, <2>1, <2>2
<1>4. CASE FlushPop
    <2>1. owed' = owed + 1
        BY <1>4 DEF FlushPop, Pop
    <2>2. Len(q') = Len(q) - 1
        BY <1>4, PopLength
    <2> HIDE DEF bound
    <2> QED
        BY <1>1, <1>2, <2>1, <2>2
<1>5. CASE JoinAndApply
    <2>1. q' = <<>> /\ owed' = owed + Len(q)
        BY <1>5 DEF JoinAndApply
    <2> QED
        BY <1>1, <1>2, <2>1
<1>6. CASE Visibility
    BY <1>1, <1>2, <1>6 DEF Visibility, TailSeen, HeadSeen
<1>7. CASE ~PushBatch /\ ~FlushPop /\ ~JoinAndApply /\ ~Visibility
    <2>1. q' = q /\ owed' = owed
        BY <1>7 DEF Next, vars, Producer, Insert, FlushSync, PushFull, HandOff,
            Announce, SyncPass, SyncNotify, SyncLock, SyncReturn,
            SyncCheckFails, SyncPark, Flusher, FlushPopEmpty, FlushLock,
            FlushAppend, FlushPublish, FlushCount, FlushTally, FlushPass,
            FlushAnnounce, FlushGoOn, FlushStop, FlushWaitLock, FlushWaitOver,
            FlushWaitOn, FlushPark, Reader, Poll, QueryLock, QueryUnlock,
            Destroyer, RequestStop, StopCallbacks, DestroyPass, DestroyAnnounce,
            Gone, SpuriousWake, ringVars
    <2> QED
        BY <1>2, <2>1
<1> QED
    BY <1>3, <1>4, <1>5, <1>6, <1>7

(* The queue never holds more batches than it has slots for, even if the   *)
(* producer counts with a stale head_ (memtable.hpp:34-43), and the flush  *)
(* thread never sees more than there are.                                  *)
THEOREM CapacityKept == Spec => []QBounded
BY InitControl, InitBounded, NextControl, NextBounded, PTL DEF Spec

-----------------------------------------------------------------------------
(* Nobody sleeps through what it waits for.                                *)

LEMMA InitWoken == Init => Woken
<1>1. Len(<<>>) = 0
    OBVIOUS
<1> QED
    BY <1>1 DEF Init, QInit, Woken, Handed, AboutToPark, NoLostWakeup

LEMMA ProducerKeepsWoken ==
    ASSUME Control, Counted, Woken, Producer
    PROVE  Woken'
<1> USE DEF Woken, Handed, AboutToPark, NoLostWakeup, prodVars, ringVars,
           flushVars, storeVars, wakeVars, downVars, NotifyAll, PassWakeMu,
           FlusherCatchesUp, Bigger, SeesEmpty, Control, ProducerPlace,
           FlusherPlace, Shutdown, Counted, Counters
<1>0. /\ Len(q) \in Nat /\ visible \in Nat /\ covered \in Nat
      /\ visible <= Len(q) /\ covered <= Len(q) /\ flushed \in Nat
      /\ flushedSafe \in Nat /\ inserted \in Nat /\ (q = <<>> <=> Len(q) = 0)
    BY QueueNumbers
<1>1. CASE Insert
    BY <1>0, <1>1 DEF Insert
<1>2. CASE FlushSync
    BY <1>0, <1>2 DEF FlushSync
<1>3. CASE PushBatch
    BY <1>0, <1>3, PushLength DEF PushBatch, Push
<1>4. CASE PushFull
    BY <1>0, <1>4 DEF PushFull
<1>5. CASE HandOff
    BY <1>0, <1>5 DEF HandOff
<1>6. CASE Announce
    BY <1>0, <1>6 DEF Announce
<1>7. CASE SyncPass
    BY <1>0, <1>7 DEF SyncPass
<1>8. CASE SyncNotify
    BY <1>0, <1>8 DEF SyncNotify
<1>9. CASE SyncLock
    BY <1>0, <1>9 DEF SyncLock
<1>10. CASE SyncReturn
    BY <1>0, <1>10 DEF SyncReturn
<1>11. CASE SyncCheckFails
    BY <1>0, <1>11 DEF SyncCheckFails
<1>12. CASE SyncPark
    BY <1>0, <1>12 DEF SyncPark
<1> QED
    BY <1>1, <1>2, <1>3, <1>4, <1>5, <1>6, <1>7, <1>8, <1>9, <1>10, <1>11, <1>12
    DEF Producer

LEMMA FlusherKeepsWoken == ASSUME Control, Counted, Woken, Flusher PROVE Woken'
<1> USE DEF Woken, Handed, AboutToPark, NoLostWakeup, prodVars, ringVars,
           flushVars, storeVars, wakeVars, downVars, NotifyAll, PassWakeMu,
           FlusherCatchesUp, Bigger, SeesEmpty, Control, ProducerPlace,
           FlusherPlace, Shutdown, Counted, Counters
<1>0. /\ Len(q) \in Nat /\ visible \in Nat /\ covered \in Nat
      /\ visible <= Len(q) /\ covered <= Len(q) /\ flushed \in Nat
      /\ flushedSafe \in Nat /\ inserted \in Nat /\ (q = <<>> <=> Len(q) = 0)
    BY QueueNumbers
<1>1. CASE FlushPop
    BY <1>0, <1>1, PopLength DEF FlushPop, Pop
<1>2. CASE FlushPopEmpty
    BY <1>0, <1>2 DEF FlushPopEmpty
<1>3. CASE FlushLock
    BY <1>0, <1>3 DEF FlushLock
<1>4. CASE FlushAppend
    BY <1>0, <1>4 DEF FlushAppend
<1>5. CASE FlushPublish
    BY <1>0, <1>5 DEF FlushPublish
<1>6. CASE FlushCount
    BY <1>0, <1>6 DEF FlushCount
<1>7. CASE FlushTally
    BY <1>0, <1>7 DEF FlushTally
<1>8. CASE FlushPass
    BY <1>0, <1>8 DEF FlushPass
<1>9. CASE FlushAnnounce
    BY <1>0, <1>9 DEF FlushAnnounce
<1>10. CASE FlushGoOn
    BY <1>0, <1>10 DEF FlushGoOn
<1>11. CASE FlushStop
    BY <1>0, <1>11 DEF FlushStop
<1>12. CASE FlushWaitLock
    BY <1>0, <1>12 DEF FlushWaitLock
<1>13. CASE FlushWaitOver
    BY <1>0, <1>13 DEF FlushWaitOver
<1>14. CASE FlushWaitOn
    BY <1>0, <1>14 DEF FlushWaitOn
<1>15. CASE FlushPark
    BY <1>0, <1>15 DEF FlushPark
<1> QED
    BY <1>1, <1>2, <1>3, <1>4, <1>5, <1>6, <1>7, <1>8, <1>9, <1>10, <1>11,
       <1>12, <1>13, <1>14, <1>15
    DEF Flusher

LEMMA DestroyerKeepsWoken ==
    ASSUME Control, Counted, Woken, Destroyer
    PROVE  Woken'
<1> USE DEF Woken, Handed, AboutToPark, NoLostWakeup, prodVars, ringVars,
           flushVars, storeVars, wakeVars, downVars, NotifyAll, PassWakeMu,
           FlusherCatchesUp, Bigger, SeesEmpty, Control, ProducerPlace,
           FlusherPlace, Shutdown, Counted, Counters
<1>0. /\ Len(q) \in Nat /\ visible \in Nat /\ covered \in Nat
      /\ visible <= Len(q) /\ covered <= Len(q) /\ flushed \in Nat
      /\ flushedSafe \in Nat /\ inserted \in Nat /\ (q = <<>> <=> Len(q) = 0)
    BY QueueNumbers
<1>1. CASE RequestStop
    BY <1>0, <1>1 DEF RequestStop
<1>2. CASE StopCallbacks
    BY <1>0, <1>2 DEF StopCallbacks
<1>3. CASE DestroyPass
    BY <1>0, <1>3 DEF DestroyPass
<1>4. CASE DestroyAnnounce
    BY <1>0, <1>4 DEF DestroyAnnounce
<1>5. CASE JoinAndApply
    BY <1>0, <1>5 DEF JoinAndApply
<1> QED
    BY <1>1, <1>2, <1>3, <1>4, <1>5 DEF Destroyer

LEMMA NextWoken == Control /\ Counted /\ Woken /\ [Next]_vars => Woken'
<1> SUFFICES ASSUME Control, Counted, Woken, [Next]_vars PROVE Woken'
    OBVIOUS
<1> USE DEF Woken, Handed, AboutToPark, NoLostWakeup, prodVars, ringVars,
           flushVars, wakeVars, downVars
<1>1. ASSUME NEW r \in Readers, Reader(r) PROVE Woken'
    BY <1>1 DEF Reader, Poll, QueryLock, QueryUnlock
<1>2. CASE SpuriousWake
    BY <1>2 DEF SpuriousWake
<1>3. CASE Visibility
    BY <1>3, QueueNumbers DEF Visibility, TailSeen, HeadSeen
<1>4. CASE UNCHANGED vars
    BY <1>4 DEF vars
<1> QED
    BY <1>1, <1>2, <1>3, <1>4, ProducerKeepsWoken, FlusherKeepsWoken,
       DestroyerKeepsWoken DEF Next, Gone

(* No wake-up is lost (memtable.cpp:41-61 and 75-100): the flush thread    *)
(* never sleeps on a batch that is handed off or through a stop request,   *)
(* nor a flush_sync() on rows that are all flushed, unless the notify is   *)
(* still to come.                                                          *)
THEOREM WakeupsKept == Spec => []NoLostWakeup
<1>1. Woken => NoLostWakeup
    BY DEF Woken
<1> QED
    BY <1>1, InitControl, InitCounted, InitWoken, NextControl, NextCounted,
       NextWoken, PTL DEF Spec
=============================================================================
