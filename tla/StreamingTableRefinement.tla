----------------------- MODULE StreamingTableRefinement ---------------------
(***************************************************************************)
(* StreamingTable implements IngestLog, for every threshold, capacity,     *)
(* number of readers and number of rows: callers cannot tell the buffer,   *)
(* the queue, the flush thread and the locks from an append-only log that  *)
(* becomes visible in order, one whole batch at a time.                    *)
(***************************************************************************)
EXTENDS StreamingTableProofs

LEMMA NumbersLength ==
    ASSUME NEW n \in Nat
    PROVE  Numbers(n) \in Seq(Nat) /\ Len(Numbers(n)) = n
<1>1. Numbers(n) \in [1 .. n -> Nat]
    BY DEF Numbers
<1>2. Numbers(n) \in Seq(Nat)
    BY <1>1, SeqDef
<1> QED
    BY <1>1, <1>2, LenProperties

LEMMA NumbersPrefix ==
    ASSUME NEW n \in Nat, NEW k \in 0 .. n
    PROVE  SubSeq(Numbers(n), 1, k) = Numbers(k)
<1>1. SubSeq(Numbers(n), 1, k) = [i \in 1 .. k |-> Numbers(n)[i]]
    BY NumbersLength, SubSeqProperties
<1>2. \A i \in 1 .. k : Numbers(n)[i] = i
    BY DEF Numbers
<1> QED
    BY <1>1, <1>2 DEF Numbers

LEMMA NumbersAppend ==
    ASSUME NEW n \in Nat
    PROVE  Append(Numbers(n), Len(Numbers(n)) + 1) = Numbers(n + 1)
<1>1. Numbers(n) \in Seq(Nat) /\ Len(Numbers(n)) = n
    BY NumbersLength
<1>2. /\ Append(Numbers(n), n + 1) \in Seq(Nat)
      /\ Len(Append(Numbers(n), n + 1)) = n + 1
      /\ \A i \in 1 .. n : Append(Numbers(n), n + 1)[i] = Numbers(n)[i]
      /\ Append(Numbers(n), n + 1)[n + 1] = n + 1
    BY <1>1, AppendProperties
<1>3. \A i \in 1 .. n + 1 : Append(Numbers(n), n + 1)[i] = i
    BY <1>2 DEF Numbers
<1>4. Numbers(n + 1) \in Seq(Nat) /\ Len(Numbers(n + 1)) = n + 1
    BY NumbersLength
<1>5. \A i \in 1 .. n + 1 : Numbers(n + 1)[i] = i
    BY DEF Numbers
<1>6. Append(Numbers(n), n + 1) = Numbers(n + 1)
    BY <1>2, <1>3, <1>4, <1>5, SeqEqual
<1> QED
    BY <1>1, <1>6

-----------------------------------------------------------------------------
(* What of the state a caller can see: a prefix of what was inserted, and  *)
(* all of it in the end.                                                   *)
ShownRows ==
    /\ inserted \in Nat /\ numRows \in 0 .. inserted
    /\ SubSeq(store, 1, numRows) = Numbers(numRows)
    /\ dpc = "gone" => numRows = inserted

LEMMA RowsInvShows == RowsInv => ShownRows
<1> SUFFICES ASSUME RowsInv PROVE ShownRows
    OBVIOUS
<1>1. /\ Len(store) \in Nat /\ inserted \in Nat /\ store \in Seq(Rows)
      /\ Len(store) + Len(buffer) <= inserted
      /\ \A i \in 1 .. Len(store) : store[i] = i
    BY StoreIsPrefix
<1>2. numRows \in Nat /\ Len(buffer) \in Nat
    BY LenProperties DEF RowsInv, Control, Types, ProducerTypes, StoreTypes
<1>3. numRows <= Len(store)
    BY CountersHold DEF RowsInv, CountersFollow
<1>4. numRows \in 0 .. inserted
    BY <1>1, <1>2, <1>3
<1>5. SubSeq(store, 1, numRows) = Numbers(numRows)
    <2>1. SubSeq(store, 1, numRows) = [i \in 1 .. numRows |-> store[i]]
        BY <1>1, <1>2, <1>3, SubSeqProperties
    <2>2. \A i \in 1 .. numRows : store[i] = i
        BY <1>1, <1>2, <1>3
    <2> QED
        BY <2>1, <2>2 DEF Numbers
<1>6. ASSUME dpc = "gone" PROVE numRows = inserted
    <2>1. fpc = "done" /\ buffer = <<>> /\ q = <<>> /\ todo = <<>>
        BY <1>6
        DEF RowsInv, Control, FlusherPlace, Shutdown, Counted, BatchProgress
    <2>2. Flat = <<>>
        BY <2>1 DEF Flat, Seqs!FlattenSeq
    <2>3. store \o <<>> = store
        BY <1>1, ConcatEmptySeq
    <2>4. store = Numbers(inserted)
        BY <2>1, <2>2, <2>3 DEF RowsInv, NothingLost, Flat, Numbers
    <2>5. Len(store) = inserted
        BY <1>1, <2>4, NumbersLength
    <2>6. Len(store) = numRows
        BY <1>1, <1>2, <2>1 DEF RowsInv, Counted, Counters, Applied
    <2> QED
        BY <2>5, <2>6
<1> QED
    BY <1>1, <1>4, <1>5, <1>6 DEF ShownRows

-----------------------------------------------------------------------------
(* Batches.  insert() hands the buffer off as soon as it holds Threshold   *)
(* rows, so a batch is never larger, and smaller only for flush_sync().    *)
BufferFits ==
    /\ Len(buffer) <= Threshold
    /\ ppc = "idle" => Len(buffer) < Threshold
    /\ ppc = "push" /\ call = "insert" => Len(buffer) = Threshold

LEMMA ThresholdType == Threshold \in Nat /\ Threshold >= 1
BY StreamingAssumption DEF Threshold

LEMMA InitFits == Init => BufferFits
BY ThresholdType DEF Init, BufferFits

LEMMA NextFits == Control /\ BufferFits /\ [Next]_vars => BufferFits'
<1> SUFFICES ASSUME Control, BufferFits, [Next]_vars PROVE BufferFits'
    OBVIOUS
<1>1. /\ Threshold' = Threshold /\ Threshold \in Nat /\ Threshold >= 1
      /\ Len(<<>>) = 0 /\ Len(buffer) \in Nat
      /\ ppc \notin {"idle", "push"} => buffer = <<>>
    BY ThresholdType, LenProperties DEF Control, Types, ProducerTypes, ProducerPlace, Threshold
<1>2. CASE UNCHANGED <<ppc, call, buffer>>
    BY <1>1, <1>2 DEF BufferFits
<1>3. CASE Insert
    <2>1. Len(buffer') = Len(buffer) + 1 /\ ppc = "idle"
        BY <1>3 DEF Insert, Control, Types, ProducerTypes
    <2>2. ppc' = IF Len(buffer') >= Threshold THEN "push" ELSE "idle"
        BY <1>3 DEF Insert
    <2> QED
        BY <1>1, <2>1, <2>2 DEF BufferFits
<1>4. CASE FlushSync
    BY <1>1, <1>4 DEF FlushSync, BufferFits
<1>5. CASE Producer /\ ~Insert /\ ~FlushSync
    <2>1. (buffer' = <<>> /\ ppc' # "push") \/ UNCHANGED <<ppc, call, buffer>>
        BY <1>1, <1>5
        DEF Producer, PushBatch, PushFull, HandOff, Announce, SyncPass, SyncNotify,
            SyncLock, SyncReturn, SyncCheckFails, SyncPark, prodVars
    <2> QED
        BY <1>1, <1>2, <2>1 DEF BufferFits
<1>6. CASE Destroyer
    <2>1. /\ ppc' = ppc /\ call' = call
          /\ buffer' = <<>> \/ buffer' = buffer
        BY <1>6
        DEF Destroyer, RequestStop, StopCallbacks, DestroyPass, DestroyAnnounce,
            JoinAndApply, prodVars
    <2>2. CASE buffer' = buffer
        BY <1>2, <2>1, <2>2
    <2>3. CASE buffer' = <<>>
        <3>1. ppc = "idle"
            BY <1>6 DEF Destroyer, RequestStop, StopCallbacks, DestroyPass,
                DestroyAnnounce, JoinAndApply, Control, Shutdown
        <3> QED
            BY <1>1, <2>1, <2>3, <3>1 DEF BufferFits
    <2> QED
        BY <2>1, <2>2, <2>3
<1>7. CASE Flusher \/ (\E r \in Readers : Reader(r)) \/ Gone \/ SpuriousWake \/ Visibility
    <2>1. CASE Flusher
        BY <1>2, <2>1
        DEF Flusher, FlushPop, FlushPopEmpty, FlushLock, FlushAppend, FlushPublish,
            FlushCount, FlushTally, FlushPass, FlushAnnounce, FlushGoOn, FlushStop,
            FlushWaitLock, FlushWaitOver, FlushWaitOn, FlushPark, prodVars
    <2>2. CASE \E r \in Readers : Reader(r)
        BY <1>2, <2>2 DEF Reader, Poll, QueryLock, QueryUnlock, prodVars
    <2>3. CASE Gone \/ SpuriousWake \/ Visibility
        BY <1>2, <2>3 DEF Gone, SpuriousWake, Visibility, vars, prodVars
    <2> QED
        BY <1>7, <2>1, <2>2, <2>3
<1>8. CASE UNCHANGED vars
    BY <1>2, <1>8 DEF vars, prodVars
<1> QED
    BY <1>3, <1>4, <1>5, <1>6, <1>7, <1>8 DEF Next

(* The sizes of the batches that are on their way.                         *)
Sizes == [i \in DOMAIN HandedOff |-> Len(HandedOff[i])]

LEMMA HandedOffType ==
    ASSUME Control
    PROVE  /\ HandedOff \in Seq(Seq(Rows))
           /\ fpc \in {"lock", "append"} =>
                HandedOff # <<>> /\ Head(HandedOff) = batch /\ Tail(HandedOff) = q
           /\ fpc \notin {"lock", "append"} => HandedOff = q
<1>1. /\ q \in Seq(Seq(Rows)) /\ batch \in Seq(Rows)
    BY DEF Control, Types, QueueTypes, FlushTypes
<1>2. /\ <<batch>> \in Seq(Seq(Rows)) /\ <<>> \o q = q
    BY <1>1, ConcatEmptySeq
<1>3. CASE fpc \in {"lock", "append"}
    <2>1. HandedOff = <<batch>> \o q
        BY <1>3 DEF HandedOff
    <2>2. /\ <<batch>> \o q \in Seq(Seq(Rows)) /\ Len(<<batch>> \o q) = 1 + Len(q)
          /\ Len(q) \in Nat /\ (<<batch>> \o q)[1] = batch
          /\ \A i \in 1 .. Len(q) : (<<batch>> \o q)[i + 1] = q[i]
        BY <1>1, <1>2
    <2> HIDE DEF HandedOff
    <2>3. HandedOff # <<>> /\ Head(HandedOff) = batch
        BY <2>1, <2>2, HeadTailProperties
    <2>4. Tail(HandedOff) = q
        <3>1. /\ Tail(HandedOff) \in Seq(Seq(Rows)) /\ Len(Tail(HandedOff)) = Len(q)
              /\ \A i \in 1 .. Len(q) : Tail(HandedOff)[i] = q[i]
            BY <2>1, <2>2, <2>3, HeadTailProperties
        <3> QED
            BY <1>1, <3>1, SeqEqual
    <2> QED
        BY <1>3, <2>1, <2>2, <2>3, <2>4
<1>4. CASE fpc \notin {"lock", "append"}
    BY <1>1, <1>2, <1>4 DEF HandedOff
<1> QED
    BY <1>3, <1>4

LEMMA SizesAppend ==
    ASSUME NEW s \in Seq(Seq(Rows)), NEW b \in Seq(Rows)
    PROVE  [i \in DOMAIN Append(s, b) |-> Len(Append(s, b)[i])]
            = Append([i \in DOMAIN s |-> Len(s[i])], Len(b))
<1> DEFINE n == Len(s)
           x == [i \in DOMAIN s |-> Len(s[i])]
           y == Append(s, b)
           z == [i \in DOMAIN y |-> Len(y[i])]
<1>1. /\ n \in Nat /\ DOMAIN s = 1 .. n
      /\ DOMAIN y = 1 .. n + 1 /\ y[n + 1] = b /\ \A i \in 1 .. n : y[i] = s[i]
      /\ \A i \in 1 .. n : s[i] \in Seq(Rows)
    BY LenProperties, AppendProperties
<1> HIDE DEF n, y
<1>2. /\ x \in Seq(Nat) /\ Len(x) = n /\ \A i \in 1 .. n : x[i] = Len(s[i])
    <2>1. x \in [1 .. n -> Nat]
        BY <1>1, LenProperties
    <2>2. \A i \in 1 .. n : x[i] = Len(s[i])
        BY <1>1
    <2> HIDE DEF x
    <2>3. x \in Seq(Nat)
        BY <1>1, <2>1, SeqDef
    <2> QED
        BY <1>1, <2>1, <2>2, <2>3, LenProperties
<1>3. /\ z \in Seq(Nat) /\ Len(z) = n + 1
      /\ \A i \in 1 .. n : z[i] = Len(s[i])
      /\ z[n + 1] = Len(b)
    <2>1. /\ \A i \in 1 .. n : z[i] = Len(s[i])
          /\ z[n + 1] = Len(b)
        BY <1>1
    <2>2. \A i \in 1 .. n + 1 : y[i] \in Seq(Rows)
        BY <1>1
    <2>3. z \in [1 .. n + 1 -> Nat]
        BY <1>1, <2>2, LenProperties
    <2> HIDE DEF z
    <2>4. z \in Seq(Nat)
        BY <1>1, <2>3, SeqDef
    <2> QED
        BY <1>1, <2>1, <2>3, <2>4, LenProperties
<1> HIDE DEF x, z
<1>4. Len(b) \in Nat
    BY LenProperties
<1>5. /\ Append(x, Len(b)) \in Seq(Nat) /\ Len(Append(x, Len(b))) = n + 1
      /\ \A i \in 1 .. n : Append(x, Len(b))[i] = x[i]
      /\ Append(x, Len(b))[n + 1] = Len(b)
    BY <1>2, <1>4, AppendProperties
<1>6. z = Append(x, Len(b))
    <2>1. ASSUME NEW i \in 1 .. n + 1 PROVE z[i] = Append(x, Len(b))[i]
        <3>1. i \in 1 .. n \/ i = n + 1
            BY <1>1
        <3>2. CASE i = n + 1
            BY <1>3, <1>5, <3>2
        <3>3. CASE i \in 1 .. n
            BY <1>2, <1>3, <1>5, <3>3
        <3> QED
            BY <3>1, <3>2, <3>3
    <2> QED
        BY <1>3, <1>5, <2>1, SeqEqual
<1> QED
    BY <1>6 DEF z, x, y

LEMMA SizesTail ==
    ASSUME NEW s \in Seq(Seq(Rows)), s # <<>>
    PROVE  LET x == [i \in DOMAIN s |-> Len(s[i])]
           IN  /\ x # <<>> /\ Head(x) = Len(Head(s))
               /\ Tail(x) = [i \in DOMAIN Tail(s) |-> Len(Tail(s)[i])]
<1> DEFINE n == Len(s)
           x == [i \in DOMAIN s |-> Len(s[i])]
           y == Tail(s)
           z == [i \in DOMAIN y |-> Len(y[i])]
<1>1. /\ n \in Nat /\ n >= 1 /\ DOMAIN s = 1 .. n /\ Head(s) = s[1]
      /\ y \in Seq(Seq(Rows)) /\ Len(y) = n - 1 /\ DOMAIN y = 1 .. n - 1
      /\ \A i \in 1 .. n - 1 : y[i] = s[i + 1]
      /\ \A i \in 1 .. n : s[i] \in Seq(Rows)
    BY LenProperties, HeadTailProperties, EmptySeq
<1> HIDE DEF n, y
<1>2. /\ x \in Seq(Nat) /\ Len(x) = n /\ \A i \in 1 .. n : x[i] = Len(s[i])
    <2>1. x \in [1 .. n -> Nat]
        BY <1>1, LenProperties
    <2>2. \A i \in 1 .. n : x[i] = Len(s[i])
        BY <1>1
    <2> HIDE DEF x
    <2>3. x \in Seq(Nat)
        BY <1>1, <2>1, SeqDef
    <2> QED
        BY <1>1, <2>1, <2>2, <2>3, LenProperties
<1>3. /\ z \in Seq(Nat) /\ Len(z) = n - 1
      /\ \A i \in 1 .. n - 1 : z[i] = Len(s[i + 1])
    <2>1. \A i \in 1 .. n - 1 : z[i] = Len(s[i + 1])
        BY <1>1
    <2>2. z \in [1 .. n - 1 -> Nat]
        BY <1>1, LenProperties
    <2> HIDE DEF z
    <2>3. z \in Seq(Nat)
        BY <1>1, <2>2, SeqDef
    <2> QED
        BY <1>1, <2>1, <2>2, <2>3, LenProperties
<1> HIDE DEF x, z
<1>4. /\ x # <<>> /\ Head(x) = x[1] /\ Tail(x) \in Seq(Nat) /\ Len(Tail(x)) = n - 1
      /\ \A i \in 1 .. n - 1 : Tail(x)[i] = x[i + 1]
    BY <1>1, <1>2, HeadTailProperties, EmptySeq
<1>5. Head(x) = Len(Head(s))
    BY <1>1, <1>2, <1>4
<1>6. Tail(x) = z
    <2>1. \A i \in 1 .. n - 1 : Tail(x)[i] = z[i]
        BY <1>1, <1>2, <1>3, <1>4
    <2> QED
        BY <1>3, <1>4, <2>1, SeqEqual
<1> QED
    BY <1>4, <1>5, <1>6 DEF x, y, z

-----------------------------------------------------------------------------

(* What leaves the batches on their way as they are.                       *)
LEMMA BatchesFrame == ASSUME UNCHANGED <<fpc, batch, q>> PROVE HandedOff' = HandedOff
BY DEF HandedOff

(* pop() moves the oldest batch from the queue into the thread's hand.     *)
LEMMA PopKeepsBatches == ASSUME Control, FlushPop PROVE HandedOff' = HandedOff
<1>1. /\ fpc = "pop" /\ fpc' = "lock" /\ batch' = Head(q) /\ q' = Tail(q)
      /\ q \in Seq(Seq(Rows)) /\ Len(q) \in Nat /\ Len(q) >= 1
    BY QueueNumbers, PopLength DEF FlushPop, Pop
<1>2. HandedOff = q
    BY <1>1, HandedOffType
<1>3. HandedOff' = <<Head(q)>> \o Tail(q)
    BY <1>1 DEF HandedOff
<1>4. q # <<>>
    BY <1>1, EmptySeq
<1>5. /\ Tail(q) \in Seq(Seq(Rows)) /\ Len(Tail(q)) = Len(q) - 1
      /\ \A i \in 1 .. Len(q) - 1 : Tail(q)[i] = q[i + 1]
      /\ Head(q) = q[1] /\ Head(q) \in Seq(Rows)
    BY <1>1, <1>4, HeadTailProperties
<1>6. <<Head(q)>> \o Tail(q) = q
    <2> DEFINE t == Tail(q)
               h == Head(q)
               j == <<h>> \o t
    <2>1. t \in Seq(Seq(Rows)) /\ h \in Seq(Rows) /\ Len(t) = Len(q) - 1
        BY <1>5
    <2>2. j \in Seq(Seq(Rows)) /\ Len(j) = 1 + Len(t) /\ j[1] = h
          /\ \A i \in 1 .. Len(t) : j[i + 1] = t[i]
        <3> HIDE DEF t, h
        <3> QED
            BY <1>1, <2>1
    <2>3. ASSUME NEW i \in 1 .. Len(q) PROVE j[i] = q[i]
        <3>1. CASE i = 1
            BY <1>5, <2>2, <3>1
        <3>2. CASE i # 1
            <4>1. i - 1 \in 1 .. Len(t) /\ i = (i - 1) + 1
                BY <1>1, <2>1, <3>2
            <4> HIDE DEF j
            <4>2. j[i] = t[i - 1]
                BY <2>2, <4>1
            <4>3. t[i - 1] = q[i]
                BY <1>5, <2>1, <4>1
            <4> QED
                BY <4>2, <4>3
        <3> QED
            BY <3>1, <3>2
    <2> HIDE DEF j, t, h
    <2>4. Len(j) = Len(q)
        BY <1>1, <2>1, <2>2
    <2>5. j = q
        BY <1>1, <2>2, <2>3, <2>4, SeqEqual
    <2> QED
        BY <2>5 DEF j, t, h
<1> QED
    BY <1>2, <1>3, <1>6

(* From here on the batches on their way count by their sizes alone.       *)
LEMMA SizesFrame == ASSUME HandedOff' = HandedOff PROVE Sizes' = Sizes
BY DEF Sizes

-----------------------------------------------------------------------------

LEMMA InitIsLogInit == Init => Log!LogInit
<1> SUFFICES ASSUME Init PROVE Log!LogInit
    OBVIOUS
<1>1. [i \in 1 .. inserted |-> i] = <<>>
    BY DEF Init
<1>2. SubSeq(store, 1, numRows) = <<>>
    <2>1. SubSeq(<<>>, 1, 0) = <<>>
        OBVIOUS
    <2> QED
        BY <2>1 DEF Init
<1>3. Sizes = <<>> /\ Len(buffer) = 0
    <2>1. HandedOff = <<>> \o <<>>
        BY DEF Init, QInit, HandedOff
    <2>2. HandedOff = <<>>
        BY <2>1
    <2> QED
        BY <2>2 DEF Init, Sizes
<1> QED
    BY <1>1, <1>2, <1>3 DEF Init, Log!LogInit, Sizes

Syncing == call = "flush_sync" /\ ppc # "idle"
Closed == dpc = "gone"

(* A step that changes nothing a caller can see.                           *)
LEMMA NotSeen ==
    ASSUME ShownRows, ShownRows',
           UNCHANGED <<inserted, numRows, snapshot, buffer>>,
           HandedOff' = HandedOff, Syncing' <=> Syncing, Closed' <=> Closed
    PROVE  UNCHANGED Log!logVars
<1>1. SubSeq(store, 1, numRows)' = SubSeq(store, 1, numRows)
    BY DEF ShownRows
<1>2. Sizes' = Sizes
    BY SizesFrame
<1> QED
    BY <1>1, <1>2 DEF Log!logVars, Syncing, Closed, Sizes

(* insert() adds a row to the log and no other.                            *)
LEMMA InsertIsAddRow ==
    ASSUME Control, BufferFits, ShownRows, ShownRows', Insert PROVE Log!AddRow
<1>1. /\ inserted' = inserted + 1 /\ numRows' = numRows /\ snapshot' = snapshot
      /\ dpc' = dpc /\ ~Syncing /\ ~Syncing' /\ ~Closed
    BY DEF Insert, storeVars, readVars, downVars, Syncing, Closed
<1>2. SubSeq(store, 1, numRows)' = SubSeq(store, 1, numRows)
    BY <1>1 DEF ShownRows
<1>3. Numbers(inserted)' = Append(Numbers(inserted), Len(Numbers(inserted)) + 1)
    BY <1>1, NumbersAppend DEF ShownRows
<1>4. Len(buffer) < Threshold
    BY DEF Insert, BufferFits
<1>5. Len(buffer)' = Len(buffer) + 1
    BY DEF Insert, Control, Types, ProducerTypes
<1>6. Sizes' = Sizes
    BY BatchesFrame, SizesFrame DEF Insert, ringVars, flushVars
<1> QED
    BY <1>1, <1>2, <1>3, <1>4, <1>5, <1>6
    DEF Log!AddRow, Numbers, Syncing, Closed, Sizes

(* push() makes a batch of what was buffered: a full one unless it is      *)
(* flush_sync() that pushes.                                               *)
LEMMA PushIsCut ==
    ASSUME Control, BufferFits, ShownRows, ShownRows', PushBatch PROVE Log!Cut
<1>1. /\ inserted' = inserted /\ numRows' = numRows /\ snapshot' = snapshot
      /\ dpc' = dpc /\ call' = call /\ ppc = "push" /\ ppc' = "handoff"
      /\ fpc' = fpc /\ batch' = batch /\ q' = Append(q, buffer) /\ buffer' = <<>>
    BY DEF PushBatch, Push, flushVars, storeVars, readVars, downVars
<1>2. SubSeq(store, 1, numRows)' = SubSeq(store, 1, numRows)
    BY <1>1 DEF ShownRows
<1>3. ~Closed
    BY <1>1 DEF Control, Shutdown, Closed
<1>4. Len(buffer) = Threshold \/ (Syncing /\ Len(buffer) > 0)
    <2>1. Len(buffer) \in Nat /\ Len(buffer) # 0 /\ call \in {"insert", "flush_sync"}
        BY <1>1, LenProperties, EmptySeq
        DEF Control, ProducerPlace, Types, ProducerTypes
    <2> QED
        BY <1>1, <2>1 DEF BufferFits, Syncing
<1>5. Sizes' = Append(Sizes, Len(buffer))
    <2>1. HandedOff \in Seq(Seq(Rows)) /\ q \in Seq(Seq(Rows)) /\ batch \in Seq(Rows)
          /\ buffer \in Seq(Rows)
        BY HandedOffType DEF Control, Types, ProducerTypes, QueueTypes, FlushTypes
    <2>2. ASSUME NEW c \in Seq(Seq(Rows))
          PROVE  c \o Append(q, buffer) = Append(c \o q, buffer)
        BY <2>1, AppendIsConcat, ConcatAssociative
    <2>3. HandedOff' = Append(HandedOff, buffer)
        <3>1. CASE fpc \in {"lock", "append"}
            <4>1. <<batch>> \in Seq(Seq(Rows))
                BY <2>1
            <4>2. HandedOff = <<batch>> \o q /\ HandedOff' = <<batch>> \o Append(q, buffer)
                BY <1>1, <3>1 DEF HandedOff
            <4> QED
                BY <2>2, <4>1, <4>2
        <3>2. CASE fpc \notin {"lock", "append"}
            <4>1. <<>> \in Seq(Seq(Rows))
                OBVIOUS
            <4>2. HandedOff = <<>> \o q /\ HandedOff' = <<>> \o Append(q, buffer)
                BY <1>1, <3>2 DEF HandedOff
            <4> QED
                BY <2>2, <4>1, <4>2
        <3> QED
            BY <3>1, <3>2
    <2> QED
        BY <2>1, <2>3, SizesAppend DEF Sizes
<1>6. Len(buffer)' = 0
    BY <1>1
<1> QED
    BY <1>1, <1>2, <1>3, <1>4, <1>5, <1>6 DEF Log!Cut, Syncing, Closed, Sizes

(* The end of apply_batch() shows the rows of the oldest batch.            *)
LEMMA PublishIsShow ==
    ASSUME Control, ShownRows, ShownRows', FlushPublish PROVE Log!Show
<1>1. /\ numRows' = numRows + Len(batch) /\ inserted' = inserted
      /\ snapshot' = snapshot /\ call' = call /\ ppc' = ppc /\ dpc' = dpc
      /\ fpc = "append" /\ fpc' = "count" /\ q' = q /\ buffer' = buffer
    BY DEF FlushPublish, prodVars, ringVars, readVars, downVars
<1>2. ~Closed
    BY <1>1 DEF Control, Shutdown, Closed
<1>3. /\ HandedOff \in Seq(Seq(Rows)) /\ HandedOff # <<>>
      /\ Head(HandedOff) = batch /\ Tail(HandedOff) = q
    BY <1>1, HandedOffType
<1>4. HandedOff' = q
    <2>1. HandedOff' = <<>> \o q /\ q \in Seq(Seq(Rows))
        BY <1>1 DEF HandedOff, Control, Types, QueueTypes
    <2> QED
        BY <2>1, ConcatEmptySeq
<1>5. Sizes # <<>> /\ Head(Sizes) = Len(batch) /\ Tail(Sizes) = Sizes'
    BY <1>3, <1>4, SizesTail DEF Sizes
<1>6. Len(SubSeq(store, 1, numRows)) = numRows
    BY NumbersLength DEF ShownRows
<1>7. SubSeq(store, 1, numRows)' = SubSeq(Numbers(inserted), 1, numRows')
    BY <1>1, NumbersPrefix DEF ShownRows
<1> QED
    BY <1>1, <1>2, <1>5, <1>6, <1>7 DEF Log!Show, Numbers, Closed, Sizes

(* flush_sync() returns with all of the log shown.                         *)
LEMMA SyncReturnsShown ==
    ASSUME RowsInv, ShownRows, ShownRows', SyncReturn PROVE Log!SyncReturn
<1>1. /\ inserted' = inserted /\ numRows' = numRows /\ snapshot' = snapshot
      /\ dpc' = dpc /\ ppc = "syncCheck" /\ ~Syncing'
    BY DEF SyncReturn, storeVars, readVars, downVars, Syncing
<1>2. Syncing
    BY <1>1 DEF RowsInv, Control, ProducerPlace, Syncing
<1>3. PICK f \in flushedSafe .. flushed : f = inserted
    BY DEF SyncReturn
<1>4. numRows = inserted
    BY <1>3, AllFlushed
<1>5. SubSeq(store, 1, numRows)' = SubSeq(store, 1, numRows)
    BY <1>1 DEF ShownRows
<1>6. SubSeq(store, 1, numRows) = Numbers(inserted)
    BY <1>4 DEF ShownRows
<1>7. Sizes' = Sizes /\ buffer' = buffer
    BY BatchesFrame, SizesFrame DEF SyncReturn, ringVars, flushVars
<1> QED
    BY <1>1, <1>2, <1>5, <1>6, <1>7 DEF Log!SyncReturn, Numbers, Syncing, Sizes

(* The destructor shows what was inserted, all of it.                      *)
LEMMA JoinIsClose ==
    ASSUME Control, ShownRows, ShownRows', JoinAndApply PROVE Log!Close
<1>1. /\ inserted' = inserted /\ snapshot' = snapshot /\ call' = call
      /\ ppc' = ppc /\ dpc = "join" /\ dpc' = "gone"
    BY DEF JoinAndApply, readVars
<1>2. ppc = "idle"
    BY <1>1 DEF Control, Shutdown
<1>3. SubSeq(store, 1, numRows)' = Numbers(inserted)
    BY <1>1 DEF ShownRows
<1>4. Sizes' = <<>> /\ Len(buffer)' = 0
    <2>1. HandedOff' = <<>> \o <<>> /\ buffer' = <<>>
        BY DEF JoinAndApply, HandedOff
    <2>2. HandedOff' = <<>>
        BY <2>1
    <2> QED
        BY <2>1, <2>2 DEF Sizes
<1> QED
    BY <1>1, <1>2, <1>3, <1>4 DEF Log!Close, Numbers, Sizes

(* A query starts on exactly what is shown.                                *)
LEMMA LockIsQuery ==
    ASSUME Control, ShownRows, ShownRows', NEW r \in Readers, QueryLock(r)
    PROVE  Log!Query(r)
<1>1. /\ inserted' = inserted /\ numRows' = numRows /\ call' = call
      /\ ppc' = ppc /\ dpc' = dpc /\ rpc[r] = "query"
      /\ snapshot' = [snapshot EXCEPT ![r] = numRows]
    BY DEF QueryLock, prodVars, storeVars, downVars
<1>2. dpc # "gone"
    BY <1>1 DEF Control, Shutdown
<1>3. Len(SubSeq(store, 1, numRows)) = numRows
    BY NumbersLength DEF ShownRows
<1>4. SubSeq(store, 1, numRows)' = SubSeq(store, 1, numRows)
    BY <1>1 DEF ShownRows
<1>5. Sizes' = Sizes /\ buffer' = buffer
    BY BatchesFrame, SizesFrame DEF QueryLock, prodVars, ringVars, flushVars
<1> QED
    BY <1>1, <1>2, <1>3, <1>4, <1>5 DEF Log!Query, Sizes

LEMMA NextIsLogNext ==
    RowsInv /\ BufferFits /\ ShownRows /\ ShownRows' /\ [Next]_vars
        => [Log!LogNext]_(Log!logVars)
<1> SUFFICES ASSUME RowsInv, BufferFits, ShownRows, ShownRows', [Next]_vars
             PROVE  [Log!LogNext]_(Log!logVars)
    OBVIOUS
<1>0. Control
    BY DEF RowsInv
<1>1. CASE Producer
    <2>1. CASE Insert
        BY <1>0, <2>1, InsertIsAddRow DEF Log!LogNext
    <2>2. CASE FlushSync
        <3>1. /\ inserted' = inserted /\ numRows' = numRows /\ dpc' = dpc
              /\ snapshot' = snapshot /\ ~Syncing /\ Syncing' /\ ~Closed
            BY <2>2
            DEF FlushSync, storeVars, readVars, downVars, Syncing, Closed
        <3>2. SubSeq(store, 1, numRows)' = SubSeq(store, 1, numRows)
            BY <3>1 DEF ShownRows
        <3>3. Sizes' = Sizes /\ buffer' = buffer
            BY <2>2, BatchesFrame, SizesFrame DEF FlushSync, ringVars, flushVars
        <3>4. Log!SyncCall
            BY <3>1, <3>2, <3>3 DEF Log!SyncCall, Syncing, Closed, Sizes
        <3> QED
            BY <3>4 DEF Log!LogNext
    <2>3. CASE SyncReturn
        BY <2>3, SyncReturnsShown DEF Log!LogNext
    <2>4. CASE PushBatch
        BY <1>0, <2>4, PushIsCut DEF Log!LogNext
    <2>5. CASE ~(Insert \/ FlushSync \/ SyncReturn \/ PushBatch)
        <3>1. /\ UNCHANGED <<inserted, numRows, snapshot, buffer>>
              /\ Syncing' <=> Syncing
              /\ Closed' <=> Closed
            BY <1>0, <1>1, <2>5
            DEF Producer, PushFull, HandOff, Announce, SyncPass,
                SyncNotify, SyncLock, SyncCheckFails, SyncPark, Syncing, Closed,
                prodVars, storeVars, readVars, downVars, Control, ProducerPlace,
                Types, ProducerTypes
        <3>2. HandedOff' = HandedOff
            BY <1>1, <2>5, BatchesFrame
            DEF Producer, PushFull, HandOff, Announce, SyncPass, SyncNotify,
                SyncLock, SyncCheckFails, SyncPark, ringVars, flushVars
        <3> QED
            BY <3>1, <3>2, NotSeen
    <2> QED
        BY <2>1, <2>2, <2>3, <2>4, <2>5
<1>2. CASE Flusher
    <2>1. CASE FlushPublish
        BY <1>0, <2>1, PublishIsShow DEF Log!LogNext
    <2>2. CASE ~FlushPublish
        <3>1. /\ UNCHANGED <<inserted, numRows, snapshot, buffer>>
              /\ Syncing' <=> Syncing
              /\ Closed' <=> Closed
            BY <1>2, <2>2
            DEF Flusher, FlushPop, FlushPopEmpty, FlushLock, FlushAppend,
                FlushCount, FlushTally, FlushPass, FlushAnnounce, FlushGoOn,
                FlushStop, FlushWaitLock, FlushWaitOver, FlushWaitOn, FlushPark,
                Syncing, Closed, prodVars, storeVars, readVars, downVars
        <3>2. CASE FlushPop
            BY <1>0, <3>1, <3>2, PopKeepsBatches, NotSeen
        <3>3. CASE ~FlushPop
            <4>1. HandedOff' = HandedOff
                BY <1>2, <2>2, <3>3
                DEF Flusher, FlushPopEmpty, FlushLock, FlushAppend, FlushCount,
                    FlushTally, FlushPass, FlushAnnounce, FlushGoOn, FlushStop,
                    FlushWaitLock, FlushWaitOver, FlushWaitOn, FlushPark,
                    ringVars, HandedOff
            <4> QED
                BY <3>1, <4>1, NotSeen
        <3> QED
            BY <3>2, <3>3
    <2> QED
        BY <2>1, <2>2
<1>3. ASSUME NEW r \in Readers, Reader(r)
      PROVE  [Log!LogNext]_(Log!logVars)
    <2>1. CASE Poll(r)
        <3>1. /\ UNCHANGED <<inserted, numRows, snapshot, buffer>>
              /\ Syncing' <=> Syncing
              /\ Closed' <=> Closed
            BY <2>1 DEF Poll, Syncing, Closed, prodVars, storeVars, downVars
        <3>2. HandedOff' = HandedOff
            BY <2>1, BatchesFrame DEF Poll, ringVars, flushVars
        <3> QED
            BY <3>1, <3>2, NotSeen
    <2>2. CASE QueryLock(r)
        BY <1>0, <2>2, LockIsQuery DEF Log!LogNext
    <2>3. CASE QueryUnlock(r)
        <3>1. /\ inserted' = inserted /\ numRows' = numRows /\ call' = call
              /\ ppc' = ppc /\ dpc' = dpc /\ snapshot' = [snapshot EXCEPT ![r] = 0]
            BY <2>3 DEF QueryUnlock, prodVars, storeVars, downVars
        <3>2. SubSeq(store, 1, numRows)' = SubSeq(store, 1, numRows)
            BY <3>1 DEF ShownRows
        <3>3. Sizes' = Sizes /\ buffer' = buffer
            BY <2>3, BatchesFrame, SizesFrame
            DEF QueryUnlock, prodVars, ringVars, flushVars
        <3>4. Log!QueryEnds(r)
            BY <3>1, <3>2, <3>3 DEF Log!QueryEnds, Sizes
        <3> QED
            BY <3>4 DEF Log!LogNext
    <2> QED
        BY <1>3, <2>1, <2>2, <2>3 DEF Reader
<1>4. CASE Destroyer
    <2>1. CASE JoinAndApply
        BY <1>0, <2>1, JoinIsClose DEF Log!LogNext
    <2>2. CASE ~JoinAndApply
        <3>1. /\ UNCHANGED <<inserted, numRows, snapshot, buffer>>
              /\ Syncing' <=> Syncing
              /\ Closed' <=> Closed
            BY <1>4, <2>2
            DEF Destroyer, RequestStop, StopCallbacks, DestroyPass,
                DestroyAnnounce, Syncing, Closed, prodVars, storeVars, readVars
        <3>2. HandedOff' = HandedOff
            BY <1>4, <2>2, BatchesFrame
            DEF Destroyer, RequestStop, StopCallbacks, DestroyPass,
                DestroyAnnounce, ringVars, flushVars
        <3> QED
            BY <3>1, <3>2, NotSeen
    <2> QED
        BY <2>1, <2>2
<1>5. CASE SpuriousWake \/ Visibility \/ UNCHANGED vars
    <2>1. /\ UNCHANGED <<inserted, numRows, snapshot, buffer>>
          /\ Syncing' <=> Syncing
          /\ Closed' <=> Closed
        BY <1>5 DEF SpuriousWake, Visibility, vars, Syncing, Closed, prodVars,
                    storeVars, readVars, downVars
    <2>2. HandedOff' = HandedOff
        BY <1>5, BatchesFrame
        DEF SpuriousWake, Visibility, TailSeen, HeadSeen, vars, ringVars, flushVars
    <2> QED
        BY <2>1, <2>2, NotSeen
<1> QED
    BY <1>1, <1>2, <1>3, <1>4, <1>5 DEF Next, Gone

(* The table is the log it promises to be: rows become visible in order    *)
(* and in whole batches and stay visible, flush_sync() returns once all    *)
(* are, and destruction shows what was still buffered (memtable.hpp:47-117,*)
(* memtable.cpp:12-79).                                                    *)
THEOREM Refinement == Spec => IsIngestLog
<1>1. RowsInv => Control
    BY DEF RowsInv
<1>2. Spec => []BufferFits
    BY <1>1, RowsInvariance, InitFits, NextFits, PTL DEF Spec
<1> QED
    BY <1>2, InitIsLogInit, RowsInvShows, RowsInvariance, NextIsLogNext, PTL
    DEF Spec, IsIngestLog, Log!LogSpec
=============================================================================
