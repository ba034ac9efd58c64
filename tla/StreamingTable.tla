--------------------------- MODULE StreamingTable ---------------------------
(***************************************************************************)
(* StreamingTable of include/strata/memtable.hpp and src/memtable.cpp: one *)
(* inserting thread (the producer), the flush thread, threads that query,  *)
(* and the thread that destroys the table.                                 *)
(*                                                                         *)
(* A step is what one thread does between two operations another thread    *)
(* can observe: an atomic, a lock, a notify, one row appended to the       *)
(* columns.  The ring between producer and flush thread is the abstract    *)
(* BatchQueue, which SpscRing implements; its stale loads are TailSeen and *)
(* HeadSeen.  A mutex orders more than the ring does: a thread that locks  *)
(* wake_mu_ sees whatever the other thread did before its last unlock, and *)
(* that is all the wake-up protocol relies on.                             *)
(*                                                                         *)
(* Rows are numbered in the order of insertion; what a row is parsed into  *)
(* is not modelled.                                                        *)
(***************************************************************************)
EXTENDS Naturals, Sequences, FiniteSets

CONSTANTS
    FlushThreshold,     \* constructor argument
    QueueCapacity,      \* constructor argument
    Readers,            \* threads that call visible_rows() and query()
    MaxRows             \* bound: rows inserted in a behaviour

ASSUME StreamingAssumption ==
    /\ FlushThreshold \in Nat
    /\ QueueCapacity \in Nat
    /\ MaxRows \in Nat

VARIABLES
    \* the producer
    ppc,        \* where it is
    call,       \* the member function it is or was last in
    buffer,     \* buffer_
    inserted,   \* rows_inserted_
    \* the queue
    q, visible, owed,
    \* the flush thread
    fpc,
    batch,      \* the batch it popped
    todo,       \* the rows of batch not yet appended
    flushed,    \* rows_flushed_
    batches,    \* batches_flushed_
    \* the columnar store and table_mu_
    store,      \* rows appended to the columns
    numRows,    \* table_.num_rows()
    writer,     \* the flush thread holds table_mu_ exclusively
    \* wake_mu_ and wake_cv_
    wakeMu,     \* "free" or the thread holding it
    waiters,    \* threads blocked in wake_cv_.wait
    covered,    \* how much of q was pushed before the last unlock of wake_mu_
                \* by the producer or the destroying thread
    flushedSafe,\* flushed at the flush thread's last unlock of wake_mu_
    \* the readers
    rpc,        \* reader -> where it is
    lastVisible,\* reader -> what visible_rows() returned before its query
    snapshot,   \* reader -> rows its query runs over; both 0 between queries
    \* destruction
    stop,       \* the stop token's flag
    dpc

Seqs == INSTANCE SequencesExt

INSTANCE BatchQueue WITH
    Limit <- (IF QueueCapacity = 0 THEN 2 ELSE QueueCapacity) - 1,
    Values <- Seq(Nat)

prodVars == <<ppc, call, buffer, inserted>>
ringVars == <<q, visible, owed>>
flushVars == <<fpc, batch, todo, flushed, batches>>
storeVars == <<store, numRows, writer>>
wakeVars == <<wakeMu, waiters, covered, flushedSafe>>
readVars == <<rpc, lastVisible, snapshot>>
downVars == <<stop, dpc>>
vars == <<prodVars, ringVars, flushVars, storeVars, wakeVars, readVars,
          downVars>>

-----------------------------------------------------------------------------

(* threshold_(flush_threshold ? flush_threshold : 1)                       *)
Threshold == IF FlushThreshold = 0 THEN 1 ELSE FlushThreshold

Bigger(m, n) == IF m > n THEN m ELSE n

Init ==
    /\ ppc = "idle" /\ call = "none" /\ buffer = <<>> /\ inserted = 0
    /\ QInit
    /\ fpc = "pop" /\ batch = <<>> /\ todo = <<>> /\ flushed = 0 /\ batches = 0
    /\ store = <<>> /\ numRows = 0 /\ writer = FALSE
    /\ wakeMu = "free" /\ waiters = {} /\ covered = 0 /\ flushedSafe = 0
    /\ rpc = [r \in Readers |-> "idle"]
    /\ lastVisible = [r \in Readers |-> 0]
    /\ snapshot = [r \in Readers |-> 0]
    /\ stop = FALSE /\ dpc = "alive"

(* wake_cv_.notify_all(): every waiter goes on to lock wake_mu_ again.     *)
NotifyAll == waiters' = {}

(* { std::lock_guard lk(wake_mu_); } by a thread that pushes or has been   *)
(* handed the producer's work: what is in the queue is now ordered before  *)
(* the flush thread's next lock.                                           *)
PassWakeMu ==
    /\ wakeMu = "free"
    /\ covered' = Len(q)

(* The flush thread locks wake_mu_ and sees what was ordered before it.    *)
FlusherCatchesUp == visible' = Bigger(visible, covered)

-----------------------------------------------------------------------------
(* The producer: insert(), enqueue(), flush_sync().                        *)

Insert ==
    /\ ppc = "idle" /\ dpc = "alive"
    /\ inserted < MaxRows
    /\ call' = "insert"
    /\ inserted' = inserted + 1
    /\ buffer' = Append(buffer, inserted')
    /\ ppc' = IF Len(buffer') >= Threshold THEN "push" ELSE "idle"
    /\ UNCHANGED <<ringVars, flushVars, storeVars, wakeVars, readVars, downVars>>

FlushSync ==
    /\ ppc = "idle" /\ dpc = "alive"
    /\ call' = "flush_sync"
    /\ ppc' = IF buffer = <<>> THEN "sync" ELSE "push"
    /\ UNCHANGED <<buffer, inserted>>
    /\ UNCHANGED <<ringVars, flushVars, storeVars, wakeVars, readVars, downVars>>

(* enqueue(): push() succeeds and the buffer is moved from.                *)
PushBatch ==
    /\ ppc = "push"
    /\ Push(buffer)
    /\ buffer' = <<>>
    /\ ppc' = "handoff"
    /\ UNCHANGED <<call, inserted>>
    /\ UNCHANGED <<flushVars, storeVars, wakeVars, readVars, downVars>>

(* enqueue(): the ring looks full; nudge the consumer and yield.           *)
PushFull ==
    /\ ppc = "push"
    /\ ~HasRoom
    /\ NotifyAll
    /\ UNCHANGED <<wakeMu, covered, flushedSafe>>
    /\ UNCHANGED <<prodVars, ringVars, flushVars, storeVars, readVars, downVars>>

MutantHandOff ==
    /\ ppc = "handoff"
    /\ ppc' = "announce"
    /\ UNCHANGED <<call, buffer, inserted, wakeVars>>
    /\ UNCHANGED <<ringVars, flushVars, storeVars, readVars, downVars>>

HandOff ==
    /\ ppc = "handoff"
    /\ PassWakeMu
    /\ ppc' = "announce"
    /\ UNCHANGED <<call, buffer, inserted, wakeMu, waiters, flushedSafe>>
    /\ UNCHANGED <<ringVars, flushVars, storeVars, readVars, downVars>>

MutantAnnounce ==
    /\ ppc = "announce"
    /\ ppc' = IF call = "insert" THEN "idle" ELSE "sync"
    /\ UNCHANGED <<call, buffer, inserted, wakeVars>>
    /\ UNCHANGED <<ringVars, flushVars, storeVars, readVars, downVars>>

Announce ==
    /\ ppc = "announce"
    /\ NotifyAll
    /\ ppc' = IF call = "insert" THEN "idle" ELSE "sync"
    /\ UNCHANGED <<call, buffer, inserted, wakeMu, covered, flushedSafe>>
    /\ UNCHANGED <<ringVars, flushVars, storeVars, readVars, downVars>>

(* flush_sync() after the hand-off: lock and unlock, notify, lock.         *)
SyncPass ==
    /\ ppc = "sync"
    /\ PassWakeMu
    /\ ppc' = "syncNotify"
    /\ UNCHANGED <<call, buffer, inserted, wakeMu, waiters, flushedSafe>>
    /\ UNCHANGED <<ringVars, flushVars, storeVars, readVars, downVars>>

SyncNotify ==
    /\ ppc = "syncNotify"
    /\ NotifyAll
    /\ ppc' = "syncLock"
    /\ UNCHANGED <<call, buffer, inserted, wakeMu, covered, flushedSafe>>
    /\ UNCHANGED <<ringVars, flushVars, storeVars, readVars, downVars>>

(* Locks wake_mu_, the first time or after being woken.                    *)
SyncLock ==
    /\ ppc = "syncLock"
    /\ "producer" \notin waiters
    /\ wakeMu = "free"
    /\ wakeMu' = "producer"
    /\ ppc' = "syncCheck"
    /\ UNCHANGED <<call, buffer, inserted, waiters, covered, flushedSafe>>
    /\ UNCHANGED <<ringVars, flushVars, storeVars, readVars, downVars>>

MutantSyncReturn ==
    /\ ppc = "syncCheck"
    /\ q = <<>>
    /\ wakeMu' = "free"
    /\ covered' = Len(q)
    /\ ppc' = "idle"
    /\ UNCHANGED <<call, buffer, inserted, waiters, flushedSafe>>
    /\ UNCHANGED <<ringVars, flushVars, storeVars, readVars, downVars>>

(* The predicate: rows_flushed_ == rows_inserted_.  The load of            *)
(* rows_flushed_ is at least as new as the flush thread's last unlock.     *)
SyncReturn ==
    /\ ppc = "syncCheck"
    /\ \E f \in flushedSafe .. flushed : f = inserted
    /\ wakeMu' = "free"
    /\ covered' = Len(q)
    /\ ppc' = "idle"
    /\ UNCHANGED <<call, buffer, inserted, waiters, flushedSafe>>
    /\ UNCHANGED <<ringVars, flushVars, storeVars, readVars, downVars>>

SyncCheckFails ==
    /\ ppc = "syncCheck"
    /\ \E f \in flushedSafe .. flushed : f # inserted
    /\ ppc' = "syncPark"
    /\ UNCHANGED <<call, buffer, inserted>>
    /\ UNCHANGED <<ringVars, flushVars, storeVars, wakeVars, readVars, downVars>>

(* Blocks and unlocks wake_mu_ in one step, as a condition variable does.  *)
SyncPark ==
    /\ ppc = "syncPark"
    /\ waiters' = waiters \cup {"producer"}
    /\ wakeMu' = "free"
    /\ covered' = Len(q)
    /\ ppc' = "syncLock"
    /\ UNCHANGED <<call, buffer, inserted, flushedSafe>>
    /\ UNCHANGED <<ringVars, flushVars, storeVars, readVars, downVars>>

Producer ==
    \/ Insert \/ FlushSync
    \/ PushBatch \/ PushFull \/ HandOff \/ Announce
    \/ SyncPass \/ SyncNotify \/ SyncLock
    \/ SyncReturn \/ SyncCheckFails \/ SyncPark

-----------------------------------------------------------------------------
(* The flush thread: flush_loop(), apply_batch().                          *)

FlushPop ==
    /\ fpc = "pop"
    /\ Pop
    /\ covered' = IF covered = 0 THEN 0 ELSE covered - 1
    /\ batch' = Head(q) /\ todo' = Head(q)
    /\ fpc' = "lock"
    /\ UNCHANGED <<flushed, batches, wakeMu, waiters, flushedSafe>>
    /\ UNCHANGED <<prodVars, storeVars, readVars, downVars>>

FlushPopEmpty ==
    /\ fpc = "pop"
    /\ SeesEmpty
    /\ fpc' = "stopcheck"
    /\ UNCHANGED <<batch, todo, flushed, batches>>
    /\ UNCHANGED <<prodVars, ringVars, storeVars, wakeVars, readVars, downVars>>

MutantFlushLock ==
    /\ fpc = "lock"
    /\ ~writer
    /\ writer' = TRUE
    /\ fpc' = "append"
    /\ UNCHANGED <<batch, todo, flushed, batches, store, numRows>>
    /\ UNCHANGED <<prodVars, ringVars, wakeVars, readVars, downVars>>

(* apply_batch(): std::unique_lock lk(table_mu_)                           *)
FlushLock ==
    /\ fpc = "lock"
    /\ ~writer /\ \A r \in Readers : rpc[r] # "scan"
    /\ writer' = TRUE
    /\ fpc' = "append"
    /\ UNCHANGED <<batch, todo, flushed, batches, store, numRows>>
    /\ UNCHANGED <<prodVars, ringVars, wakeVars, readVars, downVars>>

(* apply_batch(): one row goes to the columns.                             *)
FlushAppend ==
    /\ fpc = "append"
    /\ todo # <<>>
    /\ store' = Append(store, Head(todo))
    /\ todo' = Tail(todo)
    /\ UNCHANGED <<fpc, batch, flushed, batches, numRows, writer>>
    /\ UNCHANGED <<prodVars, ringVars, wakeVars, readVars, downVars>>

MutantFlushPublish ==
    /\ fpc = "append"
    /\ todo = <<>>
    /\ numRows' = numRows + 1
    /\ writer' = FALSE
    /\ fpc' = "count"
    /\ UNCHANGED <<batch, todo, flushed, batches, store>>
    /\ UNCHANGED <<prodVars, ringVars, wakeVars, readVars, downVars>>

(* apply_batch(): set_num_rows, then the lock is released.                 *)
FlushPublish ==
    /\ fpc = "append"
    /\ todo = <<>>
    /\ numRows' = numRows + Len(batch)
    /\ writer' = FALSE
    /\ fpc' = "count"
    /\ UNCHANGED <<batch, todo, flushed, batches, store>>
    /\ UNCHANGED <<prodVars, ringVars, wakeVars, readVars, downVars>>

FlushCount ==
    /\ fpc = "count"
    /\ flushed' = flushed + Len(batch)
    /\ fpc' = "tally"
    /\ UNCHANGED <<batch, todo, batches>>
    /\ UNCHANGED <<prodVars, ringVars, storeVars, wakeVars, readVars, downVars>>

(* batches_flushed_.fetch_add, batch.clear()                               *)
FlushTally ==
    /\ fpc = "tally"
    /\ batches' = batches + 1
    /\ batch' = <<>>
    /\ fpc' = "pass"
    /\ UNCHANGED <<todo, flushed>>
    /\ UNCHANGED <<prodVars, ringVars, storeVars, wakeVars, readVars, downVars>>

FlushPass ==
    /\ fpc = "pass"
    /\ wakeMu = "free"
    /\ FlusherCatchesUp
    /\ flushedSafe' = flushed
    /\ fpc' = "announce"
    /\ UNCHANGED <<q, owed, batch, todo, flushed, batches, wakeMu, waiters, covered>>
    /\ UNCHANGED <<prodVars, storeVars, readVars, downVars>>

MutantFlushAnnounce ==
    /\ fpc = "announce"
    /\ fpc' = "pop"
    /\ UNCHANGED <<batch, todo, flushed, batches>>
    /\ UNCHANGED <<prodVars, ringVars, storeVars, wakeVars, readVars, downVars>>

FlushAnnounce ==
    /\ fpc = "announce"
    /\ NotifyAll
    /\ fpc' = "pop"
    /\ UNCHANGED <<batch, todo, flushed, batches, wakeMu, covered, flushedSafe>>
    /\ UNCHANGED <<prodVars, ringVars, storeVars, readVars, downVars>>

(* st.stop_requested() is false.                                           *)
FlushGoOn ==
    /\ fpc = "stopcheck"
    /\ ~stop
    /\ fpc' = "waitlock"
    /\ UNCHANGED <<batch, todo, flushed, batches>>
    /\ UNCHANGED <<prodVars, ringVars, storeVars, wakeVars, readVars, downVars>>

MutantFlushStop ==
    /\ fpc = "stopcheck"
    /\ stop
    /\ visible' = Len(q)
    /\ fpc' = "done"
    /\ UNCHANGED <<q, owed, batch, todo, flushed, batches>>
    /\ UNCHANGED <<prodVars, storeVars, wakeVars, readVars, downVars>>

(* st.stop_requested() is true, which orders every push before it:         *)
(* queue_.empty() is then exact.                                           *)
FlushStop ==
    /\ fpc = "stopcheck"
    /\ stop
    /\ visible' = Len(q)
    /\ fpc' = IF q = <<>> THEN "done" ELSE "waitlock"
    /\ UNCHANGED <<q, owed, batch, todo, flushed, batches>>
    /\ UNCHANGED <<prodVars, storeVars, wakeVars, readVars, downVars>>

(* Locks wake_mu_, the first time or after being woken.                    *)
FlushWaitLock ==
    /\ fpc = "waitlock"
    /\ "flusher" \notin waiters
    /\ wakeMu = "free"
    /\ wakeMu' = "flusher"
    /\ FlusherCatchesUp
    /\ fpc' = "waitcheck"
    /\ UNCHANGED <<q, owed, batch, todo, flushed, batches, waiters, covered, flushedSafe>>
    /\ UNCHANGED <<prodVars, storeVars, readVars, downVars>>

(* The predicate !queue_.empty() holds: the wait returns, lk unlocks.      *)
FlushWaitOver ==
    /\ fpc = "waitcheck"
    /\ ~SeesEmpty
    /\ wakeMu' = "free"
    /\ flushedSafe' = flushed
    /\ fpc' = "pop"
    /\ UNCHANGED <<batch, todo, flushed, batches, waiters, covered>>
    /\ UNCHANGED <<prodVars, ringVars, storeVars, readVars, downVars>>

FlushWaitOn ==
    /\ fpc = "waitcheck"
    /\ SeesEmpty
    /\ fpc' = "park"
    /\ UNCHANGED <<batch, todo, flushed, batches>>
    /\ UNCHANGED <<prodVars, ringVars, storeVars, wakeVars, readVars, downVars>>

MutantFlushPark ==
    /\ fpc = "park"
    /\ wakeMu' = "free"
    /\ flushedSafe' = flushed
    /\ fpc' = "waitlock"
    /\ waiters' = waiters \cup {"flusher"}
    /\ UNCHANGED <<ringVars, batch, todo, flushed, batches, covered>>
    /\ UNCHANGED <<prodVars, storeVars, readVars, downVars>>

(* The library's wait(lk, st, pred) blocks only if no stop is requested,   *)
(* and decides that in one step with blocking.                             *)
FlushPark ==
    /\ fpc = "park"
    /\ wakeMu' = "free"
    /\ flushedSafe' = flushed
    /\ IF stop
       THEN /\ fpc' = "pop"
            /\ visible' = Len(q)
            /\ UNCHANGED waiters
       ELSE /\ fpc' = "waitlock"
            /\ waiters' = waiters \cup {"flusher"}
            /\ UNCHANGED visible
    /\ UNCHANGED <<q, owed, batch, todo, flushed, batches, covered>>
    /\ UNCHANGED <<prodVars, storeVars, readVars, downVars>>

Flusher ==
    \/ FlushPop \/ FlushPopEmpty
    \/ FlushLock \/ FlushAppend \/ FlushPublish
    \/ FlushCount \/ FlushTally \/ FlushPass \/ FlushAnnounce
    \/ FlushGoOn \/ FlushStop
    \/ FlushWaitLock \/ FlushWaitOver \/ FlushWaitOn \/ FlushPark

-----------------------------------------------------------------------------
(* Readers, as cmd_stream of apps/strata_cli.cpp runs them.                *)

(* visible_rows(): an acquire load, so perhaps not the latest value.  What *)
(* the thread read for earlier queries is forgotten, which allows it more  *)
(* than C++ does.                                                          *)
Poll(r) ==
    /\ rpc[r] = "idle" /\ dpc = "alive"
    /\ \E f \in 0 .. flushed : lastVisible' = [lastVisible EXCEPT ![r] = f]
    /\ rpc' = [rpc EXCEPT ![r] = "query"]
    /\ UNCHANGED snapshot
    /\ UNCHANGED <<prodVars, ringVars, flushVars, storeVars, wakeVars, downVars>>

MutantQueryLock(r) ==
    /\ rpc[r] = "query"
    /\ snapshot' = [snapshot EXCEPT ![r] = numRows]
    /\ rpc' = [rpc EXCEPT ![r] = "scan"]
    /\ UNCHANGED lastVisible
    /\ UNCHANGED <<prodVars, ringVars, flushVars, storeVars, wakeVars, downVars>>

(* query(): std::shared_lock lk(table_mu_), and fn starts on the table.    *)
QueryLock(r) ==
    /\ rpc[r] = "query"
    /\ ~writer
    /\ snapshot' = [snapshot EXCEPT ![r] = numRows]
    /\ rpc' = [rpc EXCEPT ![r] = "scan"]
    /\ UNCHANGED lastVisible
    /\ UNCHANGED <<prodVars, ringVars, flushVars, storeVars, wakeVars, downVars>>

(* fn returns and the lock is released.                                    *)
QueryUnlock(r) ==
    /\ rpc[r] = "scan"
    /\ rpc' = [rpc EXCEPT ![r] = "idle"]
    /\ lastVisible' = [lastVisible EXCEPT ![r] = 0]
    /\ snapshot' = [snapshot EXCEPT ![r] = 0]
    /\ UNCHANGED <<prodVars, ringVars, flushVars, storeVars, wakeVars, downVars>>

Reader(r) == Poll(r) \/ QueryLock(r) \/ QueryUnlock(r)

-----------------------------------------------------------------------------
(* ~StreamingTable(), after the last call of every other thread.           *)

RequestStop ==
    /\ dpc = "alive"
    /\ ppc = "idle" /\ \A r \in Readers : rpc[r] = "idle"
    /\ stop' = TRUE
    /\ dpc' = "callbacks"
    /\ UNCHANGED <<prodVars, ringVars, flushVars, storeVars, wakeVars, readVars>>

(* request_stop() runs the callback a waiting flush thread registered.     *)
StopCallbacks ==
    /\ dpc = "callbacks"
    /\ NotifyAll
    /\ dpc' = "pass"
    /\ UNCHANGED <<stop, wakeMu, covered, flushedSafe>>
    /\ UNCHANGED <<prodVars, ringVars, flushVars, storeVars, readVars>>

DestroyPass ==
    /\ dpc = "pass"
    /\ PassWakeMu
    /\ dpc' = "announce"
    /\ UNCHANGED <<stop, wakeMu, waiters, flushedSafe>>
    /\ UNCHANGED <<prodVars, ringVars, flushVars, storeVars, readVars>>

DestroyAnnounce ==
    /\ dpc = "announce"
    /\ NotifyAll
    /\ dpc' = "join"
    /\ UNCHANGED <<stop, wakeMu, covered, flushedSafe>>
    /\ UNCHANGED <<prodVars, ringVars, flushVars, storeVars, readVars>>

MutantLeftover == Seqs!FlattenSeq(q)

(* flusher_.join(), then what is buffered is applied on this thread, and   *)
(* after it whatever is left in the queue.                                 *)
Leftover == IF q = <<>> THEN buffer ELSE buffer \o Seqs!FlattenSeq(q)

JoinAndApply ==
    /\ dpc = "join"
    /\ fpc = "done"
    /\ store' = store \o Leftover
    /\ numRows' = numRows + Len(Leftover)
    /\ flushed' = flushed + Len(Leftover)
    /\ buffer' = <<>>
    /\ q' = <<>> /\ visible' = 0 /\ owed' = owed + Len(q)
    /\ covered' = 0
    /\ dpc' = "gone"
    /\ UNCHANGED <<ppc, call, inserted, fpc, batch, todo, batches, writer>>
    /\ UNCHANGED <<wakeMu, waiters, flushedSafe, readVars, stop>>

Destroyer ==
    RequestStop \/ StopCallbacks \/ DestroyPass \/ DestroyAnnounce \/ JoinAndApply

(* The table is gone; nothing is left to do.                               *)
Gone == dpc = "gone" /\ UNCHANGED vars

-----------------------------------------------------------------------------
(* The rest of the machine.                                                *)

(* A wait may return without a notify.                                     *)
SpuriousWake ==
    /\ \E t \in waiters : waiters' = waiters \ {t}
    /\ UNCHANGED <<wakeMu, covered, flushedSafe>>
    /\ UNCHANGED <<prodVars, ringVars, flushVars, storeVars, readVars, downVars>>

(* A store to an index of the ring becomes visible to the other thread.    *)
Visibility ==
    /\ TailSeen \/ HeadSeen
    /\ UNCHANGED <<prodVars, flushVars, storeVars, wakeVars, readVars, downVars>>

Next ==
    \/ Producer
    \/ Flusher
    \/ \E r \in Readers : Reader(r)
    \/ Destroyer
    \/ Gone
    \/ SpuriousWake
    \/ Visibility

Spec == Init /\ [][Next]_vars

(* Every thread that can take a step eventually does, and a call that was  *)
(* begun is carried on; nobody has to insert, flush, query or destroy.  A  *)
(* thread waiting for a mutex that is free again and again gets it.        *)
FairSpec ==
    /\ Spec
    /\ WF_vars(Producer /\ ppc # "idle") /\ SF_vars(HandOff)
    /\ SF_vars(SyncPass) /\ SF_vars(SyncLock)
    /\ WF_vars(Flusher) /\ SF_vars(FlushLock) /\ SF_vars(FlushPass)
    /\ SF_vars(FlushWaitLock)
    /\ \A r \in Readers : WF_vars(QueryLock(r) \/ QueryUnlock(r))
    /\ WF_vars(Destroyer /\ dpc # "alive") /\ SF_vars(DestroyPass)
    /\ WF_vars(TailSeen /\ Visibility) /\ WF_vars(HeadSeen /\ Visibility)

-----------------------------------------------------------------------------
(* Properties.                                                             *)

Rows == 1 .. MaxRows

TypeOK ==
    /\ ppc \in {"idle", "push", "handoff", "announce", "sync", "syncNotify",
                "syncLock", "syncCheck", "syncPark"}
    /\ call \in {"none", "insert", "flush_sync"}
    /\ buffer \in Seq(Rows) /\ inserted \in 0 .. MaxRows
    /\ QTypeOK
    /\ fpc \in {"pop", "lock", "append", "count", "tally", "pass", "announce",
                "stopcheck", "waitlock", "waitcheck", "park", "done"}
    /\ batch \in Seq(Rows) /\ todo \in Seq(Rows)
    /\ flushed \in Nat /\ batches \in Nat
    /\ store \in Seq(Rows) /\ numRows \in Nat /\ writer \in BOOLEAN
    /\ wakeMu \in {"free", "producer", "flusher"}
    /\ waiters \subseteq {"producer", "flusher"}
    /\ covered \in Nat /\ flushedSafe \in Nat
    /\ rpc \in [Readers -> {"idle", "query", "scan"}]
    /\ lastVisible \in [Readers -> Nat] /\ snapshot \in [Readers -> Nat]
    /\ stop \in BOOLEAN
    /\ dpc \in {"alive", "callbacks", "pass", "announce", "join", "gone"}

(* Every inserted row is in exactly one place, and the places in the order *)
(* store, batch being applied, queue, buffer hold the rows in the order of *)
(* insertion: no retry of push(), no hand-off and no shutdown loses,       *)
(* duplicates or reorders one.                                             *)
NothingLost ==
    store \o todo \o Seqs!FlattenSeq(q) \o buffer = [i \in 1 .. inserted |-> i]

(* The row counters never run ahead of what they count: visible_rows()     *)
(* promises no row a query started later would not see (memtable.hpp:85).  *)
CountersFollow ==
    /\ flushedSafe <= flushed
    /\ flushed <= numRows
    /\ numRows <= Len(store)
    /\ \A r \in Readers : rpc[r] = "scan" => snapshot[r] >= lastVisible[r]

(* A query runs on whole batches: while one holds table_mu_ shared, every  *)
(* column has num_rows() entries and no flush is half done.                *)
QueriesSeeWholeBatches ==
    (\E r \in Readers : rpc[r] = "scan") => ~writer /\ numRows = Len(store)

(* The store does not change under a running query (memtable.hpp:91, "safe *)
(* to query concurrently with ingest").                                    *)
StableUnderQuery ==
    [][(\E r \in Readers : rpc[r] = "scan") => UNCHANGED <<store, numRows>>]_vars

(* flush_sync() returns only when everything inserted is visible to a      *)
(* query (memtable.hpp:82), whatever stale count it read.                  *)
SyncMeansVisible ==
    [][call = "flush_sync" /\ ppc # "idle" /\ ppc' = "idle" =>
            numRows = inserted /\ store = [i \in 1 .. inserted |-> i]]_vars

(* No lost wake-up.  wake_cv_ has one waiting flush thread, one waiting    *)
(* flush_sync() and predicates over atomics that change without the lock;  *)
(* a thread is never asleep with its predicate true unless another one is  *)
(* on its way to notify_all.                                               *)
NoLostWakeup ==
    /\ "flusher" \in waiters /\ q # <<>> => ppc \in {"handoff", "announce"}
    /\ "flusher" \in waiters /\ stop => dpc = "callbacks"
    /\ "producer" \in waiters /\ flushed = inserted =>
            fpc \in {"tally", "pass", "announce"}

(* The batches handed off and not visible yet: the one the flush thread    *)
(* has in hand, then the queue.                                            *)
HandedOff == (IF fpc \in {"lock", "append"} THEN <<batch>> ELSE <<>>) \o q

(* The table is the log it promises to be (refinement of IngestLog): rows  *)
(* become visible in order and a batch at a time, and flush_sync() and the *)
(* destructor leave none behind.                                           *)
Log == INSTANCE IngestLog WITH
            Most <- Threshold,
            log <- [i \in 1 .. inserted |-> i],
            open <- Len(buffer),
            waiting <- [i \in DOMAIN HandedOff |-> Len(HandedOff[i])],
            shown <- SubSeq(store, 1, numRows),
            seen <- snapshot,
            syncing <- call = "flush_sync" /\ ppc # "idle",
            closed <- dpc = "gone"

IsIngestLog == Log!LogSpec

(* A call of insert() or flush_sync() returns: a full ring drains, and a   *)
(* sleeping flush_sync() is woken.                                         *)
CallsReturn == ppc # "idle" ~> ppc = "idle"

(* Destruction ends: the flush thread notices the stop request wherever it *)
(* is and its join is not waited for in vain.                              *)
DestructionEnds == stop ~> dpc = "gone"

(* The flush thread is prompt: a batch handed off becomes visible even if  *)
(* nothing more is inserted and nobody flushes.                            *)
HandedOffIsShown ==
    \A n \in Rows :
        (inserted - Len(buffer) >= n /\ ppc # "push") ~> (numRows >= n)
=============================================================================
