----------------------------- MODULE IngestLog ------------------------------
(***************************************************************************)
(* What StreamingTable (include/strata/memtable.hpp) promises its callers, *)
(* without buffer, queue, flush thread or locks: an append-only log of     *)
(* rows, cut into batches, and the part of it that queries see.  Rows      *)
(* become visible in the order of insertion, one whole batch at a time,    *)
(* and stay visible; flush_sync() returns once all are; a query sees one   *)
(* state of the store; destruction loses nothing.                          *)
(***************************************************************************)
EXTENDS Naturals, Sequences

CONSTANTS
    Readers,    \* threads that call query()
    Most        \* rows of a full batch

VARIABLES
    log,        \* the rows inserted so far; the n-th row is the number n
    open,       \* how many of them are in no batch yet
    waiting,    \* the sizes of the batches not visible yet, oldest first
    shown,      \* the rows a query sees
    seen,       \* reader -> number of rows its query runs over, 0 without one
    syncing,    \* a call of flush_sync() is under way
    closed      \* the table is destroyed

logVars == <<log, open, waiting, shown, seen, syncing, closed>>

LogInit ==
    /\ log = <<>> /\ open = 0 /\ waiting = <<>> /\ shown = <<>>
    /\ seen = [r \in Readers |-> 0]
    /\ syncing = FALSE /\ closed = FALSE

(* insert(), which takes no row before a full batch is cut off.            *)
AddRow ==
    /\ ~syncing /\ ~closed
    /\ open < Most
    /\ log' = Append(log, Len(log) + 1)
    /\ open' = open + 1
    /\ UNCHANGED <<waiting, shown, seen, syncing, closed>>

(* The rows since the last cut become a batch: a full one, or what there   *)
(* is when flush_sync() asks for it.                                       *)
Cut ==
    /\ ~closed
    /\ open = Most \/ (syncing /\ open > 0)
    /\ waiting' = Append(waiting, open)
    /\ open' = 0
    /\ UNCHANGED <<log, shown, seen, syncing, closed>>

(* A flush makes the oldest batch visible, all its rows at once.           *)
Show ==
    /\ ~closed
    /\ waiting # <<>>
    /\ shown' = SubSeq(log, 1, Len(shown) + Head(waiting))
    /\ waiting' = Tail(waiting)
    /\ UNCHANGED <<log, open, seen, syncing, closed>>

SyncCall ==
    /\ ~syncing /\ ~closed
    /\ syncing' = TRUE
    /\ UNCHANGED <<log, open, waiting, shown, seen, closed>>

SyncReturn ==
    /\ syncing
    /\ shown = log
    /\ syncing' = FALSE
    /\ UNCHANGED <<log, open, waiting, shown, seen, closed>>

Query(r) ==
    /\ ~closed
    /\ seen' = [seen EXCEPT ![r] = Len(shown)]
    /\ UNCHANGED <<log, open, waiting, shown, syncing, closed>>

QueryEnds(r) ==
    /\ seen' = [seen EXCEPT ![r] = 0]
    /\ UNCHANGED <<log, open, waiting, shown, syncing, closed>>

(* ~StreamingTable(): whatever is left becomes visible.                    *)
Close ==
    /\ ~syncing /\ ~closed
    /\ shown' = log
    /\ open' = 0 /\ waiting' = <<>>
    /\ closed' = TRUE
    /\ UNCHANGED <<log, seen, syncing>>

LogNext ==
    \/ AddRow
    \/ Cut
    \/ Show
    \/ SyncCall
    \/ SyncReturn
    \/ \E r \in Readers : Query(r) \/ QueryEnds(r)
    \/ Close

LogSpec == LogInit /\ [][LogNext]_logVars
=============================================================================
