----------------------------- MODULE BatchQueue -----------------------------
(***************************************************************************)
(* What SpscRing<RowBatch> (include/strata/memtable.hpp) promises to the   *)
(* two threads that share it: a bounded FIFO between one producer and one  *)
(* consumer, each of which may lag behind the other's last atomic store.   *)
(*                                                                         *)
(* The lag is the acquire load: tail_.load(acquire) in pop() and empty()   *)
(* returns SOME value of tail_ that is not older than the last one the     *)
(* consumer saw, and likewise head_ in push().  An action that makes one   *)
(* more store visible stands for that freedom.                             *)
(***************************************************************************)
EXTENDS Naturals, Sequences

CONSTANTS
    Limit,      \* batches the ring can hold: one less than its slot count
    Values      \* what can be pushed

VARIABLES
    q,          \* pushed and not yet popped, oldest first
    visible,    \* how many elements of q the consumer's loads show
    owed        \* pops the producer's loads do not show yet

queueVars == <<q, visible, owed>>

QInit ==
    /\ q = <<>>
    /\ visible = 0
    /\ owed = 0

MutantHasRoom == Len(q) + owed <= Limit

(* push() compares the next tail with the head_ it can see: slots whose    *)
(* release it has not seen count as taken.                                 *)
HasRoom == Len(q) + owed < Limit

(* push() returning true: the batch is moved in and tail_ is stored.       *)
Push(v) ==
    /\ HasRoom
    /\ q' = Append(q, v)
    /\ UNCHANGED <<visible, owed>>

(* empty() as the consumer evaluates it.                                   *)
SeesEmpty == visible = 0

MutantPop ==
    /\ q # <<>>
    /\ q' = Tail(q)
    /\ visible' = visible - 1
    /\ owed' = owed + 1

(* pop() returning true: the oldest batch leaves and head_ is stored.      *)
Pop ==
    /\ ~SeesEmpty
    /\ q' = Tail(q)
    /\ visible' = visible - 1
    /\ owed' = owed + 1

(* One more store of tail_ becomes visible to the consumer.                *)
TailSeen ==
    /\ visible < Len(q)
    /\ visible' = visible + 1
    /\ UNCHANGED <<q, owed>>

(* One more store of head_ becomes visible to the producer.                *)
HeadSeen ==
    /\ owed > 0
    /\ owed' = owed - 1
    /\ UNCHANGED <<q, visible>>

QNext ==
    \/ \E v \in Values : Push(v)
    \/ Pop
    \/ TailSeen
    \/ HeadSeen

QSpec == QInit /\ [][QNext]_queueVars

-----------------------------------------------------------------------------

(* Type invariant of the abstract queue.                                   *)
QTypeOK ==
    /\ q \in Seq(Values)
    /\ visible \in Nat
    /\ owed \in Nat

(* The queue never holds more than its limit, even counting the slots      *)
(* whose release the producer has not seen, and the consumer never sees    *)
(* more than there is.                                                     *)
QBounded ==
    /\ Len(q) + owed <= Limit
    /\ visible <= Len(q)
=============================================================================
