------------------------------ MODULE SpscRing ------------------------------
(***************************************************************************)
(* SpscRing<T> of include/strata/memtable.hpp: the lock-free ring that     *)
(* carries row batches from the inserting thread to the flush thread.      *)
(*                                                                         *)
(* push() and pop() are split at their atomic operations.  A non-atomic    *)
(* access to a slot is a step of its own between the load that permits it  *)
(* and the store that publishes it, so that two accesses to one slot can   *)
(* be seen to overlap.  An acquire load returns a value that may be stale: *)
(* headSeen is what the producer's load of head_ returns, tailSeen what    *)
(* the consumer's load of tail_ returns, and both catch up one store at a  *)
(* time.  Each thread reads its own index exactly (the relaxed loads).     *)
(***************************************************************************)
EXTENDS Naturals, Sequences

CONSTANTS
    RequestedCapacity,  \* the constructor's argument
    Values,             \* what can be pushed
    Moved               \* content of a slot that was moved from

ASSUME RingAssumption ==
    /\ RequestedCapacity \in Nat
    /\ Moved \notin Values

VARIABLES
    buf,        \* buf_: slot index -> value
    head, tail, \* head_ and tail_: the consumer's and the producer's index
    headSeen,   \* the head_ that push() loads
    tailSeen,   \* the tail_ that pop() and empty() load
    ppc, item,  \* producer: where it is inside push(), its argument
    pushed,     \* what the last push() returned
    cpc, out,   \* consumer: where it is inside pop(), its out parameter
    popped      \* what the last pop() returned

prodVars == <<ppc, item, pushed>>
consVars == <<cpc, out, popped>>
vars == <<buf, head, tail, headSeen, tailSeen, ppc, item, pushed,
          cpc, out, popped>>

-----------------------------------------------------------------------------

(* buf_(capacity ? capacity : 2), cap_(buf_.size())                        *)
Cap == IF RequestedCapacity = 0 THEN 2 ELSE RequestedCapacity
Slots == 0 .. Cap - 1

MutantInc(i) == IF i = Cap THEN 0 ELSE i + 1

Inc(i) == IF i + 1 = Cap THEN 0 ELSE i + 1

(* How many times inc() takes index a to index b.                          *)
Ahead(a, b) == IF a <= b THEN b - a ELSE b + Cap - a

Init ==
    /\ buf = [s \in Slots |-> Moved]
    /\ head = 0 /\ tail = 0
    /\ headSeen = 0 /\ tailSeen = 0
    /\ ppc = "idle" /\ item = Moved /\ pushed = TRUE
    /\ cpc = "idle" /\ out = Moved /\ popped = FALSE

-----------------------------------------------------------------------------
(* The producer's side: push().                                            *)

MutantFull == tail = headSeen

Full == Inc(tail) = headSeen

MutantPushAccept(v) ==
    /\ ppc = "idle"
    /\ ppc' = "write" /\ item' = v
    /\ UNCHANGED <<buf, head, tail, headSeen, tailSeen, pushed, consVars>>

(* The full test passed: the slot at tail_ is going to be written.         *)
PushAccept(v) ==
    /\ ppc = "idle"
    /\ ~Full
    /\ ppc' = "write" /\ item' = v
    /\ UNCHANGED <<buf, head, tail, headSeen, tailSeen, pushed, consVars>>

(* The full test failed: push() returns false and v is not moved from.     *)
PushRefuse ==
    /\ ppc = "idle"
    /\ Full
    /\ pushed' = FALSE
    /\ UNCHANGED <<buf, head, tail, headSeen, tailSeen, ppc, item, consVars>>

MutantPushWrite ==
    /\ ppc = "write"
    /\ buf' = [buf EXCEPT ![Inc(tail)] = item]
    /\ ppc' = "publish" /\ item' = Moved
    /\ UNCHANGED <<head, tail, headSeen, tailSeen, pushed, consVars>>

(* buf_[t] = std::move(v)                                                  *)
PushWrite ==
    /\ ppc = "write"
    /\ buf' = [buf EXCEPT ![tail] = item]
    /\ ppc' = "publish" /\ item' = Moved
    /\ UNCHANGED <<head, tail, headSeen, tailSeen, pushed, consVars>>

(* tail_.store(next, release); return true                                 *)
PushPublish ==
    /\ ppc = "publish"
    /\ tail' = Inc(tail)
    /\ ppc' = "idle" /\ pushed' = TRUE
    /\ UNCHANGED <<buf, head, headSeen, tailSeen, item, consVars>>

-----------------------------------------------------------------------------
(* The consumer's side: pop().                                             *)

LazyPopAccept ==
    /\ cpc = "idle"
    /\ Ahead(head, tailSeen) > 1
    /\ cpc' = "take"
    /\ UNCHANGED <<buf, head, tail, headSeen, tailSeen, out, popped, prodVars>>

MutantPopAccept ==
    /\ cpc = "idle"
    /\ cpc' = "take"
    /\ UNCHANGED <<buf, head, tail, headSeen, tailSeen, out, popped, prodVars>>

(* The empty test passed: the slot at head_ is going to be read.           *)
PopAccept ==
    /\ cpc = "idle"
    /\ head # tailSeen
    /\ cpc' = "take"
    /\ UNCHANGED <<buf, head, tail, headSeen, tailSeen, out, popped, prodVars>>

(* The empty test failed: pop() returns false and leaves out alone.        *)
PopRefuse ==
    /\ cpc = "idle"
    /\ head = tailSeen
    /\ popped' = FALSE
    /\ UNCHANGED <<buf, head, tail, headSeen, tailSeen, cpc, out, prodVars>>

(* out = std::move(buf_[h])                                                *)
PopTake ==
    /\ cpc = "take"
    /\ out' = buf[head]
    /\ buf' = [buf EXCEPT ![head] = Moved]
    /\ cpc' = "release"
    /\ UNCHANGED <<head, tail, headSeen, tailSeen, popped, prodVars>>

MutantPopRelease ==
    /\ cpc = "release"
    /\ head' = tailSeen
    /\ cpc' = "idle" /\ popped' = TRUE
    /\ UNCHANGED <<buf, tail, headSeen, tailSeen, out, prodVars>>

(* head_.store(inc(h), release); return true                               *)
PopRelease ==
    /\ cpc = "release"
    /\ head' = Inc(head)
    /\ cpc' = "idle" /\ popped' = TRUE
    /\ UNCHANGED <<buf, tail, headSeen, tailSeen, out, prodVars>>

-----------------------------------------------------------------------------
(* The memory system: a release store becomes visible to an acquire load.  *)

SeeHead ==
    /\ headSeen # head
    /\ headSeen' = Inc(headSeen)
    /\ UNCHANGED <<buf, head, tail, tailSeen, prodVars, consVars>>

SeeTail ==
    /\ tailSeen # tail
    /\ tailSeen' = Inc(tailSeen)
    /\ UNCHANGED <<buf, head, tail, headSeen, prodVars, consVars>>

-----------------------------------------------------------------------------

Consumer == PopAccept \/ PopRefuse \/ PopTake \/ PopRelease

Next ==
    \/ \E v \in Values : PushAccept(v)
    \/ PushRefuse
    \/ PushWrite
    \/ PushPublish
    \/ Consumer
    \/ SeeHead
    \/ SeeTail

Spec == Init /\ [][Next]_vars

(* The flush thread calls pop() again and again, a store becomes visible   *)
(* in finite time, and a push() that was begun is finished.                *)
FairSpec ==
    /\ Spec
    /\ WF_vars(PopAccept) /\ WF_vars(PopTake) /\ WF_vars(PopRelease)
    /\ WF_vars(PushWrite) /\ WF_vars(PushPublish)
    /\ WF_vars(SeeHead) /\ WF_vars(SeeTail)

-----------------------------------------------------------------------------
(* Properties.                                                             *)

TypeOK ==
    /\ buf \in [Slots -> Values \cup {Moved}]
    /\ head \in Slots /\ tail \in Slots
    /\ headSeen \in Slots /\ tailSeen \in Slots
    /\ ppc \in {"idle", "write", "publish"}
    /\ item \in Values \cup {Moved}
    /\ pushed \in BOOLEAN
    /\ cpc \in {"idle", "take", "release"}
    /\ out \in Values \cup {Moved}
    /\ popped \in BOOLEAN

(* The four indices keep their cyclic order: going round the ring from     *)
(* headSeen one meets head, then tailSeen, then tail, and never comes back *)
(* to headSeen.  Both threads decide on stale copies (memtable.hpp:38 and  *)
(* :46); this is why a stale copy can only make them refuse too early.     *)
RingOrder ==
    Ahead(headSeen, head) + Ahead(head, tailSeen) + Ahead(tailSeen, tail) < Cap

(* Slot s is one of those that inc() meets going from a up to b.           *)
Between(a, s, b) == Ahead(a, s) < Ahead(a, b)

(* buf_ is not atomic, so each access must be ordered after the other      *)
(* thread's last access to the slot.  The producer writes a slot only      *)
(* after SEEING the head_ store that released it, the consumer reads one   *)
(* only after SEEING the tail_ store that published it, and the two are    *)
(* never in one slot at once.                                              *)
NoDataRace ==
    /\ ppc \in {"write", "publish"} => ~Between(headSeen, tail, head)
    /\ cpc \in {"take", "release"} => Between(head, head, tailSeen)
    /\ ppc # "idle" /\ cpc # "idle" => tail # head

(* A slot the consumer may come to read holds a batch, never the empty     *)
(* vector a move left behind; the one exception is the slot pop() is about *)
(* to release.                                                             *)
NoEmptyBatch ==
    \A s \in Slots :
        Between(head, s, tail) =>
            \/ buf[s] \in Values
            \/ s = head /\ cpc = "release"

(* The ring as the two threads use it is a bounded FIFO of one element     *)
(* less than its slots (refinement of BatchQueue).  The batch that pop()   *)
(* has moved out but not released still counts.                            *)
Slot(k) == IF head + k < Cap THEN head + k ELSE head + k - Cap

Contents ==
    [k \in 1 .. Ahead(head, tail) |->
        IF k = 1 /\ cpc = "release" THEN out ELSE buf[Slot(k - 1)]]

Queue == INSTANCE BatchQueue WITH
            Limit <- Cap - 1,
            q <- Contents,
            visible <- Ahead(head, tailSeen),
            owed <- Ahead(headSeen, head)

IsBatchQueue == Queue!QSpec

(* Every batch that was published is popped: head_ never rests at a slot   *)
(* that tail_ has passed.                                                  *)
Delivered == \A s \in Slots : (head = s /\ tail # s) ~> (head # s)

(* A full ring is full for a moment only (memtable.cpp:55, "If the ring is *)
(* momentarily full"): a consumer that keeps calling pop() makes room that *)
(* the producer sees.                                                      *)
FullIsMomentary == Full ~> ~Full
=============================================================================
