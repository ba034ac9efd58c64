--------------------------- MODULE SpscRingProofs ---------------------------
(***************************************************************************)
(* Proofs about SpscRing, for every capacity and every set of batches: its *)
(* safety properties, and that it implements BatchQueue, which is what     *)
(* StreamingTable relies on when it takes the ring for a bounded FIFO.     *)
(***************************************************************************)
EXTENDS SpscRing, SequenceTheorems, TLAPS

-----------------------------------------------------------------------------
(* Arithmetic of the ring: Inc is a step, Ahead a distance.                *)

LEMMA CapType == Cap \in Nat /\ Cap >= 1 /\ Slots = 0 .. Cap - 1
BY RingAssumption DEF Cap, Slots

LEMMA IncType == \A i \in Slots : Inc(i) \in Slots
BY CapType DEF Inc

LEMMA AheadType ==
    \A a, b \in Slots :
        /\ Ahead(a, b) \in Nat
        /\ Ahead(a, b) <= Cap - 1
        /\ Ahead(a, b) = 0 <=> a = b
BY CapType DEF Ahead

(* The ring is as full as it gets when one more step closes the circle.    *)
LEMMA AheadFull ==
    \A a, b \in Slots : Inc(b) = a <=> Ahead(a, b) = Cap - 1
BY CapType DEF Ahead, Inc

(* Moving the far end one slot on makes the distance one longer, unless    *)
(* that closes the circle.                                                 *)
LEMMA AheadIncRight ==
    \A a, b, c \in Slots :
        c = Inc(b) /\ c # a => Ahead(a, c) = Ahead(a, b) + 1
BY CapType DEF Ahead, Inc

(* Moving the near end one slot on makes it one shorter.                   *)
LEMMA AheadIncLeft ==
    \A a, b, c \in Slots :
        c = Inc(a) /\ a # b => Ahead(c, b) = Ahead(a, b) - 1
BY CapType DEF Ahead, Inc

(* Distances that do not go round the ring add up.                         *)
LEMMA AheadAdd ==
    \A a, b, c \in Slots :
        Ahead(a, b) + Ahead(b, c) < Cap => Ahead(a, c) = Ahead(a, b) + Ahead(b, c)
BY CapType DEF Ahead

-----------------------------------------------------------------------------
(* The inductive invariant.  To RingOrder it adds what each thread knows   *)
(* between its test and its store: the test still holds, because the other *)
(* thread only ever moves the seen index away from it, and the slot or the *)
(* local it is about to hand over holds a batch.                           *)

ProducerOwns ==
    /\ ppc # "idle" => Inc(tail) # headSeen
    /\ ppc = "write" => item \in Values
    /\ ppc = "publish" => buf[tail] \in Values

ConsumerOwns ==
    /\ cpc # "idle" => head # tailSeen
    /\ cpc = "release" => out \in Values

IInv ==
    /\ TypeOK
    /\ RingOrder
    /\ ProducerOwns
    /\ ConsumerOwns
    /\ NoEmptyBatch

LEMMA InitInv == Init => IInv
<1> SUFFICES ASSUME Init PROVE IInv
    OBVIOUS
<1>1. 0 \in Slots
    BY CapType
<1>2. Ahead(0, 0) = 0
    BY DEF Ahead
<1>3. TypeOK
    BY <1>1 DEF Init, TypeOK
<1>4. RingOrder
    BY <1>2, CapType DEF Init, RingOrder
<1>5. ProducerOwns /\ ConsumerOwns
    BY DEF Init, ProducerOwns, ConsumerOwns
<1>6. NoEmptyBatch
    BY <1>1, <1>2, AheadType DEF Init, NoEmptyBatch, Between
<1> QED
    BY <1>3, <1>4, <1>5, <1>6 DEF IInv

(* What the lemmas say of the indices of one state.                        *)
Distance(a, b) ==
    /\ Ahead(a, b) \in Nat
    /\ Ahead(a, b) <= Cap - 1
    /\ Ahead(a, b) = 0 <=> a = b

LEMMA Distances ==
    ASSUME TypeOK
    PROVE  /\ Distance(headSeen, head) /\ Distance(head, tailSeen)
           /\ Distance(tailSeen, tail) /\ Distance(head, tail)
           /\ Distance(headSeen, tail)
BY AheadType DEF Distance, TypeOK

(* The order of the four indices at once: the distance from one to a later *)
(* one is the sum of the distances between.                                *)
LEMMA IndexOrder ==
    ASSUME TypeOK, RingOrder
    PROVE  /\ Ahead(head, tail) = Ahead(head, tailSeen) + Ahead(tailSeen, tail)
           /\ Ahead(headSeen, tail) = Ahead(headSeen, head) + Ahead(head, tail)
<1>1. Ahead(head, tail) = Ahead(head, tailSeen) + Ahead(tailSeen, tail)
    BY Distances, AheadAdd, CapType DEF TypeOK, RingOrder, Distance
<1>2. Ahead(headSeen, tail) = Ahead(headSeen, head) + Ahead(head, tail)
    BY <1>1, Distances, AheadAdd, CapType DEF TypeOK, RingOrder, Distance
<1> QED
    BY <1>1, <1>2

LEMMA NextInv == IInv /\ [Next]_vars => IInv'
<1> SUFFICES ASSUME IInv, [Next]_vars PROVE IInv'
    OBVIOUS
<1> USE DEF IInv
<1>a. /\ head \in Slots /\ tail \in Slots
      /\ headSeen \in Slots /\ tailSeen \in Slots
    BY DEF TypeOK
<1>0. /\ Inc(head) \in Slots /\ Inc(tail) \in Slots
      /\ Inc(headSeen) \in Slots /\ Inc(tailSeen) \in Slots
    BY <1>a, IncType
<1>1. ASSUME NEW v \in Values, PushAccept(v) PROVE IInv'
    <2>1. TypeOK'
        BY <1>1 DEF PushAccept, TypeOK, consVars
    <2>2. RingOrder' /\ NoEmptyBatch'
        BY <1>1 DEF PushAccept, RingOrder, NoEmptyBatch, Between, consVars, Ahead, Cap, Slots
    <2>3. ProducerOwns' /\ ConsumerOwns'
        BY <1>1 DEF PushAccept, Full, ProducerOwns, ConsumerOwns, consVars, Inc, Cap
    <2> QED
        BY <2>1, <2>2, <2>3
<1>2. CASE PushRefuse
    BY <1>2 DEF PushRefuse, TypeOK, RingOrder, NoEmptyBatch, Between, ProducerOwns,
                ConsumerOwns, consVars, Ahead, Inc
<1>3. CASE PushWrite
    <2>1. TypeOK'
        BY <1>3 DEF PushWrite, TypeOK, ProducerOwns, consVars
    <2>2. RingOrder'
        BY <1>3 DEF PushWrite, RingOrder, consVars, Ahead
    <2>3. ProducerOwns' /\ ConsumerOwns'
        BY <1>3 DEF PushWrite, TypeOK, ProducerOwns, ConsumerOwns, consVars, Inc
    <2>4. ~Between(head, tail, tail)
        BY <1>a, AheadType, CapType DEF Between
    <2>5. NoEmptyBatch'
        BY <1>3, <2>4 DEF PushWrite, TypeOK, NoEmptyBatch, Between, consVars, Ahead
    <2> QED
        BY <2>1, <2>2, <2>3, <2>5
<1>4. CASE PushPublish
    <2>1. TypeOK'
        BY <1>0, <1>4 DEF PushPublish, TypeOK, consVars
    <2>2. Inc(tail) # headSeen
        BY <1>4 DEF PushPublish, ProducerOwns
    <2>3. Ahead(headSeen, tail) < Cap - 1
        <3>1. Ahead(headSeen, tail) # Cap - 1
            BY <1>a, <2>2, AheadFull
        <3> QED
            BY <3>1, Distances, CapType DEF Distance
    <2>4. /\ Ahead(head, tail) < Cap - 1
          /\ Ahead(tailSeen, tail) < Cap - 1
        BY <2>3, IndexOrder, Distances, CapType DEF Distance
    <2>5. /\ Ahead(tailSeen, Inc(tail)) = Ahead(tailSeen, tail) + 1
          /\ Ahead(head, Inc(tail)) = Ahead(head, tail) + 1
        BY <1>a, <1>0, <2>4, AheadFull, AheadIncRight, CapType
    <2>6. RingOrder'
        <3>1. Ahead(headSeen, head) + Ahead(head, tailSeen)
                + Ahead(tailSeen, Inc(tail)) < Cap
            BY <2>3, <2>5, IndexOrder, Distances, CapType DEF Distance
        <3> QED
            BY <1>4, <3>1 DEF PushPublish, RingOrder, consVars, Ahead
    <2>7. ProducerOwns' /\ ConsumerOwns'
        BY <1>4 DEF PushPublish, ProducerOwns, ConsumerOwns, consVars, Inc
    <2>8. NoEmptyBatch'
        <3> SUFFICES ASSUME NEW s \in Slots, Ahead(head, s) < Ahead(head, Inc(tail))
                     PROVE  buf[s] \in Values \/ (s = head /\ cpc = "release")
            BY <1>4 DEF PushPublish, NoEmptyBatch, Between, consVars, Ahead
        <3>1. CASE s = tail
            BY <1>4, <3>1 DEF PushPublish, ProducerOwns
        <3>2. CASE s # tail
            <4>1. Ahead(head, s) # Ahead(head, tail)
                BY <1>a, <3>2, CapType DEF Ahead
            <4>2. Ahead(head, s) < Ahead(head, tail)
                <5>1. Distance(head, s)
                    BY <1>a, AheadType DEF Distance
                <5> QED
                    BY <2>5, <4>1, <5>1, Distances DEF Distance
            <4> QED
                BY <4>2 DEF NoEmptyBatch, Between
        <3> QED
            BY <3>1, <3>2
    <2> QED
        BY <2>1, <2>6, <2>7, <2>8
<1>5. CASE PopAccept
    BY <1>5 DEF PopAccept, TypeOK, RingOrder, NoEmptyBatch, Between, ProducerOwns,
                ConsumerOwns, prodVars, Ahead, Inc
<1>6. CASE PopRefuse
    BY <1>6 DEF PopRefuse, TypeOK, RingOrder, NoEmptyBatch, Between, ProducerOwns,
                ConsumerOwns, prodVars, Ahead, Inc
<1>7. CASE PopTake
    <2>1. head # tailSeen
        BY <1>7 DEF PopTake, ConsumerOwns
    <2>2. head # tail /\ Ahead(head, head) < Ahead(head, tail)
        <3>1. Ahead(head, head) = 0
            BY <1>a, AheadType
        <3> QED
            BY <2>1, <3>1, IndexOrder, Distances DEF Distance
    <2>3. buf[head] \in Values
        BY <1>7, <2>2 DEF PopTake, NoEmptyBatch, Between, TypeOK
    <2>4. TypeOK'
        BY <1>7, <2>3 DEF PopTake, TypeOK, prodVars
    <2>5. RingOrder'
        BY <1>7 DEF PopTake, RingOrder, prodVars, Ahead
    <2>6. ProducerOwns' /\ ConsumerOwns'
        BY <1>7, <2>1, <2>2, <2>3 DEF PopTake, TypeOK, ProducerOwns, ConsumerOwns,
                                      prodVars, Inc
    <2>7. NoEmptyBatch'
        BY <1>7 DEF PopTake, TypeOK, NoEmptyBatch, Between, prodVars, Ahead
    <2> QED
        BY <2>4, <2>5, <2>6, <2>7
<1>8. CASE PopRelease
    <2>1. TypeOK'
        BY <1>0, <1>8 DEF PopRelease, TypeOK, prodVars
    <2>2. head # tailSeen /\ head # tail
        BY <1>8, IndexOrder, Distances DEF PopRelease, ConsumerOwns, Distance
    <2>3. /\ Ahead(Inc(head), tailSeen) = Ahead(head, tailSeen) - 1
          /\ Ahead(Inc(head), tail) = Ahead(head, tail) - 1
        BY <1>a, <2>2, <1>0, AheadIncLeft
    <2>4. Ahead(headSeen, head) < Cap - 1
        BY <2>2, IndexOrder, Distances, CapType DEF Distance, RingOrder
    <2>5. Ahead(headSeen, Inc(head)) = Ahead(headSeen, head) + 1
        BY <1>a, <1>0, <2>4, AheadFull, AheadIncRight, CapType
    <2>6. RingOrder'
        <3>1. Ahead(headSeen, Inc(head)) + Ahead(Inc(head), tailSeen)
                + Ahead(tailSeen, tail) < Cap
            BY <2>3, <2>5, IndexOrder, Distances, CapType DEF RingOrder, Distance
        <3> QED
            BY <1>8, <3>1 DEF PopRelease, RingOrder, prodVars, Ahead
    <2>7. ProducerOwns' /\ ConsumerOwns'
        BY <1>8 DEF PopRelease, ProducerOwns, ConsumerOwns, prodVars, Inc
    <2>8. NoEmptyBatch'
        <3> SUFFICES ASSUME NEW s \in Slots, Ahead(Inc(head), s) < Ahead(Inc(head), tail)
                     PROVE  buf[s] \in Values
            BY <1>8 DEF PopRelease, NoEmptyBatch, Between, prodVars, Ahead
        <3>1. s # head
            BY <1>a, <2>2, CapType DEF Ahead, Inc
        <3>2. Ahead(Inc(head), s) = Ahead(head, s) - 1
            BY <1>a, <3>1, <1>0, AheadIncLeft
        <3>3. Ahead(head, s) < Ahead(head, tail)
            <4>1. Distance(head, s)
                BY <1>a, AheadType DEF Distance
            <4> QED
                BY <2>3, <3>2, <4>1, Distances DEF Distance
        <3> QED
            BY <3>1, <3>3 DEF NoEmptyBatch, Between
    <2> QED
        BY <2>1, <2>6, <2>7, <2>8
<1>9. CASE SeeHead
    <2>1. TypeOK'
        BY <1>0, <1>9 DEF SeeHead, TypeOK, prodVars, consVars
    <2>2. Ahead(Inc(headSeen), head) = Ahead(headSeen, head) - 1
        BY <1>a, <1>9, <1>0, AheadIncLeft DEF SeeHead
    <2>3. RingOrder'
        <3>1. Ahead(Inc(headSeen), head) + Ahead(head, tailSeen)
                + Ahead(tailSeen, tail) < Cap
            BY <2>2, IndexOrder, Distances, CapType DEF RingOrder, Distance
        <3> QED
            BY <1>9, <3>1 DEF SeeHead, RingOrder, prodVars, consVars, Ahead
    <2>4. Inc(tail) # Inc(headSeen)
        <3>1. headSeen # tail
            BY <1>9, IndexOrder, Distances DEF SeeHead, Distance
        <3> QED
            BY <1>a, <3>1, CapType DEF Inc
    <2>5. ProducerOwns' /\ ConsumerOwns'
        BY <1>9, <2>4 DEF SeeHead, ProducerOwns, ConsumerOwns, prodVars, consVars, Inc
    <2>6. NoEmptyBatch'
        BY <1>9 DEF SeeHead, NoEmptyBatch, Between, prodVars, consVars, Ahead
    <2> QED
        BY <2>1, <2>3, <2>5, <2>6
<1>10. CASE SeeTail
    <2>1. TypeOK'
        BY <1>0, <1>10 DEF SeeTail, TypeOK, prodVars, consVars
    <2>2. Ahead(Inc(tailSeen), tail) = Ahead(tailSeen, tail) - 1
        BY <1>a, <1>10, <1>0, AheadIncLeft DEF SeeTail
    <2>3. Ahead(head, tailSeen) < Cap - 1
        BY <1>10, Distances, CapType DEF SeeTail, RingOrder, Distance
    <2>4. Ahead(head, Inc(tailSeen)) = Ahead(head, tailSeen) + 1
        BY <1>a, <1>0, <2>3, AheadFull, AheadIncRight, CapType
    <2>5. RingOrder'
        <3>1. Ahead(headSeen, head) + Ahead(head, Inc(tailSeen))
                + Ahead(Inc(tailSeen), tail) < Cap
            BY <2>2, <2>4, IndexOrder, Distances, CapType DEF RingOrder, Distance
        <3> QED
            BY <1>10, <3>1 DEF SeeTail, RingOrder, prodVars, consVars, Ahead
    <2>6. head # Inc(tailSeen)
        BY <1>a, <1>0, <2>4, Distances, AheadType DEF Distance
    <2>7. ProducerOwns' /\ ConsumerOwns'
        BY <1>10, <2>6 DEF SeeTail, ProducerOwns, ConsumerOwns, prodVars, consVars, Inc
    <2>8. NoEmptyBatch'
        BY <1>10 DEF SeeTail, NoEmptyBatch, Between, prodVars, consVars, Ahead
    <2> QED
        BY <2>1, <2>5, <2>7, <2>8
<1>11. CASE UNCHANGED vars
    BY <1>11 DEF vars, TypeOK, RingOrder, NoEmptyBatch, Between, ProducerOwns,
                 ConsumerOwns, Ahead, Inc
<1> QED
    BY <1>1, <1>2, <1>3, <1>4, <1>5, <1>6, <1>7, <1>8, <1>9, <1>10, <1>11
    DEF Next, Consumer

(* In every behaviour the invariant holds.                                 *)
THEOREM Invariance == Spec => []IInv
BY InitInv, NextInv, PTL DEF Spec

-----------------------------------------------------------------------------

(* The state of push() and pop() stays in range, in particular both        *)
(* indices inside buf_ (memtable.hpp:57).                                  *)
THEOREM TypeCorrect == Spec => []TypeOK
<1>1. IInv => TypeOK
    BY DEF IInv
<1> QED
    BY <1>1, Invariance, PTL

(* However stale the copies the two threads decide on, the four indices    *)
(* keep their order round the ring (memtable.hpp:38 and :46).              *)
THEOREM OrderKept == Spec => []RingOrder
<1>1. IInv => RingOrder
    BY DEF IInv
<1> QED
    BY <1>1, Invariance, PTL

(* The unsynchronised accesses to buf_ never race (memtable.hpp:39, :47).  *)
THEOREM RaceFree == Spec => []NoDataRace
<1>1. IInv => NoDataRace
    <2> SUFFICES ASSUME IInv PROVE NoDataRace
        OBVIOUS
    <2> USE DEF IInv
    <2>a. /\ head \in Slots /\ tail \in Slots
          /\ headSeen \in Slots /\ tailSeen \in Slots
        BY DEF TypeOK
    <2>1. ASSUME ppc \in {"write", "publish"}
          PROVE  ~Between(headSeen, tail, head)
        BY IndexOrder, Distances DEF Between, Distance
    <2>2. ASSUME cpc \in {"take", "release"}
          PROVE  Between(head, head, tailSeen) /\ tail # head
        <3>1. head # tailSeen
            BY <2>2 DEF ConsumerOwns
        <3> QED
            <4>1. Ahead(head, head) = 0
                BY <2>a, AheadType
            <4> QED
                BY <3>1, <4>1, IndexOrder, Distances DEF Between, Distance
    <2> QED
        BY <2>1, <2>2 DEF NoDataRace, TypeOK
<1> QED
    BY <1>1, Invariance, PTL

(* pop() never hands out the empty vector a move left in a slot.           *)
THEOREM NothingEmptyPopped == Spec => []NoEmptyBatch
<1>1. IInv => NoEmptyBatch
    BY DEF IInv
<1> QED
    BY <1>1, Invariance, PTL

-----------------------------------------------------------------------------
(* The refinement of BatchQueue.                                           *)

(* Slot(k) is k steps from head, and the only such slot.                   *)

LEMMA SlotDistance ==
    ASSUME TypeOK
    PROVE  /\ Slot(0) = head
           /\ \A k \in 0 .. Cap - 1 : Slot(k) \in Slots /\ Ahead(head, Slot(k)) = k
           /\ Slot(Ahead(head, tail)) = tail
BY CapType DEF TypeOK, Slot, Ahead

(* A slot short of the distance to tail is neither tail's nor, past the    *)
(* first, head's.                                                          *)
LEMMA SlotApart ==
    ASSUME TypeOK, NEW k \in Nat, k < Ahead(head, tail)
    PROVE  /\ Slot(k) \in Slots
           /\ Between(head, Slot(k), tail)
           /\ Slot(k) # tail
           /\ Slot(k) = head <=> k = 0
<1>1. k \in 0 .. Cap - 1
    BY Distances, CapType DEF Distance
<1>2. Slot(k) \in Slots /\ Ahead(head, Slot(k)) = k
    BY <1>1, SlotDistance
<1>3. Slot(k) # tail
    BY <1>2, Distances DEF Distance
<1>4. Slot(k) = head <=> k = 0
    BY <1>2, AheadType, SlotDistance DEF TypeOK
<1> QED
    BY <1>2, <1>3, <1>4 DEF Between

LEMMA FunctionIsSeq ==
    ASSUME NEW S, NEW n \in Nat, NEW f \in [1 .. n -> S]
    PROVE  f \in Seq(S) /\ Len(f) = n
<1>1. f \in Seq(S)
    BY SeqDef
<1> QED
    BY <1>1, LenProperties

(* Dropping the head of a sequence shifts its elements by one. *)
LEMMA TailElements ==
    ASSUME NEW S, NEW s \in Seq(S), NEW n \in Nat, Len(s) = n, s # <<>>
    PROVE  Tail(s) = [k \in 1 .. n - 1 |-> s[k + 1]]
<1>1. /\ Tail(s) \in Seq(S)
      /\ Len(Tail(s)) = n - 1
      /\ \A k \in 1 .. Len(Tail(s)) : Tail(s)[k] = s[k + 1]
    BY HeadTailProperties
<1>2. Tail(s) \in [1 .. n - 1 -> S]
    BY <1>1, LenProperties
<1> QED
    BY <1>1, <1>2

(* The contents are batches, as many as there are slots from head to tail. *)
LEMMA ContentsSeq ==
    ASSUME IInv
    PROVE  /\ Contents \in [1 .. Ahead(head, tail) -> Values]
           /\ Contents \in Seq(Values)
           /\ Len(Contents) = Ahead(head, tail)
<1> USE DEF IInv
<1>1. Ahead(head, tail) \in Nat
    BY Distances DEF Distance
<1>2. ASSUME NEW k \in 1 .. Ahead(head, tail)
      PROVE  (IF k = 1 /\ cpc = "release" THEN out ELSE buf[Slot(k - 1)]) \in Values
    <2>1. CASE k = 1 /\ cpc = "release"
        BY <2>1 DEF ConsumerOwns
    <2>2. CASE ~(k = 1 /\ cpc = "release")
        <3>1. k - 1 \in Nat /\ k - 1 < Ahead(head, tail)
            BY <1>1
        <3>2. /\ Slot(k - 1) \in Slots
              /\ Between(head, Slot(k - 1), tail)
              /\ Slot(k - 1) = head => k = 1
            BY <3>1, SlotApart
        <3> QED
            BY <2>2, <3>2 DEF NoEmptyBatch
    <2> QED
        BY <2>1, <2>2
<1>3. Contents \in [1 .. Ahead(head, tail) -> Values]
    BY <1>2 DEF Contents
<1> QED
    BY <1>1, <1>3, FunctionIsSeq

-----------------------------------------------------------------------------

LEMMA InitRefines == Init => Queue!QInit
<1> SUFFICES ASSUME Init PROVE Queue!QInit
    OBVIOUS
<1>1. Ahead(0, 0) = 0
    BY DEF Ahead
<1>2. Contents = <<>>
    BY <1>1 DEF Init, Contents
<1> QED
    BY <1>1, <1>2 DEF Init, Queue!QInit

(* A step that leaves the slots between head and tail, and the indices     *)
(* themselves, as they are is not seen at all.                             *)
LEMMA Unseen ==
    ASSUME IInv,
           UNCHANGED <<head, tail, headSeen, tailSeen>>,
           \A k \in 1 .. Ahead(head, tail) :
                (IF k = 1 /\ cpc' = "release" THEN out' ELSE buf'[Slot(k - 1)])
                    = (IF k = 1 /\ cpc = "release" THEN out ELSE buf[Slot(k - 1)])
    PROVE  UNCHANGED Queue!queueVars
<1>1. Contents' = Contents
    BY DEF Contents, Slot, Ahead
<1> QED
    BY <1>1 DEF Queue!queueVars, Ahead

LEMMA NextRefines == IInv /\ [Next]_vars => [Queue!QNext]_(Queue!queueVars)
<1> SUFFICES ASSUME IInv, [Next]_vars PROVE [Queue!QNext]_(Queue!queueVars)
    OBVIOUS
<1>i. TypeOK
    BY DEF IInv
<1>d. Ahead(head, tail) \in Nat
    BY <1>i, Distances DEF Distance
<1>1. ASSUME NEW v \in Values, PushAccept(v) PROVE UNCHANGED Queue!queueVars
    BY <1>1, Unseen DEF PushAccept, consVars
<1>2. CASE PushRefuse
    BY <1>2, Unseen DEF PushRefuse, consVars
<1>3. CASE PushWrite
    <2>1. ASSUME NEW k \in 1 .. Ahead(head, tail)
          PROVE  buf'[Slot(k - 1)] = buf[Slot(k - 1)]
        <3>1. Slot(k - 1) # tail
            BY <1>i, <1>d, SlotApart
        <3> QED
            BY <1>3, <3>1, <1>i DEF PushWrite, TypeOK
    <2> QED
        BY <1>3, <2>1, Unseen DEF PushWrite, consVars
<1>4. CASE PushPublish
    <2>v. buf[tail] \in Values
        BY <1>4 DEF PushPublish, ProducerOwns, IInv
    <2>1. Inc(tail) # headSeen
        BY <1>4 DEF PushPublish, ProducerOwns, IInv
    <2>2. Ahead(headSeen, tail) < Cap - 1
        <3>1. Ahead(headSeen, tail) # Cap - 1
            BY <1>i, <2>1, AheadFull DEF TypeOK
        <3> QED
            BY <1>i, <3>1, Distances, CapType DEF Distance
    <2>3. Len(Contents) + Ahead(headSeen, head) < Cap - 1
        BY <1>i, <2>2, ContentsSeq, IndexOrder, Distances, CapType DEF Distance, IInv
    <2>4. Ahead(head, Inc(tail)) = Ahead(head, tail) + 1
        <3>1. Ahead(head, tail) # Cap - 1
            BY <1>i, <2>2, IndexOrder, Distances, CapType DEF Distance, IInv
        <3>2. Inc(tail) # head
            BY <1>i, <3>1, AheadFull DEF TypeOK
        <3> QED
            BY <1>i, <3>2, IncType, AheadIncRight DEF TypeOK
    <2>5. Contents' = Append(Contents, buf[tail])
        <3> DEFINE d == Ahead(head, tail)
        <3>1. Contents' = [k \in 1 .. d + 1 |->
                            IF k = 1 /\ cpc = "release" THEN out ELSE buf[Slot(k - 1)]]
            BY <1>4, <2>4 DEF PushPublish, consVars, Contents, Slot, Ahead
        <3>2. Append(Contents, buf[tail]) =
                    [k \in 1 .. d + 1 |-> IF k = d + 1 THEN buf[tail] ELSE Contents[k]]
            BY ContentsSeq, <2>v
        <3>3. ASSUME NEW k \in 1 .. d + 1
              PROVE  (IF k = 1 /\ cpc = "release" THEN out ELSE buf[Slot(k - 1)])
                        = (IF k = d + 1 THEN buf[tail] ELSE Contents[k])
            <4>1. CASE k = d + 1
                <5>1. Slot(k - 1) = tail
                    BY <1>i, <1>d, <4>1, SlotDistance
                <5>2. ~(k = 1 /\ cpc = "release")
                    BY <1>i, <1>d, <4>1, IndexOrder, Distances
                    DEF Distance, ConsumerOwns, IInv, TypeOK
                <5> QED
                    BY <4>1, <5>1, <5>2
            <4>2. CASE k # d + 1
                BY <1>d, <4>2 DEF Contents
            <4> QED
                BY <4>1, <4>2
        <3> HIDE DEF d
        <3> QED
            BY <3>1, <3>2, <3>3
    <2>6. /\ Ahead(head, tailSeen)' = Ahead(head, tailSeen)
          /\ Ahead(headSeen, head)' = Ahead(headSeen, head)
        BY <1>4 DEF PushPublish, consVars, Ahead
    <2>7. Queue!Push(buf[tail])
        BY <2>3, <2>5, <2>6 DEF Queue!Push, Queue!HasRoom
    <2> QED
        BY <2>v, <2>7 DEF Queue!QNext
<1>5. CASE PopAccept
    BY <1>5, Unseen DEF PopAccept, prodVars
<1>6. CASE PopRefuse
    BY <1>6, Unseen DEF PopRefuse, prodVars
<1>7. CASE PopTake
    <2>1. ASSUME NEW k \in 1 .. Ahead(head, tail)
          PROVE  (IF k = 1 THEN out' ELSE buf'[Slot(k - 1)]) = buf[Slot(k - 1)]
        <3>1. CASE k = 1
            BY <1>7, <1>i, <3>1, SlotDistance DEF PopTake
        <3>2. CASE k # 1
            <4>1. Slot(k - 1) # head
                BY <1>i, <1>d, <3>2, SlotApart
            <4> QED
                BY <1>7, <1>i, <3>2, <4>1 DEF PopTake, TypeOK
        <3> QED
            BY <3>1, <3>2
    <2> QED
        BY <1>7, <2>1, Unseen DEF PopTake, prodVars
<1>8. CASE PopRelease
    <2>1. head # tailSeen /\ head # tail
        BY <1>8, <1>i, IndexOrder, Distances DEF PopRelease, ConsumerOwns, Distance, IInv
    <2>2. /\ Ahead(Inc(head), tailSeen) = Ahead(head, tailSeen) - 1
          /\ Ahead(Inc(head), tail) = Ahead(head, tail) - 1
        BY <1>i, <2>1, IncType, AheadIncLeft DEF TypeOK
    <2>3. Ahead(headSeen, Inc(head)) = Ahead(headSeen, head) + 1
        <3>1. Ahead(headSeen, head) # Cap - 1
            BY <1>i, <2>1, IndexOrder, Distances, CapType DEF Distance, RingOrder, IInv
        <3>2. Inc(head) # headSeen
            BY <1>i, <3>1, AheadFull DEF TypeOK
        <3> QED
            BY <1>i, <3>2, IncType, AheadIncRight DEF TypeOK
    <2>4. Contents' = Tail(Contents)
        <3> DEFINE d == Ahead(head, tail)
        <3>1. Contents' = [k \in 1 .. d - 1 |-> buf[Slot(k)]]
            <4>1. Contents' = [k \in 1 .. d - 1 |-> buf[Slot(k - 1)']]
                BY <1>8, <2>2 DEF PopRelease, prodVars, Contents, Slot, Ahead
            <4>2. ASSUME NEW k \in 1 .. d - 1 PROVE Slot(k - 1)' = Slot(k)
                BY <1>8, <1>i, <1>d, CapType, Distances, <4>2
                DEF PopRelease, Slot, Inc, TypeOK, Distance
            <4> HIDE DEF d
            <4> QED
                BY <4>1, <4>2
        <3>2. Contents # <<>>
            BY <1>i, <2>1, ContentsSeq, Distances DEF Distance
        <3>3. Tail(Contents) = [k \in 1 .. d - 1 |-> Contents[k + 1]]
            BY <1>d, <3>2, ContentsSeq, TailElements
        <3>4. ASSUME NEW k \in 1 .. d - 1 PROVE Contents[k + 1] = buf[Slot(k)]
            BY <1>d DEF Contents
        <3> HIDE DEF d
        <3> QED
            BY <3>1, <3>3, <3>4
    <2>5. Ahead(head, tailSeen) # 0
        BY <1>i, <2>1, Distances DEF Distance
    <2>6. /\ Ahead(head, tailSeen)' = Ahead(head, tailSeen) - 1
          /\ Ahead(headSeen, head)' = Ahead(headSeen, head) + 1
        BY <1>8, <2>2, <2>3 DEF PopRelease, prodVars, Ahead
    <2>7. Queue!Pop
        BY <2>4, <2>5, <2>6 DEF Queue!Pop, Queue!SeesEmpty
    <2> QED
        BY <2>7 DEF Queue!QNext
<1>9. CASE SeeHead
    <2>1. Ahead(Inc(headSeen), head) = Ahead(headSeen, head) - 1
        BY <1>9, <1>i, IncType, AheadIncLeft DEF SeeHead, TypeOK
    <2>2. Ahead(headSeen, head) > 0
        BY <1>9, <1>i, Distances DEF SeeHead, Distance
    <2>3. Contents' = Contents /\ Ahead(head, tailSeen)' = Ahead(head, tailSeen)
        BY <1>9 DEF SeeHead, prodVars, consVars, Contents, Slot, Ahead
    <2>4. Ahead(headSeen, head)' = Ahead(headSeen, head) - 1
        BY <1>9, <2>1 DEF SeeHead, consVars, Ahead
    <2>5. Queue!HeadSeen
        BY <2>2, <2>3, <2>4 DEF Queue!HeadSeen
    <2> QED
        BY <2>5 DEF Queue!QNext
<1>10. CASE SeeTail
    <2>1. Ahead(tailSeen, tail) > 0
        BY <1>10, <1>i, Distances DEF SeeTail, Distance
    <2>2. Ahead(head, tailSeen) < Len(Contents)
        BY <1>i, <2>1, ContentsSeq, IndexOrder, Distances DEF Distance, IInv
    <2>3. Ahead(head, Inc(tailSeen)) = Ahead(head, tailSeen) + 1
        <3>1. Ahead(head, tailSeen) # Cap - 1
            BY <1>i, <2>1, Distances, CapType DEF Distance, RingOrder, IInv
        <3>2. Inc(tailSeen) # head
            BY <1>i, <3>1, AheadFull DEF TypeOK
        <3> QED
            BY <1>i, <3>2, IncType, AheadIncRight DEF TypeOK
    <2>4. Contents' = Contents /\ Ahead(headSeen, head)' = Ahead(headSeen, head)
        BY <1>10 DEF SeeTail, prodVars, consVars, Contents, Slot, Ahead
    <2>5. Ahead(head, tailSeen)' = Ahead(head, tailSeen) + 1
        BY <1>10, <2>3 DEF SeeTail, consVars, Ahead
    <2>6. Queue!TailSeen
        BY <2>2, <2>4, <2>5 DEF Queue!TailSeen
    <2> QED
        BY <2>6 DEF Queue!QNext
<1>11. CASE UNCHANGED vars
    BY <1>11, Unseen DEF vars
<1> QED
    BY <1>1, <1>2, <1>3, <1>4, <1>5, <1>6, <1>7, <1>8, <1>9, <1>10, <1>11
    DEF Next, Consumer

(* The ring is the bounded FIFO that BatchQueue specifies: every behaviour *)
(* of push() and pop(), with the loads as stale as C++ allows, is one of   *)
(* the abstract queue.                                                     *)
THEOREM Refinement == Spec => IsBatchQueue
BY InitRefines, NextRefines, Invariance, PTL DEF Spec, IsBatchQueue, Queue!QSpec
=============================================================================
