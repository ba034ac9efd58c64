-------------------------- MODULE ThreadPoolProofs --------------------------
(***************************************************************************)
(* Theorems about ThreadPool, for every number of workers, of callers that *)
(* share the pool and of tasks: pending_ is exact, no wake-up is lost, and *)
(* each caller gets the fork and join that ForkJoin specifies.             *)
(***************************************************************************)
EXTENDS ThreadPool, FiniteSetTheorems, SequenceTheorems, TLAPS

(* TypeOK but for pending_, whose type needs that it is exact.             *)
Types ==
    /\ tasks \in Seq(Task)
    /\ m \in Workers \cup {0}
    /\ wpc \in [Workers -> {"lock", "park", "run", "finish", "gone"}]
    /\ job \in [Workers -> Task \cup {NoTask}]
    /\ cpc \in [Callers -> {"idle", "notify", "wait"}]
    /\ idleWorkers \subseteq Workers
    /\ doneWaiters \subseteq Callers
    /\ stopped \subseteq Workers
    /\ dpc \in {"alive", "callback", "stopping", "notify", "join", "gone"}

LEMMA WorkerNumbers ==
    /\ Workers \subseteq Nat \ {0} /\ IsFiniteSet(Workers)
    /\ \A w \in Workers : 1 .. w - 1 \subseteq Workers
<1> DEFINE top == IF NThreads = 0 THEN 1 ELSE NThreads
<1>1. top \in Nat /\ Workers = 1 .. top
    BY PoolAssumption DEF Workers
<1> QED
    BY <1>1, FS_Interval

(* run() queues its tasks behind those of the others.                      *)
LEMMA Queued ==
    ASSUME Types, NEW c \in Callers, NEW n \in 1 .. MaxTasks
    PROVE  LET longer == tasks \o [k \in 1 .. n |-> <<c, k>>]
           IN  /\ longer \in Seq(Task) /\ Len(longer) = Len(tasks) + n
               /\ \A i \in 1 .. Len(tasks) : longer[i] = tasks[i]
               /\ \A i \in Len(tasks) + 1 .. Len(tasks) + n :
                        longer[i] = <<c, i - Len(tasks)>>
<1> DEFINE more == [k \in 1 .. n |-> <<c, k>>]
<1>1. n \in Nat /\ tasks \in Seq(Task) /\ Len(tasks) \in Nat
    BY PoolAssumption, LenProperties DEF Types
<1>2. more \in Seq(Task) /\ Len(more) = n
    <2>1. \A k \in 1 .. n : <<c, k>> \in Task
        BY PoolAssumption DEF Task
    <2>2. more \in [1 .. n -> Task]
        BY <2>1
    <2>3. more \in Seq(Task)
        BY <1>1, <2>2, SeqDef
    <2> QED
        BY <1>1, <2>2, <2>3, LenProperties
<1>3. \A k \in 1 .. n : more[k] = <<c, k>>
    OBVIOUS
<1> HIDE DEF more
<1>4. /\ tasks \o more \in Seq(Task) /\ Len(tasks \o more) = Len(tasks) + n
      /\ \A i \in 1 .. Len(tasks) + n : (tasks \o more)[i] =
            IF i <= Len(tasks) THEN tasks[i] ELSE more[i - Len(tasks)]
    BY <1>1, <1>2, ConcatProperties
<1>5. ASSUME NEW i \in Len(tasks) + 1 .. Len(tasks) + n
      PROVE  (tasks \o more)[i] = <<c, i - Len(tasks)>>
    <2>1. i \in 1 .. Len(tasks) + n /\ ~(i <= Len(tasks)) /\ i - Len(tasks) \in 1 .. n
        BY <1>1
    <2> QED
        BY <1>3, <1>4, <2>1
<1>6. ASSUME NEW i \in 1 .. Len(tasks) PROVE (tasks \o more)[i] = tasks[i]
    BY <1>1, <1>4
<1> QED
    BY <1>4, <1>5, <1>6 DEF more

(* A worker takes the oldest task.                                         *)
LEMMA Taken ==
    ASSUME Types, tasks # <<>>
    PROVE  /\ Head(tasks) \in Task /\ Head(tasks) = tasks[1]
           /\ Tail(tasks) \in Seq(Task) /\ Len(tasks) \in Nat /\ Len(tasks) >= 1
           /\ Len(Tail(tasks)) = Len(tasks) - 1
           /\ \A i \in 1 .. Len(tasks) - 1 : Tail(tasks)[i] = tasks[i + 1]
BY HeadTailProperties, LenProperties, EmptySeq DEF Types

-----------------------------------------------------------------------------
(* Types, and the count of pending tasks.                                  *)

LEMMA InitTypes == Init => Types
BY DEF Init, Types

LEMMA NextTypes == Types /\ [Next]_vars => Types'
<1> SUFFICES ASSUME Types, [Next]_vars PROVE Types'
    OBVIOUS
<1> USE DEF Types, workVars
<1>1. ASSUME NEW c \in Callers, Caller(c) PROVE Types'
    <2>1. CASE Submit(c)
        <3>1. PICK n \in 1 .. MaxTasks : tasks' = tasks \o [k \in 1 .. n |-> <<c, k>>]
            BY <2>1 DEF Submit
        <3>2. tasks' \in Seq(Task)
            BY <3>1, Queued
        <3> QED
            BY <2>1, <3>2 DEF Submit
    <2>2. CASE NotifyWorkers(c)
        BY <2>2 DEF NotifyWorkers
    <2>3. CASE RunReturns(c)
        BY <2>3 DEF RunReturns
    <2>4. CASE RunBlocks(c)
        BY <2>4 DEF RunBlocks
    <2> QED
        BY <1>1, <2>1, <2>2, <2>3, <2>4 DEF Caller
<1>2. ASSUME NEW w \in Workers, Worker(w) PROVE Types'
    <2>1. CASE TakeTask(w)
        <3>1. tasks' \in Seq(Task) /\ Head(tasks) \in Task
            BY <2>1, Taken DEF TakeTask
        <3> QED
            BY <2>1, <3>1 DEF TakeTask
    <2>2. CASE FindNoTask(w)
        BY <2>2 DEF FindNoTask
    <2>3. CASE Park(w)
        BY <2>3 DEF Park
    <2>4. CASE Exit(w)
        BY <2>4 DEF Exit
    <2>5. CASE RunTask(w)
        BY <2>5 DEF RunTask
    <2>6. CASE FinishTask(w)
        BY <2>6 DEF FinishTask
    <2> QED
        BY <1>2, <2>1, <2>2, <2>3, <2>4, <2>5, <2>6 DEF Worker
<1>3. CASE Destroyer
    BY <1>3 DEF Destroyer, RequestStop, StopCallback, DestroyNotify, Join
<1>4. CASE SpuriousWake
    BY <1>4 DEF SpuriousWake
<1>5. CASE UNCHANGED vars
    BY <1>5 DEF vars
<1> QED
    BY <1>1, <1>2, <1>3, <1>4, <1>5 DEF Next, Gone

LEMMA BusyFinite == IsFiniteSet(Busy) /\ Cardinality(Busy) \in Nat
<1>1. Busy \in SUBSET Workers
    BY DEF Busy
<1>2. IsFiniteSet(Busy)
    BY <1>1, WorkerNumbers, FS_Subset
<1> QED
    BY <1>2, FS_CardinalityType

LEMMA InitExact == Init => PendingExact
<1> SUFFICES ASSUME Init PROVE PendingExact
    OBVIOUS
<1>1. Busy = {}
    BY DEF Init, Busy
<1>2. Len(<<>>) = 0
    OBVIOUS
<1> QED
    BY <1>1, <1>2, FS_EmptySet DEF Init, PendingExact

LEMMA NextExact == Types /\ PendingExact /\ [Next]_vars => PendingExact'
<1> SUFFICES ASSUME Types, PendingExact, [Next]_vars PROVE PendingExact'
    OBVIOUS
<1>0. /\ Len(tasks) \in Nat /\ Cardinality(Busy) \in Nat
      /\ pending = Len(tasks) + Cardinality(Busy)
    BY BusyFinite, LenProperties DEF Types, PendingExact
<1>1. ASSUME UNCHANGED <<tasks, pending>>, Busy' = Busy PROVE PendingExact'
    BY <1>0, <1>1 DEF PendingExact
<1>2. ASSUME NEW c \in Callers, Submit(c) PROVE PendingExact'
    <2>1. PICK n \in 1 .. MaxTasks :
                pending' = pending + n /\ tasks' = tasks \o [k \in 1 .. n |-> <<c, k>>]
        BY <1>2 DEF Submit
    <2>2. Len(tasks') = Len(tasks) + n /\ n \in Nat
        BY <2>1, Queued, PoolAssumption
    <2>3. Busy' = Busy
        BY <1>2 DEF Submit, workVars, Busy
    <2> QED
        BY <1>0, <2>1, <2>2, <2>3 DEF PendingExact
<1>3. ASSUME NEW w \in Workers, TakeTask(w) PROVE PendingExact'
    <2>1. Busy' = Busy \cup {w} /\ w \notin Busy
        BY <1>3 DEF TakeTask, Busy, Types
    <2>2. Cardinality(Busy') = Cardinality(Busy) + 1
        BY <2>1, BusyFinite, FS_AddElement
    <2>3. Len(tasks') = Len(tasks) - 1 /\ pending' = pending
        BY <1>3, Taken DEF TakeTask
    <2> QED
        BY <1>0, <2>2, <2>3 DEF PendingExact
<1>4. ASSUME NEW w \in Workers, FinishTask(w) PROVE PendingExact'
    <2>1. Busy' = Busy \ {w} /\ w \in Busy
        BY <1>4 DEF FinishTask, Busy, Types
    <2>2. Cardinality(Busy') = Cardinality(Busy) - 1
        BY <2>1, BusyFinite, FS_RemoveElement
    <2>3. tasks' = tasks /\ pending' = pending - 1
        BY <1>4 DEF FinishTask
    <2> QED
        BY <1>0, <2>2, <2>3 DEF PendingExact
<1>5. ASSUME NEW c \in Callers, Caller(c), ~Submit(c) PROVE PendingExact'
    BY <1>1, <1>5
    DEF Caller, NotifyWorkers, RunReturns, RunBlocks, workVars, Busy
<1>6. ASSUME NEW w \in Workers, Worker(w), ~TakeTask(w), ~FinishTask(w)
      PROVE  PendingExact'
    <2>1. UNCHANGED <<tasks, pending>>
        BY <1>6 DEF Worker, FindNoTask, Park, Exit, RunTask
    <2>2. Busy' = Busy
        BY <1>6 DEF Worker, FindNoTask, Park, Exit, RunTask, Busy, Types
    <2> QED
        BY <1>1, <2>1, <2>2
<1>7. CASE Destroyer \/ SpuriousWake \/ UNCHANGED vars
    <2>1. UNCHANGED <<tasks, pending, wpc>>
        BY <1>7 DEF Destroyer, RequestStop, StopCallback, DestroyNotify, Join,
                    SpuriousWake, workVars, vars
    <2> QED
        BY <1>1, <2>1 DEF Busy
<1> QED
    BY <1>2, <1>3, <1>4, <1>5, <1>6, <1>7 DEF Next, Gone

THEOREM CountInvariance == Spec => [](Types /\ PendingExact)
BY InitTypes, InitExact, NextTypes, NextExact, PTL DEF Spec

LEMMA CountTypes == Types /\ PendingExact => TypeOK
<1> SUFFICES ASSUME Types, PendingExact PROVE TypeOK
    OBVIOUS
<1>1. pending \in Nat
    BY BusyFinite, LenProperties DEF Types, PendingExact
<1> QED
    BY <1>1 DEF Types, TypeOK

(* Every variable keeps its type; pending_ never goes below zero.          *)
THEOREM PoolTypes == Spec => []TypeOK
BY CountInvariance, CountTypes, PTL

(* pending_ counts the tasks queued or in a worker's hands, of all callers *)
(* together (threadpool.cpp:25-58).                                        *)
THEOREM PendingTrue == Spec => []PendingExact
BY CountInvariance, PTL

-----------------------------------------------------------------------------
(* The wake-ups.                                                           *)

(* A worker between its predicate and blocking holds m_, and nothing is    *)
(* queued meanwhile.                                                       *)
OwnMutex ==
    /\ \A w \in Workers : wpc[w] = "park" <=> m = w
    /\ m # 0 => tasks = <<>>

(* The workers are told to stop one after the other, and only the last one *)
(* told may still be blocked.                                              *)
StopOrder ==
    /\ stopped = 1 .. Cardinality(stopped)
    /\ idleWorkers \cap stopped \subseteq {Cardinality(stopped)}

Awake == OwnMutex /\ StopOrder /\ NoLostWakeup

LEMMA InitAwake == Init => Awake
<1> SUFFICES ASSUME Init PROVE Awake
    OBVIOUS
<1>1. stopped = 1 .. Cardinality(stopped)
    BY FS_EmptySet DEF Init
<1>2. 0 \notin Workers
    BY WorkerNumbers
<1>3. Len(<<>>) = 0
    OBVIOUS
<1> QED
    BY <1>1, <1>2, <1>3 DEF Init, Awake, OwnMutex, StopOrder, NoLostWakeup

LEMMA CallerKeepsAwake ==
    ASSUME Types, PendingExact, Awake, NEW c \in Callers, Caller(c) PROVE Awake'
<1> USE DEF Awake, OwnMutex, StopOrder, NoLostWakeup, Types, workVars
<1>0. Len(tasks) \in Nat /\ pending \in Nat
    BY CountTypes, LenProperties DEF TypeOK
<1>1. CASE Submit(c)
    <2>1. PICK n \in 1 .. MaxTasks :
                pending' = pending + n /\ tasks' = tasks \o [k \in 1 .. n |-> <<c, k>>]
        BY <1>1 DEF Submit
    <2>2. /\ Len(tasks') = Len(tasks) + n
          /\ \A i \in 1 .. Len(tasks) : tasks'[i] = tasks[i]
          /\ \A i \in Len(tasks) + 1 .. Len(tasks) + n :
                    tasks'[i] = <<c, i - Len(tasks)>>
        BY <2>1, Queued
    <2>3. /\ cpc' = [cpc EXCEPT ![c] = "notify"] /\ idleWorkers' = idleWorkers
          /\ m = 0 /\ m' = m /\ wpc' = wpc /\ doneWaiters' = doneWaiters
          /\ stopped' = stopped /\ dpc' = dpc
        BY <1>1 DEF Submit
    <2>4. n \in Nat /\ n >= 1
        BY PoolAssumption
    <2>5. ASSUME NEW i \in 1 .. Len(tasks'), idleWorkers' # {}
          PROVE  cpc'[tasks'[i][1]] = "notify"
        <3>1. CASE i \in 1 .. Len(tasks)
            <4>1. tasks[i] \in Task /\ tasks[i][1] \in Callers
                BY <3>1, ElementOfSeq DEF Task
            <4>2. cpc[tasks[i][1]] = "notify"
                BY <2>3, <2>5, <3>1
            <4> QED
                BY <2>2, <2>3, <3>1, <4>1, <4>2
        <3>2. CASE i \in Len(tasks) + 1 .. Len(tasks) + n
            <4>1. tasks'[i][1] = c
                BY <2>2, <3>2
            <4> QED
                BY <2>3, <4>1
        <3> QED
            BY <1>0, <2>2, <2>4, <3>1, <3>2
    <2>6. pending' # 0
        BY <1>0, <2>1, <2>4
    <2> QED
        BY <2>3, <2>5, <2>6
<1>2. CASE NotifyWorkers(c)
    BY <1>2 DEF NotifyWorkers
<1>3. CASE RunReturns(c)
    <2>1. ASSUME NEW i \in 1 .. Len(tasks), idleWorkers # {}
          PROVE  tasks[i][1] # c /\ tasks[i][1] \in Callers
        <3>1. tasks[i] \in Task
            BY ElementOfSeq
        <3>2. cpc[tasks[i][1]] = "notify"
            BY <2>1
        <3> QED
            BY <1>3, <3>1, <3>2 DEF RunReturns, Task
    <2> QED
        BY <1>3, <2>1 DEF RunReturns
<1>4. CASE RunBlocks(c)
    BY <1>4 DEF RunBlocks
<1> QED
    BY <1>1, <1>2, <1>3, <1>4 DEF Caller

LEMMA WorkerKeepsAwake ==
    ASSUME Types, PendingExact, Awake, NEW w \in Workers, Worker(w) PROVE Awake'
<1> USE DEF Awake, OwnMutex, StopOrder, NoLostWakeup, Types
<1>0. w # 0 /\ Len(tasks) \in Nat
    BY WorkerNumbers, LenProperties
<1>1. CASE TakeTask(w)
    <2>1. /\ Len(tasks') = Len(tasks) - 1
          /\ \A i \in 1 .. Len(tasks) - 1 : tasks'[i] = tasks[i + 1]
        BY <1>1, Taken DEF TakeTask
    <2>2. /\ UNCHANGED <<pending, m, cpc, idleWorkers, doneWaiters, stopped, dpc>>
          /\ m = 0 /\ wpc' = [wpc EXCEPT ![w] = "run"]
        BY <1>1 DEF TakeTask
    <2>3. ASSUME NEW i \in 1 .. Len(tasks'), idleWorkers' # {}
          PROVE  cpc'[tasks'[i][1]] = "notify"
        <3>1. i + 1 \in 1 .. Len(tasks) /\ tasks'[i] = tasks[i + 1]
            BY <1>0, <2>1
        <3> QED
            BY <2>2, <2>3, <3>1
    <2>4. OwnMutex'
        <3>1. \A v \in Workers : v # 0
            BY WorkerNumbers
        <3> QED
            BY <1>0, <2>2, <3>1
    <2> QED
        BY <2>2, <2>3, <2>4
<1>2. CASE FindNoTask(w)
    <2>1. \A v \in Workers : v # 0
        BY WorkerNumbers
    <2> QED
        BY <1>2, <2>1 DEF FindNoTask
<1>3. CASE Park(w)
    <2>1. m = w /\ tasks = <<>> /\ Len(tasks) = 0
        BY <1>0, <1>3, EmptySeq DEF Park
    <2>2. \A v \in Workers : v # 0
        BY WorkerNumbers
    <2> QED
        BY <1>3, <2>1, <2>2 DEF Park
<1>4. CASE Exit(w)
    <2>1. m = w
        BY <1>4 DEF Exit
    <2>2. \A v \in Workers : v # 0
        BY WorkerNumbers
    <2> QED
        BY <1>4, <2>1, <2>2 DEF Exit
<1>5. CASE RunTask(w)
    BY <1>5 DEF RunTask
<1>6. CASE FinishTask(w)
    BY <1>6 DEF FinishTask
<1> QED
    BY <1>1, <1>2, <1>3, <1>4, <1>5, <1>6 DEF Worker

LEMMA DestroyerKeepsAwake ==
    ASSUME Types, Awake, Destroyer PROVE Awake'
<1> USE DEF Awake, OwnMutex, StopOrder, NoLostWakeup, Types, workVars
<1>1. ASSUME NEW w \in Workers, RequestStop(w) PROVE Awake'
    <2>1. w \in Nat /\ w # 0
        BY WorkerNumbers
    <2>2. stopped' = 1 .. w
        BY <1>1, <2>1 DEF RequestStop
    <2>3. Cardinality(stopped') = w
        BY <2>1, <2>2, FS_Interval
    <2>4. idleWorkers \cap stopped = {}
        BY <1>1 DEF RequestStop
    <2>5. idleWorkers' \cap stopped' \subseteq {w}
        BY <1>1, <2>4 DEF RequestStop
    <2> QED
        BY <1>1, <2>2, <2>3, <2>5 DEF RequestStop
<1>2. CASE StopCallback
    BY <1>2 DEF StopCallback
<1>3. CASE DestroyNotify
    BY <1>3 DEF DestroyNotify
<1>4. CASE Join
    BY <1>4 DEF Join
<1> QED
    BY <1>1, <1>2, <1>3, <1>4 DEF Destroyer

LEMMA NextAwake ==
    Types /\ PendingExact /\ Awake /\ [Next]_vars => Awake'
<1> SUFFICES ASSUME Types, PendingExact, Awake, [Next]_vars PROVE Awake'
    OBVIOUS
<1>1. CASE SpuriousWake
    BY <1>1 DEF SpuriousWake, workVars, Awake, OwnMutex, StopOrder, NoLostWakeup
<1>2. CASE UNCHANGED vars
    BY <1>2 DEF vars, Awake, OwnMutex, StopOrder, NoLostWakeup
<1> QED
    BY <1>1, <1>2, CallerKeepsAwake, WorkerKeepsAwake, DestroyerKeepsAwake
    DEF Next, Gone

THEOREM AwakeInvariance == Spec => [](Types /\ PendingExact /\ Awake)
BY InitTypes, InitExact, InitAwake, NextTypes, NextExact, NextAwake, PTL
DEF Spec

(* No worker sleeps while a task is queued whose owner has notified, no    *)
(* caller sleeps with nothing pending, and no worker sleeps through its    *)
(* stop request (threadpool.cpp:14-58).                                    *)
THEOREM WakeupsKept == Spec => []NoLostWakeup
<1>1. Awake => NoLostWakeup
    BY DEF Awake
<1> QED
    BY <1>1, AwakeInvariance, PTL

-----------------------------------------------------------------------------
(* The promise to each caller.                                             *)

(* A task is in one place: once in the queue or with one worker.           *)
InHand(w, t) == wpc[w] = "run" /\ job[w] = t

Once ==
    /\ \A i, j \in 1 .. Len(tasks) : tasks[i] = tasks[j] => i = j
    /\ \A i \in 1 .. Len(tasks), w \in Workers : ~InHand(w, tasks[i])
    /\ \A w, v \in Workers : wpc[w] = "run" /\ InHand(v, job[w]) => w = v

(* A worker that runs a task has one.                                      *)
Held == \A w \in Workers : wpc[w] = "run" => job[w] \in Task

(* A caller that is not in run() has no task left.                         *)
IdleHasNone == \A c \in Callers : cpc[c] = "idle" => Outstanding(c) = {}

Placed == Once /\ Held /\ IdleHasNone

(* Outstanding in terms of tasks.                                          *)
Left(t) ==
    \/ \E i \in 1 .. Len(tasks) : tasks[i] = t
    \/ \E w \in Workers : InHand(w, t)

LEMMA OutstandingLeft ==
    \A c : Outstanding(c) = {k \in 1 .. MaxTasks : Left(<<c, k>>)}
BY DEF Outstanding, Left, InHand

LEMMA NoneOutstanding ==
    ASSUME NEW c \in Callers, Outstanding(c) = {}, NEW t \in Task, t[1] = c
    PROVE  ~Left(t)
<1>1. t = <<c, t[2]>> /\ t[2] \in 1 .. MaxTasks
    BY DEF Task
<1> QED
    BY <1>1, OutstandingLeft

(* What is left after each step.                                           *)
LEMMA SubmitLeaves ==
    ASSUME Types, NEW c \in Callers, NEW n \in 1 .. MaxTasks, Submit(c),
           tasks' = tasks \o [k \in 1 .. n |-> <<c, k>>]
    PROVE  \A t : Left(t)' <=> Left(t) \/ \E k \in 1 .. n : t = <<c, k>>
<1>1. /\ Len(tasks') = Len(tasks) + n /\ Len(tasks) \in Nat /\ n \in Nat
      /\ \A i \in 1 .. Len(tasks) : tasks'[i] = tasks[i]
      /\ \A i \in Len(tasks) + 1 .. Len(tasks) + n :
                tasks'[i] = <<c, i - Len(tasks)>>
    BY Queued, PoolAssumption, LenProperties DEF Types
<1>2. \A w, t : InHand(w, t)' <=> InHand(w, t)
    BY DEF Submit, workVars, InHand
<1>3. ASSUME NEW t, NEW i \in 1 .. Len(tasks'), tasks'[i] = t
      PROVE  \/ \E j \in 1 .. Len(tasks) : tasks[j] = t
             \/ \E k \in 1 .. n : t = <<c, k>>
    <2>1. CASE i \in 1 .. Len(tasks)
        BY <1>1, <1>3, <2>1
    <2>2. CASE i \notin 1 .. Len(tasks)
        <3>1. i \in Len(tasks) + 1 .. Len(tasks) + n /\ i - Len(tasks) \in 1 .. n
            BY <1>1, <2>2
        <3> QED
            BY <1>1, <1>3, <3>1
    <2> QED
        BY <2>1, <2>2
<1>4. ASSUME NEW j \in 1 .. Len(tasks)
      PROVE  j \in 1 .. Len(tasks') /\ tasks'[j] = tasks[j]
    BY <1>1
<1>5. ASSUME NEW k \in 1 .. n
      PROVE  /\ Len(tasks) + k \in 1 .. Len(tasks')
             /\ tasks'[Len(tasks) + k] = <<c, k>>
    <2>1. /\ Len(tasks) + k \in Len(tasks) + 1 .. Len(tasks) + n
          /\ (Len(tasks) + k) - Len(tasks) = k
        BY <1>1
    <2> QED
        BY <1>1, <2>1
<1> QED
    BY <1>2, <1>3, <1>4, <1>5 DEF Left

LEMMA TakeLeaves ==
    ASSUME Types, NEW w \in Workers, TakeTask(w)
    PROVE  \A t : Left(t)' <=> Left(t)
<1>1. /\ Len(tasks) \in Nat /\ Len(tasks) >= 1 /\ Len(tasks') = Len(tasks) - 1
      /\ \A i \in 1 .. Len(tasks) - 1 : tasks'[i] = tasks[i + 1]
      /\ job' = [job EXCEPT ![w] = tasks[1]] /\ wpc' = [wpc EXCEPT ![w] = "run"]
      /\ wpc[w] = "lock"
    BY Taken DEF TakeTask
<1>2. ASSUME NEW t
      PROVE  (\E i \in 1 .. Len(tasks) : tasks[i] = t)
                <=> tasks[1] = t \/ \E i \in 1 .. Len(tasks') : tasks'[i] = t
    <2>1. ASSUME NEW i \in 1 .. Len(tasks), tasks[i] = t, i # 1
          PROVE  i - 1 \in 1 .. Len(tasks') /\ tasks'[i - 1] = t
        <3>1. i - 1 \in 1 .. Len(tasks) - 1 /\ (i - 1) + 1 = i
            BY <1>1, <2>1
        <3> QED
            BY <1>1, <2>1, <3>1
    <2>2. ASSUME NEW i \in 1 .. Len(tasks'), tasks'[i] = t
          PROVE  i + 1 \in 1 .. Len(tasks) /\ tasks[i + 1] = t
        BY <1>1, <2>2
    <2>3. 1 \in 1 .. Len(tasks)
        BY <1>1
    <2> QED
        BY <2>1, <2>2, <2>3
<1>3. \A v \in Workers : \A t :
            InHand(v, t)' <=> InHand(v, t) \/ (v = w /\ t = tasks[1])
    BY <1>1 DEF InHand, Types
<1> QED
    BY <1>2, <1>3 DEF Left

LEMMA RunLeaves ==
    ASSUME Types, Once, NEW w \in Workers, RunTask(w)
    PROVE  /\ \A t : Left(t)' <=> Left(t) /\ t # job[w]
           /\ Left(job[w])
<1>1. \A v \in Workers : \A t : InHand(v, t)' <=> InHand(v, t) /\ v # w
    BY DEF RunTask, InHand, Types
<1>2. wpc[w] = "run" /\ tasks' = tasks
    BY DEF RunTask
<1>3. InHand(w, job[w])
    BY <1>2 DEF InHand
<1>4. \A i \in 1 .. Len(tasks) : tasks[i] # job[w]
    BY <1>3 DEF Once
<1>5. \A v \in Workers : \A t : InHand(v, t) => (t = job[w] <=> v = w)
    BY <1>2 DEF Once, InHand
<1> QED
    BY <1>1, <1>2, <1>3, <1>4, <1>5 DEF Left

(* Every other step leaves what it finds.                                  *)
LEMMA RestLeaves ==
    ASSUME Types, [Next]_vars,
           \A c \in Callers : ~Submit(c),
           \A w \in Workers : ~TakeTask(w) /\ ~RunTask(w)
    PROVE  /\ \A t : Left(t)' <=> Left(t)
           /\ tasks' = tasks
           /\ \A w \in Workers : \A t : InHand(w, t)' <=> InHand(w, t)
           /\ \A w \in Workers : wpc'[w] = "run" => wpc[w] = "run" /\ job'[w] = job[w]
<1>1. CASE UNCHANGED <<tasks, wpc, job>>
    BY <1>1 DEF Left, InHand
<1>2. ASSUME NEW w \in Workers, Worker(w)
      PROVE  /\ tasks' = tasks
             /\ \A v \in Workers : \A t : InHand(v, t)' <=> InHand(v, t)
             /\ \A v \in Workers : wpc'[v] = "run" => wpc[v] = "run" /\ job'[v] = job[v]
    <2>1. CASE FindNoTask(w)
        BY <2>1 DEF FindNoTask, InHand, Types
    <2>2. CASE Park(w)
        BY <2>2 DEF Park, InHand, Types
    <2>3. CASE Exit(w)
        BY <2>3 DEF Exit, InHand, Types
    <2>4. CASE FinishTask(w)
        BY <2>4 DEF FinishTask, InHand, Types
    <2> QED
        BY <1>2, <2>1, <2>2, <2>3, <2>4 DEF Worker
<1>3. CASE \E w \in Workers : Worker(w)
    BY <1>2, <1>3 DEF Left
<1>4. CASE ~\E w \in Workers : Worker(w)
    <2>1. UNCHANGED <<tasks, wpc, job>>
        BY <1>4 DEF Next, Gone, vars, Caller, NotifyWorkers, RunReturns,
            RunBlocks, workVars, Destroyer, RequestStop, StopCallback,
            DestroyNotify, Join, SpuriousWake
    <2> QED
        BY <1>1, <2>1
<1> QED
    BY <1>3, <1>4

-----------------------------------------------------------------------------
(* Placed is an invariant.                                                 *)

LEMMA InitPlaced == Init => Placed
<1> SUFFICES ASSUME Init PROVE Placed
    OBVIOUS
<1>1. Len(tasks) = 0 /\ \A w \in Workers : wpc[w] = "lock"
    BY DEF Init
<1>2. \A t : ~Left(t)
    BY <1>1 DEF Left, InHand
<1>3. \A c : Outstanding(c) = {}
    BY <1>2, OutstandingLeft
<1> QED
    BY <1>1, <1>3 DEF Placed, Once, Held, IdleHasNone, InHand

LEMMA SubmitKeepsPlaced ==
    ASSUME Types, Placed, NEW c \in Callers, Submit(c) PROVE Placed'
<1>1. PICK n \in 1 .. MaxTasks : tasks' = tasks \o [k \in 1 .. n |-> <<c, k>>]
    BY DEF Submit
<1>2. /\ Len(tasks') = Len(tasks) + n /\ Len(tasks) \in Nat /\ n \in Nat
      /\ \A i \in 1 .. Len(tasks) : tasks'[i] = tasks[i] /\ tasks[i] \in Task
      /\ \A i \in Len(tasks) + 1 .. Len(tasks) + n :
                tasks'[i] = <<c, i - Len(tasks)>>
    BY <1>1, Queued, PoolAssumption, LenProperties, ElementOfSeq DEF Types
<1>3. /\ cpc[c] = "idle" /\ cpc' = [cpc EXCEPT ![c] = "notify"]
      /\ wpc' = wpc /\ job' = job
    BY DEF Submit, workVars
<1>4. \A t : Left(t)' <=> Left(t) \/ \E k \in 1 .. n : t = <<c, k>>
    BY <1>1, SubmitLeaves
<1>5. Outstanding(c) = {}
    BY <1>3 DEF Placed, IdleHasNone
<1>6. \A k \in 1 .. n : ~Left(<<c, k>>)
    <2>1. \A k \in 1 .. n : <<c, k>> \in Task /\ <<c, k>>[1] = c
        BY PoolAssumption DEF Task
    <2> QED
        BY <1>5, <2>1, NoneOutstanding
<1> DEFINE old == 1 .. Len(tasks)
           new == Len(tasks) + 1 .. Len(tasks) + n
<1>7. ASSUME NEW i \in 1 .. Len(tasks') PROVE i \in old \/ i \in new
    BY <1>2
<1>8. ASSUME NEW i \in old, NEW j \in new PROVE tasks'[i] # tasks'[j]
    <2>1. Left(tasks[i])
        BY DEF Left
    <2>2. j - Len(tasks) \in 1 .. n
        BY <1>2
    <2> QED
        BY <1>2, <1>6, <2>1, <2>2
<1>9. ASSUME NEW i \in new, NEW j \in new, tasks'[i] = tasks'[j] PROVE i = j
    <2>1. i - Len(tasks) = j - Len(tasks)
        BY <1>2, <1>9
    <2> QED
        BY <1>2, <2>1
<1>10. ASSUME NEW i \in old, NEW j \in old, tasks'[i] = tasks'[j] PROVE i = j
    BY <1>2, <1>10 DEF Placed, Once
<1>11. ASSUME NEW i \in 1 .. Len(tasks'), NEW w \in Workers
       PROVE  ~InHand(w, tasks'[i])
    <2>1. CASE i \in old
        BY <1>2, <2>1 DEF Placed, Once
    <2>2. CASE i \in new
        <3>1. i - Len(tasks) \in 1 .. n /\ tasks'[i] = <<c, i - Len(tasks)>>
            BY <1>2, <2>2
        <3> QED
            BY <1>6, <3>1 DEF Left
    <2> QED
        BY <1>7, <2>1, <2>2
<1>12. Once'
    <2> HIDE DEF old, new
    <2>1. \A i, j \in 1 .. Len(tasks') : tasks'[i] = tasks'[j] => i = j
        BY <1>7, <1>8, <1>9, <1>10
    <2>2. \A i \in 1 .. Len(tasks'), w \in Workers : ~InHand(w, tasks[i])'
        BY <1>3, <1>11 DEF InHand
    <2>3. (\A w, v \in Workers : wpc[w] = "run" /\ InHand(v, job[w]) => w = v)'
        BY <1>3 DEF Placed, Once, InHand
    <2> QED
        BY <2>1, <2>2, <2>3 DEF Once
<1>13. Held'
    BY <1>3 DEF Placed, Held
<1>14. ASSUME NEW d \in Callers, cpc'[d] = "idle" PROVE Outstanding(d)' = {}
    <2>1. d # c /\ cpc[d] = "idle"
        BY <1>3, <1>14 DEF Types
    <2>2. \A k : Left(<<d, k>>)' <=> Left(<<d, k>>)
        BY <1>4, <2>1
    <2>3. Outstanding(d) = {}
        BY <2>1 DEF Placed, IdleHasNone
    <2>4. Outstanding(d)' = {k \in 1 .. MaxTasks : Left(<<d, k>>)'}
        BY DEF Outstanding, Left, InHand
    <2> QED
        BY <2>2, <2>3, <2>4, OutstandingLeft
<1> QED
    BY <1>12, <1>13, <1>14 DEF Placed, IdleHasNone

LEMMA TakeKeepsOnce ==
    ASSUME Types, Once, Held, NEW w \in Workers, TakeTask(w) PROVE Once' /\ Held'
<1>1. /\ Len(tasks) \in Nat /\ Len(tasks) >= 1 /\ Len(tasks') = Len(tasks) - 1
      /\ \A i \in 1 .. Len(tasks) - 1 : tasks'[i] = tasks[i + 1]
      /\ job' = [job EXCEPT ![w] = tasks[1]] /\ wpc' = [wpc EXCEPT ![w] = "run"]
      /\ wpc[w] = "lock" /\ tasks[1] \in Task
    BY Taken DEF TakeTask
<1>2. \A v \in Workers : \A t :
            InHand(v, t)' <=> InHand(v, t) \/ (v = w /\ t = tasks[1])
    BY <1>1 DEF InHand, Types
<1>3. ASSUME NEW i \in 1 .. Len(tasks')
      PROVE  i + 1 \in 1 .. Len(tasks) /\ i + 1 # 1 /\ tasks'[i] = tasks[i + 1]
    BY <1>1
<1>4. 1 \in 1 .. Len(tasks)
    BY <1>1
<1>5. ASSUME NEW i \in 1 .. Len(tasks'), NEW j \in 1 .. Len(tasks'),
             tasks'[i] = tasks'[j]
      PROVE  i = j
    <2>1. i + 1 = j + 1
        BY <1>3, <1>5 DEF Once
    <2> QED
        BY <1>1, <2>1
<1>6. ASSUME NEW i \in 1 .. Len(tasks'), NEW v \in Workers
      PROVE  ~InHand(v, tasks[i])'
    BY <1>2, <1>3, <1>4 DEF Once
<1>7. ASSUME NEW v \in Workers, NEW u \in Workers, wpc'[v] = "run",
             InHand(u, job[v])'
      PROVE  v = u
    <2>1. ~InHand(u, tasks[1]) /\ ~InHand(v, tasks[1])
        BY <1>4 DEF Once
    <2>2. CASE v = w
        <3>1. job'[v] = tasks[1]
            BY <1>1, <2>2 DEF Types
        <3> QED
            BY <1>2, <1>7, <2>1, <2>2, <3>1
    <2>3. CASE v # w
        <3>1. job'[v] = job[v] /\ wpc[v] = "run" /\ InHand(v, job[v])
            BY <1>1, <1>7, <2>3 DEF Types, InHand
        <3> QED
            BY <1>2, <1>7, <2>1, <3>1 DEF Once
    <2> QED
        BY <2>2, <2>3
<1>8. Held'
    BY <1>1 DEF Held, Types
<1> QED
    BY <1>5, <1>6, <1>7, <1>8 DEF Once

LEMMA RunKeepsOnce ==
    ASSUME Types, Once, Held, NEW w \in Workers, RunTask(w) PROVE Once' /\ Held'
<1>1. \A v \in Workers : \A t : InHand(v, t)' <=> InHand(v, t) /\ v # w
    BY DEF RunTask, InHand, Types
<1>2. /\ tasks' = tasks /\ job' = job
      /\ \A v \in Workers : wpc'[v] = "run" => wpc[v] = "run"
    BY DEF RunTask, Types
<1> QED
    BY <1>1, <1>2 DEF Once, Held

(* run() returns only when nobody has a task left.                         *)
LEMMA NothingPending ==
    ASSUME Types, PendingExact, pending = 0 PROVE \A t : ~Left(t)
<1>1. Len(tasks) = 0 /\ Cardinality(Busy) = 0
    BY BusyFinite, LenProperties DEF Types, PendingExact
<1>2. Busy = {}
    BY <1>1, BusyFinite, FS_EmptySet
<1> QED
    BY <1>1, <1>2 DEF Left, InHand, Busy

LEMMA NextPlaced ==
    Types /\ PendingExact /\ Placed /\ [Next]_vars => Placed'
<1> SUFFICES ASSUME Types, PendingExact, Placed, [Next]_vars PROVE Placed'
    OBVIOUS
<1>1. ASSUME NEW c \in Callers, Submit(c) PROVE Placed'
    BY <1>1, SubmitKeepsPlaced
<1>2. ASSUME \A t : Left(t)' => Left(t),
             \A c \in Callers : cpc'[c] = "idle" => cpc[c] = "idle" \/ pending = 0
      PROVE  IdleHasNone'
    <2> SUFFICES ASSUME NEW c \in Callers, cpc'[c] = "idle"
                 PROVE  Outstanding(c)' = {}
        BY DEF IdleHasNone
    <2>1. Outstanding(c)' = {k \in 1 .. MaxTasks : Left(<<c, k>>)'}
        BY DEF Outstanding, Left, InHand
    <2>2. CASE cpc[c] = "idle"
        BY <1>2, <2>1, <2>2, OutstandingLeft DEF Placed, IdleHasNone
    <2>3. CASE pending = 0
        BY <1>2, <2>1, <2>3, NothingPending
    <2> QED
        BY <1>2, <2>2, <2>3
<1>3. ASSUME NEW w \in Workers, TakeTask(w) PROVE Placed'
    <2>1. cpc' = cpc
        BY <1>3 DEF TakeTask
    <2> QED
        BY <1>2, <1>3, <2>1, TakeLeaves, TakeKeepsOnce DEF Placed
<1>4. ASSUME NEW w \in Workers, RunTask(w) PROVE Placed'
    <2>1. cpc' = cpc
        BY <1>4 DEF RunTask
    <2> QED
        BY <1>2, <1>4, <2>1, RunLeaves, RunKeepsOnce DEF Placed
<1>5. ASSUME \A c \in Callers : ~Submit(c),
             \A w \in Workers : ~TakeTask(w) /\ ~RunTask(w)
      PROVE  Placed'
    <2>1. /\ \A t : Left(t)' <=> Left(t)
          /\ tasks' = tasks
          /\ \A w \in Workers : \A t : InHand(w, t)' <=> InHand(w, t)
          /\ \A w \in Workers :
                wpc'[w] = "run" => wpc[w] = "run" /\ job'[w] = job[w]
        BY <1>5, RestLeaves
    <2>2. Once' /\ Held'
        BY <2>1 DEF Placed, Once, Held
    <2>3. ASSUME NEW c \in Callers, cpc'[c] = "idle"
          PROVE  cpc[c] = "idle" \/ pending = 0
        BY <1>5, <2>3 DEF Next, Gone, vars, Caller, NotifyWorkers, RunReturns,
            RunBlocks, Worker, FindNoTask, Park, Exit, FinishTask, Destroyer,
            RequestStop, StopCallback, DestroyNotify, Join, SpuriousWake, Types
    <2> QED
        BY <1>2, <2>1, <2>2, <2>3 DEF Placed
<1> QED
    BY <1>1, <1>3, <1>4, <1>5

THEOREM PlacedInvariance == Spec => [](Types /\ PendingExact /\ Placed)
BY InitTypes, InitExact, InitPlaced, NextTypes, NextExact, NextPlaced, PTL
DEF Spec

-----------------------------------------------------------------------------
(* ThreadPool implements ForkJoin.                                         *)

InRun == {c \in Callers : cpc[c] # "idle"}

LEMMA InitIsForkInit == Init => Promise!ForkInit
<1> SUFFICES ASSUME Init PROVE Promise!ForkInit
    OBVIOUS
<1>1. \A t : ~Left(t)
    <2>1. Len(tasks) = 0 /\ \A w \in Workers : wpc[w] = "lock"
        BY DEF Init
    <2> QED
        BY <2>1 DEF Left, InHand
<1>2. \A c \in Callers : Outstanding(c) = {}
    BY <1>1, OutstandingLeft
<1> QED
    BY <1>2 DEF Init, Promise!ForkInit

LEMMA OutstandingLater ==
    \A c : Outstanding(c)' = {k \in 1 .. MaxTasks : Left(<<c, k>>)'}
BY DEF Outstanding, Left, InHand

LEMMA SubmitIsCall ==
    ASSUME Types, Placed, NEW c \in Callers, Submit(c) PROVE Promise!Call(c)
<1>1. PICK n \in 1 .. MaxTasks : tasks' = tasks \o [k \in 1 .. n |-> <<c, k>>]
    BY DEF Submit
<1>2. cpc[c] = "idle" /\ cpc' = [cpc EXCEPT ![c] = "notify"]
    BY DEF Submit
<1>3. \A t : Left(t)' <=> Left(t) \/ \E k \in 1 .. n : t = <<c, k>>
    BY <1>1, SubmitLeaves
<1>4. Outstanding(c)' = 1 .. n
    <2>1. Outstanding(c) = {}
        BY <1>2 DEF Placed, IdleHasNone
    <2>2. \A k \in 1 .. MaxTasks : ~Left(<<c, k>>)
        BY <2>1, OutstandingLeft
    <2>3. 1 .. n \subseteq 1 .. MaxTasks
        BY PoolAssumption
    <2> QED
        BY <1>3, <2>2, <2>3, OutstandingLater
<1>5. ASSUME NEW d \in Callers, d # c PROVE Outstanding(d)' = Outstanding(d)
    BY <1>3, <1>5, OutstandingLeft, OutstandingLater
<1>6. [d \in Callers |-> Outstanding(d)]' =
            [[d \in Callers |-> Outstanding(d)] EXCEPT ![c] = 1 .. n]
    BY <1>4, <1>5
<1>7. InRun' = InRun \cup {c} /\ c \notin InRun
    BY <1>2 DEF InRun, Types
<1> QED
    BY <1>6, <1>7 DEF Promise!Call, InRun

LEMMA RunIsExecute ==
    ASSUME Types, Placed, NEW w \in Workers, RunTask(w)
    PROVE  \E c \in Callers : Promise!Execute(c)
<1>1. /\ \A t : Left(t)' <=> Left(t) /\ t # job[w]
      /\ Left(job[w])
    BY RunLeaves DEF Placed
<1>2. job[w] \in Task /\ cpc' = cpc
    BY DEF RunTask, Placed, Held
<1>3. PICK c \in Callers, k \in 1 .. MaxTasks : job[w] = <<c, k>>
    BY <1>2 DEF Task
<1>4. k \in Outstanding(c) /\ Outstanding(c)' = Outstanding(c) \ {k}
    <2>1. \A j : Left(<<c, j>>)' <=> Left(<<c, j>>) /\ j # k
        BY <1>1, <1>3
    <2>2. Left(<<c, k>>)
        BY <1>1, <1>3
    <2> QED
        BY <2>1, <2>2, OutstandingLeft, OutstandingLater
<1>5. ASSUME NEW d \in Callers, d # c PROVE Outstanding(d)' = Outstanding(d)
    <2>1. \A j : Left(<<d, j>>)' <=> Left(<<d, j>>)
        BY <1>1, <1>3, <1>5
    <2> QED
        BY <2>1, OutstandingLeft, OutstandingLater
<1>6. [d \in Callers |-> Outstanding(d)]' =
            [[d \in Callers |-> Outstanding(d)] EXCEPT ![c] = @ \ {k}]
    BY <1>4, <1>5
<1>7. Promise!Execute(c)
    BY <1>2, <1>4, <1>6 DEF Promise!Execute
<1> QED
    BY <1>7

LEMMA ReturnsIsReturn ==
    ASSUME Types, PendingExact, NEW c \in Callers, RunReturns(c)
    PROVE  Promise!Return(c)
<1>1. /\ pending = 0 /\ cpc[c] = "wait" /\ cpc' = [cpc EXCEPT ![c] = "idle"]
      /\ UNCHANGED <<tasks, wpc, job>>
    BY DEF RunReturns, workVars
<1>2. Outstanding(c) = {}
    BY <1>1, NothingPending, OutstandingLeft
<1>3. [d \in Callers |-> Outstanding(d)]' = [d \in Callers |-> Outstanding(d)]
    BY <1>1 DEF Outstanding
<1>4. InRun' = InRun \ {c} /\ c \in InRun
    BY <1>1 DEF InRun, Types
<1> QED
    BY <1>2, <1>3, <1>4 DEF Promise!Return, InRun

(* A step that leaves the same callers inside and the same tasks left.     *)
LEMMA NotSeen ==
    ASSUME \A t : Left(t)' <=> Left(t), InRun' = InRun
    PROVE  UNCHANGED Promise!forkVars
<1>1. \A c \in Callers : Outstanding(c)' = Outstanding(c)
    BY OutstandingLeft, OutstandingLater
<1> QED
    BY <1>1 DEF Promise!forkVars, InRun

LEMMA NextIsForkNext ==
    Types /\ PendingExact /\ Placed /\ [Next]_vars
        => [Promise!ForkNext]_(Promise!forkVars)
<1> SUFFICES ASSUME Types, PendingExact, Placed, [Next]_vars
             PROVE  [Promise!ForkNext]_(Promise!forkVars)
    OBVIOUS
<1>1. ASSUME NEW c \in Callers, Submit(c)
      PROVE  [Promise!ForkNext]_(Promise!forkVars)
    BY <1>1, SubmitIsCall DEF Promise!ForkNext
<1>2. ASSUME NEW c \in Callers, RunReturns(c)
      PROVE  [Promise!ForkNext]_(Promise!forkVars)
    BY <1>2, ReturnsIsReturn DEF Promise!ForkNext
<1>3. ASSUME NEW w \in Workers, RunTask(w)
      PROVE  [Promise!ForkNext]_(Promise!forkVars)
    BY <1>3, RunIsExecute DEF Promise!ForkNext
<1>4. ASSUME NEW w \in Workers, TakeTask(w)
      PROVE  [Promise!ForkNext]_(Promise!forkVars)
    <2>1. InRun' = InRun
        BY <1>4 DEF TakeTask, InRun
    <2> QED
        BY <1>4, <2>1, TakeLeaves, NotSeen
<1>5. ASSUME \A c \in Callers : ~Submit(c) /\ ~RunReturns(c),
             \A w \in Workers : ~TakeTask(w) /\ ~RunTask(w)
      PROVE  [Promise!ForkNext]_(Promise!forkVars)
    <2>1. \A t : Left(t)' <=> Left(t)
        BY <1>5, RestLeaves
    <2>2. \A c \in Callers : cpc'[c] = "idle" <=> cpc[c] = "idle"
        BY <1>5 DEF Next, Gone, vars, Caller, NotifyWorkers, RunBlocks, Worker,
            FindNoTask, Park, Exit, FinishTask, Destroyer, RequestStop,
            StopCallback, DestroyNotify, Join, SpuriousWake, Types
    <2>3. InRun' = InRun
        BY <2>2 DEF InRun
    <2> QED
        BY <2>1, <2>3, NotSeen
<1> QED
    BY <1>1, <1>2, <1>3, <1>4, <1>5

(* Each caller of a shared pool gets its fork and join: its tasks are      *)
(* executed once each, and when its run() returns none of them is queued   *)
(* or running (threadpool.hpp:42, threadpool.cpp:39-58).                   *)
THEOREM Refinement == Spec => IsForkJoin
BY InitIsForkInit, NextIsForkNext, PlacedInvariance, PTL
DEF Spec, IsForkJoin, Promise!ForkSpec
=============================================================================
