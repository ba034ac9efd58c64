----------------------------- MODULE ThreadPool -----------------------------
(***************************************************************************)
(* ThreadPool of include/strata/threadpool.hpp and src/threadpool.cpp: the *)
(* workers, the threads that call run(), which share one queue and one     *)
(* count of pending tasks, and the thread that destroys the pool.          *)
(*                                                                         *)
(* A critical section of m_ is one step.  The exception is a worker's      *)
(* wait(lk, st, pred) on cv_task_: it evaluates pred holding m_, and the   *)
(* library then tests the stop token in one step with blocking; the stop   *)
(* request itself is made without m_.                                      *)
(***************************************************************************)
EXTENDS Naturals, Sequences, FiniteSets

CONSTANTS
    NThreads,   \* constructor argument
    Callers,    \* threads that call run()
    MaxTasks    \* bound: tasks in one call

ASSUME PoolAssumption == NThreads \in Nat /\ MaxTasks \in Nat

VARIABLES
    tasks,      \* tasks_; the k-th task of caller c's call is <<c, k>>
    pending,    \* pending_
    m,          \* m_: 0 or the worker that keeps it across steps
    wpc, job,   \* worker -> where it is, the task it took
    cpc,        \* caller -> where it is
    idleWorkers,\* workers blocked on cv_task_
    doneWaiters,\* callers blocked on cv_done_
    stopped,    \* workers whose stop token is set
    dpc         \* the destructor

workVars == <<wpc, job>>
vars == <<tasks, pending, m, wpc, job, cpc, idleWorkers, doneWaiters,
          stopped, dpc>>

-----------------------------------------------------------------------------

(* if (nthreads == 0) nthreads = 1                                         *)
Workers == 1 .. (IF NThreads = 0 THEN 1 ELSE NThreads)

NoTask == <<>>

Init ==
    /\ tasks = <<>> /\ pending = 0 /\ m = 0
    /\ wpc = [w \in Workers |-> "lock"]
    /\ job = [w \in Workers |-> NoTask]
    /\ cpc = [c \in Callers |-> "idle"]
    /\ idleWorkers = {} /\ doneWaiters = {}
    /\ stopped = {} /\ dpc = "alive"

-----------------------------------------------------------------------------
(* run(); a call without tasks returns at once and changes nothing.        *)

MutantSubmit(c) ==
    /\ cpc[c] = "idle" /\ dpc = "alive"
    /\ m = 0
    /\ \E n \in 1 .. MaxTasks :
            /\ pending' = n
            /\ tasks' = tasks \o [k \in 1 .. n |-> <<c, k>>]
    /\ cpc' = [cpc EXCEPT ![c] = "notify"]
    /\ UNCHANGED <<m, workVars, idleWorkers, doneWaiters, stopped, dpc>>

Submit(c) ==
    /\ cpc[c] = "idle" /\ dpc = "alive"
    /\ m = 0
    /\ \E n \in 1 .. MaxTasks :
            /\ pending' = pending + n
            /\ tasks' = tasks \o [k \in 1 .. n |-> <<c, k>>]
    /\ cpc' = [cpc EXCEPT ![c] = "notify"]
    /\ UNCHANGED <<m, workVars, idleWorkers, doneWaiters, stopped, dpc>>

MutantNotifyWorkers(c) ==
    /\ cpc[c] = "notify"
    /\ cpc' = [cpc EXCEPT ![c] = "wait"]
    /\ UNCHANGED <<tasks, pending, m, workVars, idleWorkers, doneWaiters,
                   stopped, dpc>>

(* cv_task_.notify_all()                                                   *)
NotifyWorkers(c) ==
    /\ cpc[c] = "notify"
    /\ idleWorkers' = {}
    /\ cpc' = [cpc EXCEPT ![c] = "wait"]
    /\ UNCHANGED <<tasks, pending, m, workVars, doneWaiters, stopped, dpc>>

MutantRunReturns(c) ==
    /\ cpc[c] = "wait" /\ c \notin doneWaiters
    /\ m = 0
    /\ cpc' = [cpc EXCEPT ![c] = "idle"]
    /\ UNCHANGED <<tasks, pending, m, workVars, idleWorkers, doneWaiters,
                   stopped, dpc>>

(* cv_done_.wait finds pending_ == 0, at once or after being woken.        *)
RunReturns(c) ==
    /\ cpc[c] = "wait" /\ c \notin doneWaiters
    /\ m = 0
    /\ pending = 0
    /\ cpc' = [cpc EXCEPT ![c] = "idle"]
    /\ UNCHANGED <<tasks, pending, m, workVars, idleWorkers, doneWaiters,
                   stopped, dpc>>

RunBlocks(c) ==
    /\ cpc[c] = "wait" /\ c \notin doneWaiters
    /\ m = 0
    /\ pending # 0
    /\ doneWaiters' = doneWaiters \cup {c}
    /\ UNCHANGED <<tasks, pending, m, workVars, cpc, idleWorkers, stopped, dpc>>

Caller(c) == Submit(c) \/ NotifyWorkers(c) \/ RunReturns(c) \/ RunBlocks(c)

-----------------------------------------------------------------------------
(* worker_loop()                                                           *)

(* The worker holds m_ and its predicate holds: it takes a task, also when *)
(* a stop is requested.                                                    *)
TakeTask(w) ==
    /\ wpc[w] = "lock" /\ w \notin idleWorkers
    /\ m = 0
    /\ tasks # <<>>
    /\ job' = [job EXCEPT ![w] = Head(tasks)]
    /\ tasks' = Tail(tasks)
    /\ wpc' = [wpc EXCEPT ![w] = "run"]
    /\ UNCHANGED <<pending, m, cpc, idleWorkers, doneWaiters, stopped, dpc>>

MutantFindNoTask(w) ==
    /\ wpc[w] = "lock" /\ w \notin idleWorkers
    /\ m = 0
    /\ tasks = <<>>
    /\ wpc' = [wpc EXCEPT ![w] = "park"]
    /\ UNCHANGED <<tasks, pending, m, job, cpc, idleWorkers, doneWaiters,
                   stopped, dpc>>

(* The predicate fails; the worker still holds m_.                         *)
FindNoTask(w) ==
    /\ wpc[w] = "lock" /\ w \notin idleWorkers
    /\ m = 0
    /\ tasks = <<>>
    /\ m' = w
    /\ wpc' = [wpc EXCEPT ![w] = "park"]
    /\ UNCHANGED <<tasks, pending, job, cpc, idleWorkers, doneWaiters,
                   stopped, dpc>>

MutantPark(w) ==
    /\ wpc[w] = "park"
    /\ m' = 0
    /\ idleWorkers' = idleWorkers \cup {w}
    /\ wpc' = [wpc EXCEPT ![w] = "lock"]
    /\ UNCHANGED <<tasks, pending, job, cpc, doneWaiters, stopped, dpc>>

(* wait blocks and releases m_.                                            *)
Park(w) ==
    /\ wpc[w] = "park"
    /\ w \notin stopped
    /\ m' = 0
    /\ idleWorkers' = idleWorkers \cup {w}
    /\ wpc' = [wpc EXCEPT ![w] = "lock"]
    /\ UNCHANGED <<tasks, pending, job, cpc, doneWaiters, stopped, dpc>>

(* wait sees the stop request and returns; the queue is empty, so does the *)
(* worker.                                                                 *)
Exit(w) ==
    /\ wpc[w] = "park"
    /\ w \in stopped
    /\ m' = 0
    /\ wpc' = [wpc EXCEPT ![w] = "gone"]
    /\ UNCHANGED <<tasks, pending, job, cpc, idleWorkers, doneWaiters,
                   stopped, dpc>>

MutantRunTask(w) ==
    /\ wpc[w] = "run"
    /\ pending' = pending - 1
    /\ wpc' = [wpc EXCEPT ![w] = "finish"]
    /\ UNCHANGED <<tasks, m, job, cpc, idleWorkers, doneWaiters, stopped, dpc>>

(* job()                                                                   *)
RunTask(w) ==
    /\ wpc[w] = "run"
    /\ wpc' = [wpc EXCEPT ![w] = "finish"]
    /\ UNCHANGED <<tasks, pending, m, job, cpc, idleWorkers, doneWaiters,
                   stopped, dpc>>

MutantFinishTask(w) ==
    /\ wpc[w] = "finish"
    /\ m = 0
    /\ pending' = pending - 1
    /\ wpc' = [wpc EXCEPT ![w] = "lock"]
    /\ job' = [job EXCEPT ![w] = NoTask]
    /\ UNCHANGED <<tasks, m, cpc, idleWorkers, doneWaiters, stopped, dpc>>

(* if (--pending_ == 0) cv_done_.notify_all(), all under m_.               *)
FinishTask(w) ==
    /\ wpc[w] = "finish"
    /\ m = 0
    /\ pending' = pending - 1
    /\ doneWaiters' = IF pending' = 0 THEN {} ELSE doneWaiters
    /\ wpc' = [wpc EXCEPT ![w] = "lock"]
    /\ job' = [job EXCEPT ![w] = NoTask]
    /\ UNCHANGED <<tasks, m, cpc, idleWorkers, stopped, dpc>>

Worker(w) ==
    \/ TakeTask(w) \/ FindNoTask(w) \/ Park(w) \/ Exit(w)
    \/ RunTask(w) \/ FinishTask(w)

-----------------------------------------------------------------------------
(* ~ThreadPool(), after the last run() has returned.                       *)

(* request_stop() on the next worker's token: the flag, ...                *)
RequestStop(w) ==
    /\ dpc \in {"alive", "stopping"}
    /\ \A c \in Callers : cpc[c] = "idle"
    /\ stopped = 1 .. w - 1
    /\ stopped' = stopped \cup {w}
    /\ dpc' = "callback"
    /\ UNCHANGED <<tasks, pending, m, workVars, cpc, idleWorkers, doneWaiters>>

(* ... then the callback that a blocked worker has registered with it.     *)
StopCallback ==
    /\ dpc = "callback"
    /\ idleWorkers' =
            IF Cardinality(stopped) \in idleWorkers THEN {} ELSE idleWorkers
    /\ dpc' = IF stopped = Workers THEN "notify" ELSE "stopping"
    /\ UNCHANGED <<tasks, pending, m, workVars, cpc, doneWaiters, stopped>>

DestroyNotify ==
    /\ dpc = "notify"
    /\ idleWorkers' = {}
    /\ dpc' = "join"
    /\ UNCHANGED <<tasks, pending, m, workVars, cpc, doneWaiters, stopped>>

Join ==
    /\ dpc = "join"
    /\ \A w \in Workers : wpc[w] = "gone"
    /\ dpc' = "gone"
    /\ UNCHANGED <<tasks, pending, m, workVars, cpc, idleWorkers,
                   doneWaiters, stopped>>

Destroyer ==
    \/ \E w \in Workers : RequestStop(w)
    \/ StopCallback \/ DestroyNotify \/ Join

(* The pool is gone; nothing is left to do.                                *)
Gone == dpc = "gone" /\ UNCHANGED vars

(* A wait may return without a notify.                                     *)
SpuriousWake ==
    /\ \/ /\ \E w \in idleWorkers : idleWorkers' = idleWorkers \ {w}
          /\ UNCHANGED doneWaiters
       \/ /\ \E c \in doneWaiters : doneWaiters' = doneWaiters \ {c}
          /\ UNCHANGED idleWorkers
    /\ UNCHANGED <<tasks, pending, m, workVars, cpc, stopped, dpc>>

Next ==
    \/ \E c \in Callers : Caller(c)
    \/ \E w \in Workers : Worker(w)
    \/ Destroyer
    \/ Gone
    \/ SpuriousWake

Spec == Init /\ [][Next]_vars

(* Threads that can go on do; a thread waiting for m_ or a woken waiter    *)
(* gets m_ when it is free again and again.  Nobody has to call run().     *)
FairSpec ==
    /\ Spec
    /\ \A c \in Callers :
        /\ WF_vars(NotifyWorkers(c))
        /\ SF_vars(RunReturns(c) \/ RunBlocks(c))
    /\ \A w \in Workers :
        /\ WF_vars(Park(w) \/ Exit(w) \/ RunTask(w))
        /\ SF_vars(TakeTask(w) \/ FindNoTask(w))
        /\ SF_vars(FinishTask(w))
    /\ WF_vars(Destroyer /\ dpc # "alive")

-----------------------------------------------------------------------------
(* Properties.                                                             *)

Task == Callers \X (1 .. MaxTasks)

TypeOK ==
    /\ tasks \in Seq(Task)
    /\ pending \in Nat
    /\ m \in Workers \cup {0}
    /\ wpc \in [Workers -> {"lock", "park", "run", "finish", "gone"}]
    /\ job \in [Workers -> Task \cup {NoTask}]
    /\ cpc \in [Callers -> {"idle", "notify", "wait"}]
    /\ idleWorkers \subseteq Workers
    /\ doneWaiters \subseteq Callers
    /\ stopped \subseteq Workers
    /\ dpc \in {"alive", "callback", "stopping", "notify", "join", "gone"}

Busy == {w \in Workers : wpc[w] \in {"run", "finish"}}

(* pending_ counts exactly the tasks that are queued or in a worker's      *)
(* hands, whichever callers they come from: the count that run() waits on  *)
(* can neither reach zero early nor miss it.                               *)
PendingExact == pending = Len(tasks) + Cardinality(Busy)

(* The m_ discipline across wait(): a worker between its predicate and     *)
(* blocking holds m_, so nobody queues a task behind its back; and a       *)
(* blocked thread whose predicate holds has a notify on its way: a worker  *)
(* from the owner of the task, a caller never waits with nothing pending,  *)
(* a worker told to stop from the destructor.                              *)
NoLostWakeup ==
    /\ \A i \in 1 .. Len(tasks) :
            idleWorkers # {} => cpc[tasks[i][1]] = "notify"
    /\ doneWaiters # {} => pending # 0
    /\ idleWorkers \cap stopped # {} => dpc = "callback"

(* Each caller gets the fork and join it was promised, however the calls   *)
(* of several callers are mixed (refinement of ForkJoin): in particular no *)
(* task of a caller is queued or running once its run() has returned, when *)
(* the locals the task refers to are gone.                                 *)
Outstanding(c) ==
    {k \in 1 .. MaxTasks :
        \/ \E i \in 1 .. Len(tasks) : tasks[i] = <<c, k>>
        \/ \E w \in Workers : wpc[w] = "run" /\ job[w] = <<c, k>>}

Promise == INSTANCE ForkJoin WITH
            inRun <- {c \in Callers : cpc[c] # "idle"},
            todo <- [c \in Callers |-> Outstanding(c)]

IsForkJoin == Promise!ForkSpec

(* Every task is executed: no queued task is left while all workers sleep. *)
EveryTaskRuns ==
    \A c \in Callers : cpc[c] = "notify" ~> Outstanding(c) = {}

(* run() returns once its tasks are executed, unless another caller hands  *)
(* the pool new tasks in the meantime: whichever worker finishes last, the *)
(* notify on cv_done_ reaches every caller that waits.                     *)
RunEndsUndisturbed ==
    \A c \in Callers :
        cpc[c] = "notify" ~>
            \/ cpc[c] = "idle"
            \/ \E other \in Callers \ {c} : cpc[other] = "notify"

(* run() blocks until every task has run (threadpool.hpp:42), and no       *)
(* longer, whatever other callers of the pool do.                          *)
RunEnds == \A c \in Callers : cpc[c] = "notify" ~> cpc[c] = "idle"

(* Destruction ends: each worker notices its stop request and is joined.   *)
DestructionEnds == stopped # {} ~> dpc = "gone"
=============================================================================
