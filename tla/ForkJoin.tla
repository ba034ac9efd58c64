------------------------------ MODULE ForkJoin ------------------------------
(***************************************************************************)
(* What ThreadPool::run() (include/strata/threadpool.hpp) promises each of *)
(* its callers: the tasks it is given are executed once each, in any       *)
(* order, and run() returns after all of them.  The tasks capture the      *)
(* caller's locals by reference, so returning earlier, or executing a task *)
(* later, would use objects that are gone.                                 *)
(***************************************************************************)
EXTENDS Naturals

CONSTANTS
    Callers,    \* threads that call run()
    MaxTasks    \* bound: tasks in one call

VARIABLES
    inRun,      \* callers inside run()
    todo        \* caller -> numbers of its tasks not executed yet

forkVars == <<inRun, todo>>

ForkInit ==
    /\ inRun = {}
    /\ todo = [c \in Callers |-> {}]

Call(c) ==
    /\ c \notin inRun
    /\ inRun' = inRun \cup {c}
    /\ \E n \in 1 .. MaxTasks : todo' = [todo EXCEPT ![c] = 1 .. n]

Execute(c) ==
    /\ \E k \in todo[c] : todo' = [todo EXCEPT ![c] = @ \ {k}]
    /\ UNCHANGED inRun

Return(c) ==
    /\ c \in inRun
    /\ todo[c] = {}
    /\ inRun' = inRun \ {c}
    /\ UNCHANGED todo

ForkNext == \E c \in Callers : Call(c) \/ Execute(c) \/ Return(c)

ForkSpec == ForkInit /\ [][ForkNext]_forkVars
=============================================================================
