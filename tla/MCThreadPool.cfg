\* Two callers, more tasks in a call than workers, calls repeated at will.
CONSTANTS
    c1 = c1
    c2 = c2
    Callers <- TwoCallers
    NThreads = 2
    MaxTasks = 3
SPECIFICATION FairSpec
INVARIANTS TypeOK PendingExact NoLostWakeup
PROPERTIES IsForkJoin EveryTaskRuns RunEndsUndisturbed DestructionEnds
