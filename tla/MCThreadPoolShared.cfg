\* Two callers of one shared pool.
CONSTANTS
    c1 = c1
    c2 = c2
    Callers <- TwoCallers
    NThreads = 2
    MaxTasks = 1
SPECIFICATION FairSpec
PROPERTY RunEnds
