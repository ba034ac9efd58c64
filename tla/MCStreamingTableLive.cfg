\* One batch fills the ring; the third row is flushed while it may be full.
CONSTANTS
    r1 = r1
    r2 = r2
    Readers <- OneReader
    FlushThreshold = 2
    QueueCapacity = 2
    MaxRows = 3
SPECIFICATION FairSpec
PROPERTIES CallsReturn DestructionEnds HandedOffIsShown
