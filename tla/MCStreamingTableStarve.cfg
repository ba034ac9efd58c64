\* Two readers whose shared locks overlap for ever.
CONSTANTS
    r1 = r1
    r2 = r2
    Readers <- TwoReaders
    FlushThreshold = 2
    QueueCapacity = 2
    MaxRows = 2
SPECIFICATION FairSpec
PROPERTY CallsReturn
