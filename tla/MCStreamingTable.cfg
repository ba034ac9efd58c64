\* Two batches fit the ring; five rows fill it and leave one row buffered.
\* Two readers, so that shared locks overlap.
CONSTANTS
    r1 = r1
    r2 = r2
    Readers <- TwoReaders
    FlushThreshold = 2
    QueueCapacity = 3
    MaxRows = 5
SYMMETRY ReaderSymmetry
SPECIFICATION Spec
INVARIANTS TypeOK QBounded NothingLost NoLostWakeup
INVARIANTS CountersFollow QueriesSeeWholeBatches
PROPERTIES SyncMeansVisible IsIngestLog StableUnderQuery
