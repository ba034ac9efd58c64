\* Four slots: room for three batches, so the indices wrap with a batch
\* popped, one visible and one not.
CONSTANTS
    v1 = v1
    v2 = v2
    Moved = Moved
    Values <- MCValues
    RequestedCapacity = 4
SPECIFICATION FairSpec
INVARIANTS TypeOK RingOrder NoDataRace NoEmptyBatch
PROPERTIES IsBatchQueue Delivered FullIsMomentary
