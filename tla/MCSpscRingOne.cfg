\* The capacity a caller may ask for that leaves no room at all.
CONSTANTS
    v1 = v1
    v2 = v2
    Moved = Moved
    Values <- MCValues
    RequestedCapacity = 1
SPECIFICATION FairSpec
PROPERTY FullIsMomentary
