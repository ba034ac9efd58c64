\* Up to twelve rows on up to seven threads: every remainder of n modulo P,
\* and n below, at and above P.
CONSTANTS
    MaxRows = 12
    MaxThreads = 7
SPECIFICATION Spec
INVARIANTS TypeOK RangesTile EachRowOnce LoopsBuildRanges
