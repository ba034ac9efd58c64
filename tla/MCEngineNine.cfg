\* One file of nine equal rows and a query for an extreme on eight threads.
CONSTANTS
    PosInf = PosInf
    NegInf = NegInf
    NaN = NaN
    One = 120
    IntOf <- Ints
    DblOf <- Dbls
    Chomp <- Chomped
    Schema <- GNX
    Files <- NineRows
    Asked <- NineRows
    Limits = {0}
    BatchRows = 2
    Wheres = {}
    MaxPreds = 2
    Groupings = {}
    ThreadArgs = {8}
    Aggs <- Extremes
    PrintLimit = 1
SPECIFICATION Spec
INVARIANT
    ThreadsAgree
