\* Nine files of up to five rows, loaded both ways, and no queries.
CONSTANTS
    PosInf = PosInf
    NegInf = NegInf
    NaN = NaN
    One = 120
    IntOf <- Ints
    DblOf <- Dbls
    Chomp <- Chomped
    Schema <- GNX
    Files <- AllFiles
    Asked = {}
    Limits = {0}
    BatchRows = 2
    Wheres = {}
    MaxPreds = 0
    Groupings <- Keys
    ThreadArgs = {4}
    Aggs <- Measures
    PrintLimit = 1
SPECIFICATION Spec
INVARIANT SameAnswers
