\* One query of Python, without predicates: its result is handed out, then
\* sorted.
CONSTANTS
    PosInf = PosInf
    NegInf = NegInf
    NaN = NaN
    One = 120
    IntOf <- Ints
    DblOf <- Dbls
    Chomp <- Chomped
    Schema <- GNX
    Files <- Queried
    Asked <- Queried
    Limits = {0}
    BatchRows = 2
    Wheres = {}
    MaxPreds = 0
    Groupings <- Keys
    ThreadArgs = {4}
    Aggs <- Measures
    PrintLimit = 1
SPECIFICATION Spec
INVARIANT ViewsViewResult
