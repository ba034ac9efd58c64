\* Nine files of up to five rows; queries on three of them, with up to two
\* predicates, on one thread or four.
CONSTANTS
    PosInf = PosInf
    NegInf = NegInf
    NaN = NaN
    One = 120
    IntOf <- Ints
    DblOf <- Dbls
    Chomp <- Chomped
    Schema <- GNX
    Files <- AllFiles
    Asked <- Queried
    Limits = {0, 1}
    BatchRows = 2
    Wheres <- Predicates
    MaxPreds = 2
    Groupings <- Keys
    ThreadArgs = {4}
    Aggs <- Measures
    PrintLimit = 1
SPECIFICATION Spec
INVARIANTS
    LoadTypeOK ColumnsSound BulkIsFile NothingLeaks CleanFilesAgree
    QueryTypeOK AnswerIsAggregate FrontEndsSurvive TopPrinted
PROPERTIES
    CodesStay
