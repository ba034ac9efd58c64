------------------------------- MODULE Loader -------------------------------
(***************************************************************************)
(* The two ways a delimited file becomes a Table: the bulk loader          *)
(* Table::from_csv with its MappedFile (src/parser.cpp), and cmd_stream's  *)
(* producer (apps/strata_cli.cpp) with StreamingTable::apply_batch         *)
(* (src/memtable.cpp), one after the other on the same file.               *)
(*                                                                         *)
(* A line is a sequence of fields; the blank line is <<"">>.  The last     *)
(* field of a line may end in a carriage return, which Chomp takes off.    *)
(* How insert() batches lines is the subject of StreamingTable; here a     *)
(* batch is any run of up to BatchRows lines.                              *)
(***************************************************************************)
EXTENDS Columns

CONSTANTS
    Files,      \* the files, sequences of lines
    Schema,     \* a sequence of [name, type]
    Limits,     \* LoadOptions::max_rows and --limit, 0 for none
    BatchRows,  \* bound: rows in a batch
    Chomp       \* token -> the token without a final carriage return

ASSUME LoaderAssumption ==
    /\ \A lines \in Files : lines \in Seq(Seq(Tokens) \ {<<>>})
    /\ Schema \in Seq([name : Tokens, type : Types])
    /\ Limits \subseteq Nat /\ BatchRows \in Nat \ {0}
    /\ Chomp \in [Tokens -> Tokens]

VARIABLES
    file, hasHeader, limit,
    lpc,        \* where from_csv is
    fd, mapped, \* MappedFile: fd_, and whether data_ is a mapping
    at,         \* lines read
    targets,    \* field -> position of the column it feeds, 0 to skip it
    row,
    bulk,       \* the table from_csv builds
    sent,       \* lines the producer read
    streamed    \* the table of the StreamingTable

fileVars == <<file, hasHeader, limit>>
bulkVars == <<lpc, fd, mapped, at, targets, row, bulk>>
streamVars == <<sent, streamed>>
loadVars == <<fileVars, bulkVars, streamVars>>

LoadInit ==
    /\ file \in Files /\ hasHeader \in BOOLEAN /\ limit \in Limits
    /\ lpc = "open" /\ fd = "none" /\ mapped = FALSE
    /\ at = 0 /\ targets = <<>> /\ row = 0 /\ bulk = EmptyTable(<<>>)
    /\ sent = 0 /\ streamed = EmptyTable(Schema)

-----------------------------------------------------------------------------
(* MappedFile.  Its constructor closes what it opened before it throws;    *)
(* its destructor runs when from_csv returns or throws.                    *)

Open ==
    /\ lpc = "open"
    /\ \/ lpc' = "stat" /\ fd' = "open"
       \/ lpc' = "failed" /\ UNCHANGED fd
    /\ UNCHANGED <<mapped, at, targets, row, bulk>>

Stat ==
    /\ lpc = "stat"
    /\ \/ lpc' = "map" /\ UNCHANGED fd
       \/ lpc' = "failed" /\ fd' = "closed"
    /\ UNCHANGED <<mapped, at, targets, row, bulk>>

MutantMap ==
    /\ lpc = "map"
    /\ \/ lpc' = "header" /\ mapped' = (file # <<>>) /\ UNCHANGED fd
       \/ file # <<>> /\ lpc' = "failed" /\ UNCHANGED <<fd, mapped>>
    /\ UNCHANGED <<at, targets, row, bulk>>

(* An empty file is not mapped.                                            *)
Map ==
    /\ lpc = "map"
    /\ \/ lpc' = "header" /\ mapped' = (file # <<>>) /\ UNCHANGED fd
       \/ file # <<>> /\ lpc' = "failed" /\ fd' = "closed" /\ UNCHANGED mapped
    /\ UNCHANGED <<at, targets, row, bulk>>

Unmap == mapped' = FALSE /\ fd' = "closed"

-----------------------------------------------------------------------------
(* Table::from_csv.                                                        *)

(* next_line(): tolerates CRLF.                                            *)
NextLine(line) == [line EXCEPT ![Len(line)] = Chomp[@]]

InSchema(name) == Named(Schema, name) # {}

MutantHeaderTargets(header) ==
    [f \in DOMAIN header |-> IF InSchema(header[f]) THEN f ELSE 0]

(* The fields the schema knows: the k-th feeds column k, which has its     *)
(* name.                                                                   *)
Known(header) == {f \in DOMAIN header : InSchema(header[f])}

HeaderTargets(header) ==
    [f \in DOMAIN header |-> IF f \in Known(header) THEN Rank(Known(header), f) ELSE 0]

HeaderColumns(header) ==
    [c \in 1 .. Cardinality(Known(header)) |->
        LET name == header[Nth(Known(header), c)]
        IN  [name |-> name, type |-> TypeIn(Schema, name)]]

ReadHeader ==
    /\ lpc = "header"
    /\ IF hasHeader /\ file = <<>>
       THEN lpc' = "done" /\ Unmap /\ UNCHANGED <<at, targets, row, bulk>>
       ELSE /\ lpc' = "body"
            /\ IF hasHeader
               THEN LET header == NextLine(file[1])
                    IN  /\ at' = 1
                        /\ targets' = HeaderTargets(header)
                        /\ bulk' = EmptyTable(HeaderColumns(header))
               ELSE /\ at' = 0
                    /\ targets' = [f \in DOMAIN Schema |-> f]
                    /\ bulk' = EmptyTable(Schema)
            /\ UNCHANGED <<fd, mapped, row>>

MutantFeed(columns, line, fieldOf) ==
    [c \in DOMAIN columns |->
        IF fieldOf[c] \in DOMAIN line
        THEN AppendParsed(columns[c], line[fieldOf[c]]) ELSE columns[c]]

(* One line goes to the columns: column c takes field fieldOf[c], or the   *)
(* default if the line is too short; surplus fields are stepped over.      *)
Feed(columns, line, fieldOf) ==
    [c \in DOMAIN columns |->
        AppendParsed(columns[c],
                     IF fieldOf[c] \in DOMAIN line THEN line[fieldOf[c]] ELSE "")]

MutantFieldOf == [c \in DOMAIN bulk.cols |-> c]

FieldOf ==
    [c \in DOMAIN bulk.cols |-> CHOOSE f \in DOMAIN targets : targets[f] = c]

(* Blank lines are skipped; the limit ends the loop.                       *)
BodyLine ==
    /\ lpc = "body" /\ at < Len(file)
    /\ at' = at + 1
    /\ LET line == NextLine(file[at'])
       IN  IF line = <<"">>
           THEN UNCHANGED <<lpc, row, bulk>>
           ELSE /\ bulk' = [bulk EXCEPT !.cols = Feed(@, line, FieldOf)]
                /\ row' = row + 1
                /\ lpc' = IF row' = limit THEN "end" ELSE "body"
    /\ UNCHANGED <<fd, mapped, targets>>

FinishLoad ==
    /\ lpc = "end" \/ (lpc = "body" /\ at = Len(file))
    /\ bulk' = [bulk EXCEPT !.rows = row]
    /\ lpc' = "done" /\ Unmap
    /\ UNCHANGED <<at, targets, row>>

(* A vector cannot grow: the exception leaves from_csv.                    *)
OutOfMemory ==
    /\ lpc \in {"header", "body"}
    /\ lpc' = "failed" /\ Unmap
    /\ UNCHANGED <<at, targets, row, bulk>>

FromCsv ==
    /\ Open \/ Stat \/ Map \/ ReadHeader \/ BodyLine \/ FinishLoad \/ OutOfMemory
    /\ UNCHANGED <<fileVars, streamVars>>

-----------------------------------------------------------------------------
(* cmd_stream's producer and apply_batch().                                *)

MutantInserted ==
    IF limit = 0 THEN file ELSE SubSeq(file, 1, Sets!Min({limit, Len(file)}))

(* What std::getline delivers after the header, up to --limit lines.       *)
Inserted ==
    LET body == IF file = <<>> THEN <<>> ELSE Tail(file)
    IN  IF limit = 0 THEN body ELSE SubSeq(body, 1, Sets!Min({limit, Len(body)}))

(* apply_batch(): a row per line, positional, no blank lines and no        *)
(* carriage returns considered.                                            *)
ApplyBatch ==
    /\ lpc \in {"done", "failed"}
    /\ \E k \in 1 .. BatchRows :
        /\ sent + k <= Len(Inserted)
        /\ sent' = sent + k
        /\ LET appended[n \in 0 .. k] ==
                IF n = 0 THEN streamed.cols
                ELSE Feed(appended[n - 1], Inserted[sent + n],
                          [c \in DOMAIN streamed.cols |-> c])
           IN  streamed' = [cols |-> appended[k], rows |-> streamed.rows + k]
    /\ UNCHANGED <<fileVars, bulkVars>>

Loaded == lpc \in {"done", "failed"} /\ sent = Len(Inserted)

LoadNext == FromCsv \/ ApplyBatch

-----------------------------------------------------------------------------
(* Properties.                                                             *)

LoadTypeOK ==
    /\ lpc \in {"open", "stat", "map", "header", "body", "end", "done", "failed"}
    /\ fd \in {"none", "open", "closed"} /\ mapped \in BOOLEAN
    /\ at \in 0 .. Len(file) /\ row \in 0 .. at
    /\ \A f \in DOMAIN targets : targets[f] \in 0 .. Len(bulk.cols)
    /\ sent \in 0 .. Len(Inserted) /\ streamed.rows = sent

(* After every line, however ragged, every column has one entry per row    *)
(* (column.hpp:70) and its codes are exactly those of its dictionary.      *)
ColumnsSound ==
    /\ lpc # "failed" => Sound([bulk EXCEPT !.rows = row])
    /\ Sound(streamed)

(* Text of field p of a line, and what a column shows for it.              *)
Text(line, p) == IF p \in DOMAIN line THEN line[p] ELSE ""
Value(type, text) ==
    CASE type = "Int64" -> IntOf[text]
      [] type = "Float64" -> DblOf[text]
      [] type = "Dict" -> text

(* The lines from_csv is meant to keep, and the names of their fields.     *)
KeptAt ==
    {i \in DOMAIN file : (hasHeader => i > 1) /\ NextLine(file[i]) # <<"">>}
KeptLines ==
    LET all == Cardinality(KeptAt)
    IN  [r \in 1 .. IF limit = 0 THEN all ELSE Sets!Min({limit, all}) |->
            NextLine(file[Nth(KeptAt, r)])]
FieldNames ==
    IF ~hasHeader THEN [f \in DOMAIN Schema |-> Schema[f].name]
    ELSE IF file = <<>> THEN <<>> ELSE NextLine(file[1])

(* The table is the file: a row per line that is not blank, and under each *)
(* name of the schema what the field of that name says, whatever the order *)
(* of the fields and whatever else the file has (schema.hpp:3-8).          *)
BulkIsFile ==
    lpc = "done" =>
        /\ bulk.rows = Len(KeptLines)
        /\ \A name \in {Schema[i].name : i \in DOMAIN Schema} :
            LET fields == {f \in DOMAIN FieldNames : FieldNames[f] = name}
            IN  /\ HasColumn(bulk, name) <=> fields # {}
                /\ fields # {} => \A r \in 1 .. bulk.rows :
                    Shown(ColumnOf(bulk, name), r) =
                        Value(TypeIn(Schema, name), Text(KeptLines[r], Sets!Max(fields)))

(* Ingest only appends: an entry, and the string behind a code, stay what  *)
(* they are ("stable int32 code", dictionary.hpp:41), which is what the    *)
(* executor and the decoded results of earlier queries rely on.            *)
Grows(t, u) ==
    \A c \in DOMAIN t.cols :
        /\ Seqs!IsPrefix(t.cols[c].data, u.cols[c].data)
        /\ Seqs!IsPrefix(t.cols[c].dict, u.cols[c].dict)

CodesStay == [][Grows(bulk, bulk') /\ Grows(streamed, streamed')]_loadVars

(* However loading ends, the descriptor is closed and the mapping gone,    *)
(* and lines are read only while it is there.                              *)
NothingLeaks ==
    /\ lpc \in {"done", "failed"} => fd # "open" /\ ~mapped
    /\ lpc \in {"header", "body"} /\ file # <<>> => mapped /\ fd = "open"

(* All the rows of both tables.                                            *)
SameTables ==
    /\ streamed.rows = bulk.rows
    /\ TableHead(streamed, streamed.rows) = TableHead(bulk, bulk.rows)

(* Nothing in the file that only one of the loaders looks at; and no name  *)
(* twice in the schema, of which from_csv would give both columns the type *)
(* of the last.                                                            *)
Clean ==
    /\ \A i, j \in DOMAIN Schema : Schema[i].name = Schema[j].name => i = j
    /\ file # <<>> /\ hasHeader
    /\ file[1] = [f \in DOMAIN Schema |-> Schema[f].name]
    /\ \A i \in DOMAIN file : file[i] # <<"">> /\ NextLine(file[i]) = file[i]

(* Streaming a clean file, in whatever batches, gives the table that       *)
(* loading it gives: ragged lines, strange numbers and limits included.    *)
CleanFilesAgree == Loaded /\ lpc = "done" /\ Clean => SameTables

(* "A query during/after ingest sees the same answers as the bulk path"    *)
(* (tests/test_strata.cpp:188): all that is asked of the file is that it   *)
(* has every column of the schema.                                         *)
SameAnswers ==
    Loaded /\ lpc = "done" /\ hasHeader
        /\ {Schema[i].name : i \in DOMAIN Schema} = Seqs!ToSet(FieldNames)
        => /\ streamed.rows = bulk.rows
           /\ \A c \in Seqs!ToSet(streamed.cols) : \A r \in 1 .. bulk.rows :
                Shown(ColumnOf(bulk, c.name), r) = Shown(ColumnOf(streamed, c.name), r)
=============================================================================
