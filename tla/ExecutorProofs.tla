--------------------------- MODULE ExecutorProofs ---------------------------
(***************************************************************************)
(* Theorems about the queries of Engine, for every table a file can be     *)
(* loaded into, every query and any number of threads.                     *)
(***************************************************************************)
EXTENDS LoaderProofs

-----------------------------------------------------------------------------
(* Queries.  A name a front end has let through is a column of the table   *)
(* for as long as the query lives, and a task only exists for rows.        *)

Predicates == {Predicate(w, isStr) : w \in Wheres, isStr \in BOOLEAN}

NamesChecked ==
    /\ preds \in Seq(Predicates) /\ via \in {"cpp", "cli", "python"}
    /\ table.rows \in Nat
    /\ qpc = "idle" => preds = <<>>
    /\ via # "cpp" => \A j \in DOMAIN preds : HasColumn(table, preds[j].column)
    /\ qpc = "mask" => todo \subseteq DOMAIN FilterTasks

SurviveInv == NamesChecked /\ FrontEndsSurvive

LEMMA PredsGrow ==
    ASSUME NamesChecked, NEW w \in Wheres, NEW isStr \in BOOLEAN,
           preds' = Append(preds, Predicate(w, isStr)), table' = table
    PROVE  /\ preds' \in Seq(Predicates)
           /\ (/\ HasColumn(table, w.col)
               /\ \A j \in DOMAIN preds : HasColumn(table, preds[j].column))
                => \A j \in DOMAIN preds' : HasColumn(table', preds'[j].column)
<1> DEFINE p == Predicate(w, isStr)
<1>1. p \in Predicates /\ preds \in Seq(Predicates)
    BY DEF Predicates, NamesChecked
<1>2. p.column = w.col
    BY DEF Predicate
<1> HIDE DEF p
<1>3. preds' = Append(preds, p)
    BY DEF p
<1>4. preds' \in Seq(Predicates)
    BY <1>1, <1>3
<1>5. /\ DOMAIN preds' = DOMAIN preds \cup {Len(preds) + 1}
      /\ \A j \in DOMAIN preds : preds'[j] = preds[j]
      /\ preds'[Len(preds) + 1] = p
    BY <1>1, <1>3
<1> QED
    BY <1>2, <1>4, <1>5

LEMMA BuildChecks == NamesChecked /\ Build => NamesChecked'
<1> SUFFICES ASSUME NamesChecked, Build PROVE NamesChecked'
    OBVIOUS
<1>1. table' = table /\ via' = via /\ qpc = "build"
    BY DEF Build, Filter, CliWhere, PyFilter, GroupBy, Threads
<1>2. qpc' \in {"build", "threw"}
    BY <1>1 DEF Build, Filter, CliWhere, PyFilter, GroupBy, Threads
<1>3. ASSUME preds' = preds PROVE NamesChecked'
    BY <1>1, <1>2, <1>3 DEF NamesChecked, HasColumn, Named
<1>4. ASSUME NEW w \in Wheres, NEW isStr \in BOOLEAN,
             preds' = Append(preds, Predicate(w, isStr)),
             via = "cpp" \/ HasColumn(table, w.col)
      PROVE  NamesChecked'
    <2>1. /\ preds' \in Seq(Predicates)
          /\ (/\ HasColumn(table, w.col)
              /\ \A j \in DOMAIN preds : HasColumn(table, preds[j].column))
               => \A j \in DOMAIN preds' : HasColumn(table', preds'[j].column)
        BY <1>1, <1>4, PredsGrow
    <2> QED
        BY <1>1, <1>2, <1>4, <2>1 DEF NamesChecked
<1>5. CASE Filter
    <2>1. PICK w \in Wheres, isStr \in BOOLEAN :
            preds' = Append(preds, Predicate(w, isStr))
        BY <1>5 DEF Filter
    <2>2. via = "cpp"
        BY <1>5 DEF Filter
    <2> QED
        BY <1>4, <2>1, <2>2
<1>6. CASE CliWhere
    <2>1. PICK w \in Wheres :
            IF HasColumn(table, w.col)
            THEN preds' = Append(preds, Predicate(w, IsDict(w.col))) /\ UNCHANGED qpc
            ELSE qpc' = "threw" /\ UNCHANGED preds
        BY <1>6 DEF CliWhere
    <2>2. IsDict(w.col) \in BOOLEAN
        BY DEF IsDict
    <2> QED
        BY <1>3, <1>4, <2>1, <2>2
<1>7. CASE PyFilter
    <2>1. PICK w \in Wheres :
            IF HasColumn(table, w.col) /\ (IsDict(w.col) \/ w.isNum)
            THEN preds' = Append(preds, Predicate(w, IsDict(w.col))) /\ UNCHANGED qpc
            ELSE qpc' = "threw" /\ UNCHANGED preds
        BY <1>7 DEF PyFilter
    <2>2. IsDict(w.col) \in BOOLEAN
        BY DEF IsDict
    <2> QED
        BY <1>3, <1>4, <2>1, <2>2
<1>8. CASE GroupBy \/ Threads
    <2>1. preds' = preds
        BY <1>8 DEF GroupBy, Threads
    <2> QED
        BY <1>3, <2>1
<1> QED
    BY <1>5, <1>6, <1>7, <1>8 DEF Build

(* While tasks run nothing that they are cut from changes.                 *)
LEMMA RunChecks ==
    NamesChecked /\ UNCHANGED built /\ qpc' # "idle"
        /\ (qpc' = "mask" => todo' \subseteq DOMAIN FilterTasks)
        => NamesChecked'
<1> SUFFICES ASSUME NamesChecked, UNCHANGED built, qpc' # "idle",
                    qpc' = "mask" => todo' \subseteq DOMAIN FilterTasks
             PROVE  NamesChecked'
    OBVIOUS
<1>1. table' = table /\ via' = via /\ preds' = preds /\ threads' = threads
    BY DEF built
<1>2. FilterTasks' = FilterTasks
    BY <1>1 DEF FilterTasks, Pooled, Partitions, NumRows
<1> QED
    BY <1>1, <1>2 DEF NamesChecked, HasColumn, Named

(* A call of agg() ends the process only if a column is missing, there is  *)
(* a pool and a task for it to run.                                        *)
LEMMA TaskEnds ==
    ASSUME NamesChecked, NEW t \in todo, FilterTask(t), qpc' = "terminated"
    PROVE  /\ via = "cpp" /\ Pooled /\ NumRows > 0
           /\ \E j \in DOMAIN preds : ~HasColumn(table, preds[j].column)
<1>1. qpc = "mask"
    BY DEF FilterTask
<1>2. /\ ~\A j \in DOMAIN preds : HasColumn(table, preds[j].column)
      /\ Pooled
    BY <1>1 DEF FilterTask
<1>3. via = "cpp"
    BY <1>2 DEF NamesChecked
<1>4. NumRows # 0
    <2> SUFFICES ASSUME NumRows = 0 PROVE FALSE
        OBVIOUS
    <2>1. FilterTasks = <<>>
        BY <1>2 DEF FilterTasks, ForRanges
    <2>2. t \in DOMAIN FilterTasks
        BY <1>1 DEF NamesChecked
    <2> QED
        BY <2>1, <2>2
<1>5. NumRows > 0
    BY <1>4 DEF NumRows, NamesChecked
<1> QED
    BY <1>2, <1>3, <1>5

LEMMA QueryChecks == SurviveInv /\ QueryNext => SurviveInv'
<1> SUFFICES ASSUME SurviveInv, QueryNext PROVE SurviveInv'
    OBVIOUS
<1>1. NamesChecked
    BY DEF SurviveInv
<1>2. CASE Build
    <2>1. qpc' # "terminated"
        BY <1>2 DEF Build, Filter, CliWhere, PyFilter, GroupBy, Threads
    <2> QED
        BY <1>1, <1>2, <2>1, BuildChecks DEF SurviveInv, FrontEndsSurvive
<1>3. ASSUME UNCHANGED built, qpc' \notin {"idle", "terminated"},
             qpc' = "mask" => todo' \subseteq DOMAIN FilterTasks
      PROVE  SurviveInv'
    BY <1>1, <1>3, RunChecks DEF SurviveInv, FrontEndsSurvive
<1>4. CASE Start
    <2>1. /\ UNCHANGED built /\ qpc' \in {"mask", "threw"}
          /\ todo' \subseteq DOMAIN FilterTasks
        BY <1>4 DEF Start
    <2> QED
        BY <1>3, <2>1
<1>5. CASE StartReduce
    <2>1. UNCHANGED built /\ qpc' \in {"reduce", "threw"}
        BY <1>5 DEF StartReduce
    <2> QED
        BY <1>3, <2>1
<1>6. CASE Emit
    <2>1. UNCHANGED built /\ qpc' = "done"
        BY <1>6 DEF Emit
    <2> QED
        BY <1>3, <2>1
<1>7. ASSUME NEW t \in todo, FilterTask(t) PROVE SurviveInv'
    <2>1. UNCHANGED built /\ qpc = "mask" /\ qpc' \in {"mask", "threw", "terminated"}
        BY <1>7 DEF FilterTask
    <2>2. qpc' = "mask" => todo' \subseteq DOMAIN FilterTasks
        <3>1. qpc' = "mask" => todo' \subseteq todo
            BY <1>7 DEF FilterTask
        <3> QED
            BY <1>1, <2>1, <3>1 DEF NamesChecked
    <2>3. NamesChecked'
        BY <1>1, <2>1, <2>2, RunChecks
    <2>4. CASE qpc' = "terminated"
        <3>1. /\ via = "cpp" /\ Pooled /\ NumRows > 0
              /\ \E j \in DOMAIN preds : ~HasColumn(table, preds[j].column)
            BY <1>1, <1>7, <2>4, TaskEnds
        <3>2. FrontEndsSurvive'
            BY <2>1, <3>1 DEF FrontEndsSurvive, Pooled, NumRows, HasColumn, Named, built
        <3> QED
            BY <2>3, <3>2 DEF SurviveInv
    <2> QED
        BY <2>3, <2>4 DEF SurviveInv, FrontEndsSurvive
<1>8. ASSUME NEW t \in todo, ReduceTask(t) PROVE SurviveInv'
    <2>1. UNCHANGED built /\ qpc' = "reduce"
        BY <1>8 DEF ReduceTask
    <2> QED
        BY <1>3, <2>1
<1>9. CASE Sort \/ HandOut \/ CliPrint
    <2>1. UNCHANGED built /\ qpc' \in {"done", "sorted", "printed"}
        BY <1>9 DEF Sort, HandOut, CliPrint
    <2> QED
        BY <1>3, <2>1
<1> QED
    BY <1>2, <1>4, <1>5, <1>6, <1>7, <1>8, <1>9 DEF QueryNext, Run

LEMMA AskChecks == LoadInv /\ SurviveInv /\ AskTable => SurviveInv'
<1> SUFFICES ASSUME LoadInv, SurviveInv, AskTable PROVE SurviveInv'
    OBVIOUS
<1>1. PICK t \in {bulk, streamed}, how \in {"cpp", "cli", "python"} : Ask(t, how)
    BY DEF AskTable
<1>2. /\ qpc = "idle" /\ qpc' = "build" /\ table' = t /\ via' = how
      /\ preds' = preds
    BY <1>1 DEF Ask
<1>3. t.rows \in Nat
    <2>1. row \in Nat /\ sent \in Nat /\ streamed.rows = sent
        BY LinesAreTokens, InsertedAreLines DEF LoadInv, Progress
    <2>2. bulk.rows \in {row, 0}
        BY DEF LoadInv, Tables
    <2> QED
        BY <2>1, <2>2
<1>4. preds = <<>>
    BY <1>2 DEF SurviveInv, NamesChecked
<1>5. NamesChecked'
    BY <1>2, <1>3, <1>4 DEF SurviveInv, NamesChecked
<1> QED
    BY <1>2, <1>5 DEF SurviveInv, FrontEndsSurvive

LEMMA QueryUnchanged == SurviveInv /\ UNCHANGED queryVars => SurviveInv'
BY DEF SurviveInv, NamesChecked, FrontEndsSurvive, queryVars, built, running,
       HasColumn, Named, FilterTasks, Pooled, Partitions, NumRows

THEOREM SurviveInvariant == Spec => []SurviveInv
<1>1. Init => SurviveInv
    <2> SUFFICES ASSUME Init PROVE SurviveInv
        OBVIOUS
    <2>1. preds = <<>> /\ via = "cpp" /\ qpc = "idle" /\ table = EmptyTable(<<>>)
        BY DEF Init, QueryInit
    <2>2. table.rows = 0
        BY <2>1 DEF EmptyTable
    <2> QED
        BY <2>1, <2>2 DEF SurviveInv, NamesChecked, FrontEndsSurvive
<1>2. LoadInv /\ SurviveInv /\ [Next]_vars => SurviveInv'
    <2> SUFFICES ASSUME LoadInv, SurviveInv, [Next]_vars PROVE SurviveInv'
        OBVIOUS
    <2>1. \/ AskTable \/ QueryNext \/ UNCHANGED queryVars
        BY Zenon DEF Next, Load, Query, Finished, vars
    <2> QED
        BY <2>1, AskChecks, QueryChecks, QueryUnchanged
<1> QED
    BY <1>1, <1>2, LoadInvariant, PTL DEF Spec

(* A query of the command line or of Python never ends the process: the    *)
(* only one that does is built by C++ calls, on a pool, over rows, with a  *)
(* predicate on a column the table does not have.                          *)
THEOREM ProcessSurvives == Spec => []FrontEndsSurvive
BY SurviveInvariant, PTL DEF SurviveInv

-----------------------------------------------------------------------------
(* The ranges of the tasks.                                                *)

LEMMA ProductType ==
    ASSUME NEW i \in Nat, NEW c \in Nat
    PROVE  i * c \in Nat /\ (i + 1) * c = i * c + c
OBVIOUS

LEMMA ProductGrows ==
    ASSUME NEW i \in Nat, NEW j \in Nat, NEW c \in Nat, i <= j
    PROVE  i * c <= j * c
<1>1. j * c = i * c + (j - i) * c
    OBVIOUS
<1>2. (j - i) * c \in Nat /\ i * c \in Nat /\ j * c \in Nat
    <2>1. j - i \in Nat
        OBVIOUS
    <2> QED
        BY <2>1
<1> QED
    BY <1>1, <1>2

(* Rounding up.                                                            *)
LEMMA Ceiling ==
    ASSUME NEW rows \in Nat, NEW parts \in Nat, parts >= 1
    PROVE  LET c == (rows + parts - 1) \div parts
           IN  /\ c \in Nat
               /\ parts * c >= rows
               /\ rows >= 1 => c >= 1
<1> DEFINE a == rows + parts - 1
           c == a \div parts
<1>1. a \in Nat
    OBVIOUS
<1> HIDE DEF a
<1>2. c \in Nat /\ a < parts * c + parts
    BY <1>1
<1> HIDE DEF c
<1>3. parts * c \in Nat
    BY <1>2
<1>4. parts * c >= rows
    BY <1>2, <1>3 DEF a
<1>5. c = 0 => parts * c = 0
    BY <1>2
<1> QED
    BY <1>2, <1>4, <1>5 DEF c, a

(* Of the chunks of a table some have rows: at least one, no more than     *)
(* there are partitions, and enough to reach the last row.                 *)
LEMMA ChunkFacts ==
    ASSUME NEW rows \in Nat, rows >= 1, NEW parts \in Nat, parts >= 1
    PROVE  LET c == ChunkSize(rows, parts)
               k == (rows + c - 1) \div c
           IN  /\ c \in Nat /\ c >= 1 /\ parts * c >= rows
               /\ k \in Nat /\ k >= 1 /\ k <= parts /\ k * c >= rows
<1> DEFINE c == ChunkSize(rows, parts)
           k == (rows + c - 1) \div c
<1>1. c \in Nat /\ c >= 1 /\ parts * c >= rows
    BY Ceiling DEF ChunkSize
<1> HIDE DEF c
<1>2. k \in Nat /\ k >= 1
    BY <1>1, Ceiling
<1>3. k * c >= rows
    <2>1. c * k >= rows
        BY <1>1, Ceiling
    <2>2. c * k = k * c
        BY <1>1, <1>2
    <2> QED
        BY <2>1, <2>2
<1>4. k * c <= rows + c - 1
    <2> DEFINE a == rows + c - 1
    <2>1. a \in Nat
        BY <1>1
    <2> HIDE DEF a
    <2>2. (a \div c) * c <= a
        BY <1>1, <2>1
    <2> QED
        BY <2>2 DEF a
<1> HIDE DEF k
<1>5. k <= parts
    <2> SUFFICES ASSUME parts + 1 <= k PROVE FALSE
        BY <1>2
    <2>1. (parts + 1) * c <= k * c /\ (parts + 1) * c = parts * c + c
        BY <1>1, <1>2, ProductGrows, ProductType
    <2>2. parts * c \in Nat /\ k * c \in Nat
        BY <1>1, <1>2, ProductType
    <2> QED
        BY <1>1, <1>4, <2>1, <2>2
<1> QED
    BY <1>1, <1>2, <1>3, <1>5 DEF c, k

(* How many tasks there are.                                               *)
LEMMA TaskCount ==
    ASSUME NumRows \in Nat, threads \in Nat
    PROVE  /\ \E k \in Nat : DOMAIN ReduceTasks = 1 .. k /\ k >= 1
           /\ DOMAIN FilterTasks \subseteq 1 .. Smaller(NumRows, threads) \cup {1}
           /\ DOMAIN ReduceTasks \subseteq 1 .. Smaller(NumRows, threads) \cup {1}
<1>1. CASE ~Pooled
    <2>1. DOMAIN FilterTasks = 1 .. 1 /\ DOMAIN ReduceTasks = 1 .. 1
        BY <1>1 DEF FilterTasks, ReduceTasks
    <2> QED
        BY <2>1
<1>2. CASE Pooled /\ NumRows = 0
    <2>1. FilterTasks = <<>> /\ ReduceTasks = << <<0, 0>> >>
        BY <1>2 DEF FilterTasks, ReduceTasks, ForRanges, MapRanges
    <2>2. DOMAIN FilterTasks = {} /\ DOMAIN ReduceTasks = 1 .. 1
        BY <2>1
    <2> QED
        BY <2>2
<1>3. CASE Pooled /\ NumRows # 0
    <2> DEFINE parts == Partitions
               c == ChunkSize(NumRows, parts)
               k == (NumRows + c - 1) \div c
    <2>1. /\ threads >= 1 /\ NumRows >= 1
          /\ parts = Smaller(NumRows, threads) /\ parts \in Nat /\ parts >= 1
        BY <1>3 DEF Pooled, Partitions, Parts, Smaller
    <2> HIDE DEF parts
    <2>2. k \in Nat /\ k <= parts
        BY <2>1, ChunkFacts
    <2>3. DOMAIN FilterTasks = 1 .. k
        BY <1>3 DEF FilterTasks, ForRanges, parts
    <2>4. DOMAIN ReduceTasks = 1 .. parts
        BY <1>3 DEF ReduceTasks, MapRanges, parts
    <2> HIDE DEF k, c
    <2> QED
        BY <2>1, <2>2, <2>3, <2>4
<1> QED
    BY <1>1, <1>2, <1>3

-----------------------------------------------------------------------------
(* The run of a query: tasks, mask, slots and result.                      *)

TypedTable(t) ==
    /\ t.rows \in Nat /\ SoundColumns(t.cols, t.rows)
    /\ \A c \in DOMAIN t.cols : \A r \in 1 .. t.rows :
        /\ t.cols[c].type = "Int64" => t.cols[c].data[r] \in Int
        /\ t.cols[c].type = "Float64" => t.cols[c].data[r] \in Doubles

(* What the query was built from.                                          *)
BuiltWell ==
    /\ Len(preds) <= MaxPreds /\ threads \in ThreadArgs \cup {1}
    /\ TypedTable(table) /\ group.bucket \in Int /\ (qpc = "idle" => ~Grouped)
    /\ Grouped /\ HasColumn(table, group.col) /\ GroupColumn.type = "Float64"
        => \A r \in Rows : Finite(GroupColumn.data[r])
    /\ agg \in {"Count", "Sum", "Avg", "Min", "Max"}
    /\ qpc \in {"mask", "reduce"} \/ Answered =>
        agg = "Count" \/ (HasColumn(table, metric) /\ ~IsDict(metric))

(* Whether a row passes all predicates.                                    *)
Bit(i) == IF \A j \in DOMAIN preds : Holds(preds[j], i) THEN 1 ELSE 0

PredsKnown == \A j \in DOMAIN preds : HasColumn(table, preds[j].column)

(* The mask is right for the rows of the tasks that have run.              *)
Masked ==
    /\ qpc \in {"mask", "reduce"} =>
        mask \in IF preds = <<>> THEN {<<>>} ELSE [Rows -> {0, 1}]
    /\ qpc = "mask" => todo \subseteq (IF preds = <<>> THEN {} ELSE DOMAIN FilterTasks)
    /\ qpc = "mask" /\ preds # <<>> =>
        \A t \in DOMAIN FilterTasks \ todo :
            PredsKnown /\ \A i \in RowsOf(FilterTasks[t]) : mask[i] = Bit(i)
    /\ qpc = "reduce" /\ preds # <<>> =>
        \A i \in Rows : PredsKnown /\ mask[i] = Bit(i)

(* What a reduce task computes.                                            *)
Part(t) ==
    IF Grouped THEN ReduceGroup(ReduceTasks[t]) ELSE <<ReduceGlobal(ReduceTasks[t])>>

Reduced ==
    /\ qpc = "reduce" =>
        /\ DOMAIN slots = DOMAIN ReduceTasks /\ todo \subseteq DOMAIN slots
        /\ slots = [t \in DOMAIN slots |-> slots[t]]
        /\ \A t \in DOMAIN slots \ todo : slots[t] = Part(t)
        /\ Grouped => HasColumn(table, group.col)
    /\ qpc \notin {"mask", "reduce"} => mask = <<>> /\ todo = {}

(* The vectors of the result.                                              *)
Vector(v, n) == v = [j \in 1 .. n |-> v[j]]

Vectors ==
    /\ qpc \in Pcs
    /\ ~Answered => result = NoResult /\ sorts = 0 /\ views = {}
    /\ Answered => \E K \in Nat :
        /\ Vector(result.values, K) /\ Vector(result.counts, K)
        /\ Vector(result.keys, IF Grouped THEN K ELSE 0)
        /\ Vector(result.nums, IF Grouped THEN K ELSE 0)
        /\ ~Grouped => K = 1
        /\ result = [keys |-> result.keys, nums |-> result.nums,
                     counts |-> result.counts, values |-> result.values,
                     grouped |-> Grouped]
    /\ sorts \in {0, 1} /\ views \subseteq 0 .. sorts
    /\ qpc = "done" => sorts = 0
    /\ qpc = "sorted" \/ (qpc = "printed" /\ Grouped) => Descending(result.values)

RunInv == BuiltWell /\ Masked /\ Reduced /\ Vectors

(* While a query runs, what its tasks are cut from and what they compute   *)
(* on a row stays.                                                         *)
LEMMA RunsOn ==
    ASSUME UNCHANGED built
    PROVE  /\ NumRows' = NumRows /\ Rows' = Rows /\ Grouped' = Grouped
           /\ FilterTasks' = FilterTasks /\ ReduceTasks' = ReduceTasks
           /\ GroupColumn' = GroupColumn /\ PredsKnown' = PredsKnown
           /\ \A i : Bit(i)' = Bit(i)
<1>1. /\ table' = table /\ via' = via /\ preds' = preds /\ group' = group
      /\ threads' = threads
    BY DEF built
<1>2. NumRows' = NumRows /\ Rows' = Rows /\ Grouped' = Grouped
    BY <1>1 DEF NumRows, Rows, Grouped
<1>3. FilterTasks' = FilterTasks /\ ReduceTasks' = ReduceTasks
    BY <1>1 DEF FilterTasks, ReduceTasks, Pooled, Partitions, NumRows
<1>4. GroupColumn' = GroupColumn /\ PredsKnown' = PredsKnown
    BY <1>1 DEF GroupColumn, PredsKnown
<1>5. ASSUME NEW i PROVE Bit(i)' = Bit(i)
    BY <1>1, Zenon DEF Bit, Holds
<1> QED
    BY <1>2, <1>3, <1>4, <1>5

LEMMA PartStays ==
    ASSUME UNCHANGED <<built, agg, metric, mask>>
    PROVE  \A t : Part(t)' = Part(t)
<1>1. /\ table' = table /\ via' = via /\ preds' = preds /\ group' = group
      /\ threads' = threads /\ agg' = agg /\ metric' = metric /\ mask' = mask
    BY DEF built
<1>2. Grouped' = Grouped /\ ReduceTasks' = ReduceTasks /\ ByCode' = ByCode
    BY <1>1 DEF Grouped, ReduceTasks, Pooled, Partitions, NumRows, ByCode, GroupColumn
<1>3. ASSUME NEW S PROVE Kept(S)' = Kept(S) /\ Measure(S)' = Measure(S)
    BY <1>1, Zenon DEF Kept, Measure
<1>4. ASSUME NEW i PROVE RawKey(i)' = RawKey(i) /\ KeyOf(i)' = KeyOf(i)
    BY <1>1, Zenon DEF RawKey, KeyOf, GroupColumn, ByCode
<1>5. GroupKeys' = GroupKeys
    <2>1. Rows' = Rows /\ ByCode' = ByCode /\ GroupColumn' = GroupColumn
        BY <1>1, <1>2 DEF Rows, NumRows, GroupColumn
    <2> DEFINE first == {i \in Rows : \A j \in Rows : j < i => RawKey(j) # RawKey(i)}
    <2>2. first' = first
        BY <1>4, <2>1, Zenon
    <2>3. [g \in 1 .. Cardinality(first) |-> RawKey(Nth(first, g))]'
            = [g \in 1 .. Cardinality(first) |-> RawKey(Nth(first, g))]
        BY <1>4, <2>2, Zenon
    <2> QED
        BY <2>1, <2>3, Zenon DEF GroupKeys
<1>6. ASSUME NEW c, NEW S, NEW term
      PROVE  Accumulate(c, S, term)' = Accumulate(c, S, term)
    BY <1>1, Zenon DEF Accumulate
<1>7. ASSUME NEW range PROVE ReduceGlobal(range)' = ReduceGlobal(range)
    BY <1>1, Zenon DEF ReduceGlobal, Accumulate, Kept, Measure, RowsOf
<1>8. ASSUME NEW range PROVE ReduceGroup(range)' = ReduceGroup(range)
    BY <1>3, <1>4, <1>5, <1>6, Zenon DEF ReduceGroup, RowsOf
<1> QED
    BY <1>2, <1>7, <1>8, Zenon DEF Part

(* A table whose columns show tokens has entries of the types they say.    *)
LEMMA ShownIsTyped ==
    ASSUME NEW columns, NEW n \in Nat, SoundColumns(columns, n), NEW lines, NEW fieldOf,
           \A r \in 1 .. n : lines[r] \in Seq(Tokens), Shows(columns, n, lines, fieldOf)
    PROVE  TypedTable([cols |-> columns, rows |-> n])
<1> DEFINE t == [cols |-> columns, rows |-> n]
<1>1. t.cols = columns /\ t.rows = n
    OBVIOUS
<1> HIDE DEF t
<1>2. ASSUME NEW c \in DOMAIN columns, NEW r \in 1 .. n
      PROVE  /\ columns[c].type = "Int64" => columns[c].data[r] \in Int
             /\ columns[c].type = "Float64" => columns[c].data[r] \in Doubles
    <2> DEFINE text == Text(lines[r], fieldOf[c])
    <2>1. text \in Tokens
        BY TextIsToken
    <2>2. Shown(columns[c], r) = Value(columns[c].type, text)
        BY DEF Shows
    <2> HIDE DEF text
    <2>3. IntOf[text] \in Int /\ DblOf[text] \in Doubles
        BY <2>1, ExecutorAssumption
    <2>4. columns[c].type = "Int64" => columns[c].data[r] = IntOf[text]
        BY <2>2 DEF Shown, Value
    <2>5. columns[c].type = "Float64" => columns[c].data[r] = DblOf[text]
        BY <2>2 DEF Shown, Value
    <2> QED
        BY <2>3, <2>4, <2>5
<1>3. TypedTable(t)
    BY <1>1, <1>2 DEF TypedTable
<1> QED
    BY <1>3 DEF t

LEMMA AskedIsTyped ==
    ASSUME LoadInv, TextInv, AskTable
    PROVE  TypedTable(table')
<1>1. PICK t \in {bulk, streamed}, how \in {"cpp", "cli", "python"} : Ask(t, how)
    BY DEF AskTable
<1>2. table' = t
    BY <1>1 DEF Ask
<1>3. lpc = "done" /\ row \in Nat /\ sent \in Nat /\ Place
    <2>1. lpc = "done"
        BY DEF AskTable
    <2>2. Len(file) \in Nat /\ Len(Inserted) \in Nat /\ Place
        BY LinesAreTokens, InsertedAreLines DEF LoadInv
    <2> QED
        BY <2>1, <2>2 DEF LoadInv, Progress
<1>4. CASE t = bulk
    <2>1. bulk = [cols |-> bulk.cols, rows |-> row] /\ SoundColumns(bulk.cols, row)
        BY <1>3 DEF LoadInv, Tables
    <2>2. row = Rank(KeptAt, at) /\ Shows(bulk.cols, row, ReadLines, Fields)
        BY <1>3 DEF TextInv, BulkSays
    <2>3. \A r \in 1 .. row : ReadLines[r] \in Seq(Tokens)
        <3>1. /\ KeptAt \subseteq 1 .. Len(file) /\ Len(file) \in Nat
              /\ DOMAIN ReadLines = 1 .. Cardinality(KeptAt) /\ Cardinality(KeptAt) \in Nat
              /\ \A r \in DOMAIN ReadLines : ReadLines[r] \in Seq(Tokens)
            BY <1>3, KeptAreLines
        <3>2. Rank(KeptAt, at) \in 0 .. Cardinality(KeptAt)
            BY <3>1, RankType
        <3> QED
            BY <1>3, <2>2, <3>1, <3>2
    <2>4. TypedTable([cols |-> bulk.cols, rows |-> row])
        BY <1>3, <2>1, <2>2, <2>3, ShownIsTyped
    <2> QED
        BY <1>2, <1>4, <2>1, <2>4
<1>5. CASE t = streamed
    <2>1. streamed = [cols |-> streamed.cols, rows |-> sent] /\ SoundColumns(streamed.cols, sent)
        BY DEF LoadInv, Tables, Progress
    <2>2. Shows(streamed.cols, sent, Inserted, [c \in DOMAIN Schema |-> c])
        BY DEF TextInv, StreamSays
    <2>3. \A r \in 1 .. sent : Inserted[r] \in Seq(Tokens)
        <3>1. /\ Len(Inserted) \in Nat
              /\ \A i \in 1 .. Len(Inserted) : Inserted[i] \in Seq(Tokens)
            BY <1>3, InsertedAreLines
        <3>2. sent <= Len(Inserted)
            BY <1>3, <3>1 DEF LoadInv, Progress
        <3> QED
            BY <1>3, <3>1, <3>2
    <2>4. TypedTable([cols |-> streamed.cols, rows |-> sent])
        BY <1>3, <2>1, <2>2, <2>3, ShownIsTyped
    <2> QED
        BY <1>2, <1>5, <2>1, <2>4
<1> QED
    BY <1>4, <1>5

(* A column found by its name.                                             *)
LEMMA FoundColumn ==
    ASSUME NEW t, TypedTable(t), NEW name, HasColumn(t, name)
    PROVE  /\ ColumnOf(t, name) \in ColumnRecords
           /\ SoundColumn(ColumnOf(t, name), t.rows)
           /\ \A r \in 1 .. t.rows :
               /\ ColumnOf(t, name).type = "Int64" => ColumnOf(t, name).data[r] \in Int
               /\ ColumnOf(t, name).type = "Float64" => ColumnOf(t, name).data[r] \in Doubles
<1> DEFINE last == Sets!Max(Named(t.cols, name))
<1>1. t.cols \in Seq(ColumnRecords) /\ Len(t.cols) \in Nat /\ DOMAIN t.cols = 1 .. Len(t.cols)
    BY DEF TypedTable, SoundColumns
<1>2. Named(t.cols, name) \subseteq 1 .. Len(t.cols) /\ Named(t.cols, name) # {}
    BY <1>1 DEF Named, HasColumn
<1>3. last \in Named(t.cols, name)
    BY <1>1, <1>2, LastPosition
<1> HIDE DEF last
<1>4. last \in DOMAIN t.cols
    BY <1>1, <1>2, <1>3
<1>5. ColumnOf(t, name) = t.cols[last]
    BY DEF ColumnOf, last
<1>6. t.cols[last] \in ColumnRecords /\ SoundColumn(t.cols[last], t.rows)
    BY <1>1, <1>4 DEF TypedTable, SoundColumns
<1>7. \A r \in 1 .. t.rows :
        /\ t.cols[last].type = "Int64" => t.cols[last].data[r] \in Int
        /\ t.cols[last].type = "Float64" => t.cols[last].data[r] \in Doubles
    BY <1>4 DEF TypedTable
<1> QED
    BY <1>5, <1>6, <1>7

LEMMA InitRun == Init => RunInv
<1> SUFFICES ASSUME Init PROVE RunInv
    OBVIOUS
<1>1. /\ table = EmptyTable(<<>>) /\ preds = <<>> /\ group = [col |-> "", bucket |-> 0]
      /\ threads = 1 /\ qpc = "idle" /\ agg = "Count" /\ mask = <<>> /\ todo = {}
      /\ result = NoResult /\ views = {} /\ sorts = 0
    BY DEF Init, QueryInit
<1>2. table.cols = <<>> /\ table.rows = 0
    <2> DEFINE columns == [i \in DOMAIN <<>> |-> NewColumn(<<>>[i])]
    <2>1. columns = <<>>
        <3>1. DOMAIN <<>> = {}
            OBVIOUS
        <3> QED
            BY <3>1
    <2>2. table = [cols |-> columns, rows |-> 0]
        BY <1>1, Zenon DEF EmptyTable
    <2> HIDE DEF columns
    <2> QED
        BY <2>1, <2>2
<1>3. TypedTable(table)
    BY <1>2 DEF TypedTable, SoundColumns
<1>4. ~Grouped /\ group.bucket = 0 /\ Len(preds) = 0 /\ ~Answered
    BY <1>1 DEF Grouped, Answered
<1>5. BuiltWell
    <2>1. MaxPreds \in Nat
        BY ExecutorAssumption
    <2>2. /\ Len(preds) <= MaxPreds /\ threads \in ThreadArgs \cup {1}
          /\ group.bucket \in Int /\ agg \in {"Count", "Sum", "Avg", "Min", "Max"}
        <3>1. Len(preds) = 0 /\ threads = 1 /\ group.bucket = 0 /\ agg = "Count"
            BY <1>1, <1>4
        <3>2. threads \in ThreadArgs \cup {1}
            BY <3>1
        <3>3. Len(preds) <= MaxPreds
            BY <2>1, <3>1
        <3>4. group.bucket \in Int
            BY <3>1
        <3>5. agg \in {"Count", "Sum", "Avg", "Min", "Max"}
            BY <3>1
        <3> QED
            BY <3>2, <3>3, <3>4, <3>5
    <2>3. ~(qpc \in {"mask", "reduce"} \/ Answered)
        BY <1>1, <1>4
    <2> QED
        BY <1>3, <1>4, <2>2, <2>3 DEF BuiltWell
<1>6. Masked /\ Reduced /\ Vectors
    BY <1>1, <1>4 DEF Masked, Reduced, Vectors, Pcs
<1> QED
    BY <1>5, <1>6 DEF RunInv

LEMMA AskRun ==
    ASSUME LoadInv, TextInv, RunInv, NamesChecked, AskTable
    PROVE  RunInv'
<1>1. PICK t \in {bulk, streamed}, how \in {"cpp", "cli", "python"} : Ask(t, how)
    BY DEF AskTable
<1>2. /\ qpc = "idle" /\ qpc' = "build" /\ preds' = preds /\ group' = group
      /\ threads' = threads /\ agg' = agg /\ mask' = mask /\ todo' = todo
      /\ result' = result /\ sorts' = sorts /\ views' = views
    BY <1>1 DEF Ask, running, shown
<1>3. TypedTable(table')
    BY AskedIsTyped
<1>4. ~Grouped' /\ ~Answered /\ ~Answered'
    BY <1>2 DEF RunInv, BuiltWell, Grouped, Answered
<1>5. BuiltWell'
    BY <1>2, <1>3, <1>4 DEF RunInv, BuiltWell
<1>6. Masked' /\ Reduced' /\ Vectors'
    BY <1>2, <1>4 DEF RunInv, Masked, Reduced, Vectors, Pcs
<1> QED
    BY <1>5, <1>6 DEF RunInv

LEMMA BuildRun ==
    ASSUME RunInv, NamesChecked, Build
    PROVE  RunInv'
<1>1. /\ qpc = "build" /\ table' = table /\ agg' = agg /\ mask' = mask /\ todo' = todo
      /\ result' = result /\ sorts' = sorts /\ views' = views /\ qpc' \in {"build", "threw"}
    BY DEF Build, Filter, CliWhere, PyFilter, GroupBy, Threads, running, shown
<1>2. ~Answered /\ ~Answered'
    BY <1>1 DEF Answered
<1>3. Masked' /\ Reduced' /\ Vectors'
    BY <1>1, <1>2 DEF RunInv, Masked, Reduced, Vectors, Pcs
<1>4. Len(preds') <= MaxPreds
    <2>1. preds \in Seq(Predicates) /\ Len(preds) \in Nat /\ Len(preds) <= MaxPreds
        BY DEF NamesChecked, RunInv, BuiltWell
    <2>2. ASSUME NEW p, preds' = Append(preds, p), Len(preds) < MaxPreds
          PROVE  Len(preds') <= MaxPreds
        <3>1. Len(preds') = Len(preds) + 1
            BY <2>1, <2>2
        <3> QED
            BY <2>1, <2>2, <3>1, ExecutorAssumption
    <2>3. preds' = preds \/ (Len(preds) < MaxPreds /\ \E p : preds' = Append(preds, p))
        <3>1. CASE Filter
            BY <3>1 DEF Filter
        <3>2. CASE CliWhere
            BY <3>2 DEF CliWhere
        <3>3. CASE PyFilter
            BY <3>3 DEF PyFilter
        <3>4. CASE GroupBy \/ Threads
            BY <3>4 DEF GroupBy, Threads
        <3> QED
            BY <3>1, <3>2, <3>3, <3>4 DEF Build
    <2> QED
        BY <2>1, <2>2, <2>3
<1>5. threads' \in ThreadArgs \cup {1}
    <2>1. CASE Threads
        BY <2>1 DEF Threads
    <2>2. CASE ~Threads
        BY <2>2 DEF Build, Filter, CliWhere, PyFilter, GroupBy, RunInv, BuiltWell
    <2> QED
        BY <2>1, <2>2
<1>6. /\ group'.bucket \in Int
      /\ Grouped' /\ HasColumn(table', group'.col) /\ GroupColumn'.type = "Float64"
            => \A r \in Rows' : Finite(GroupColumn'.data[r])
    <2>1. Rows' = Rows
        BY <1>1 DEF Rows, NumRows
    <2>2. CASE GroupBy
        <3>1. PICK g \in Groupings :
                /\ HasColumn(table, g.col) /\ ColumnOf(table, g.col).type = "Float64"
                    => \A x \in Seqs!ToSet(ColumnOf(table, g.col).data) : Finite(x)
                /\ group' = g
            BY <2>2 DEF GroupBy
        <3>2. group'.bucket \in Int
            BY <3>1, ExecutorAssumption
        <3>3. ASSUME HasColumn(table', group'.col), GroupColumn'.type = "Float64",
                     NEW r \in Rows'
              PROVE  Finite(GroupColumn'.data[r])
            <4> DEFINE c == ColumnOf(table, g.col)
            <4>1. GroupColumn' = c
                BY <1>1, <3>1 DEF GroupColumn
            <4>2. HasColumn(table, g.col) /\ c.type = "Float64"
                BY <1>1, <3>1, <3>3, <4>1
            <4>3. c \in ColumnRecords /\ SoundColumn(c, table.rows)
                BY <4>2, FoundColumn DEF RunInv, BuiltWell
            <4>4. \A x \in Seqs!ToSet(c.data) : Finite(x)
                BY <3>1, <4>2
            <4> HIDE DEF c
            <4>5. r \in DOMAIN c.data
                <5>1. c.data \in Seq(Entries) /\ Len(c.data) = table.rows
                    BY <4>3 DEF SoundColumn, ColumnRecords
                <5>2. r \in 1 .. table.rows
                    BY <2>1, <3>3 DEF Rows, NumRows
                <5> QED
                    BY <5>1, <5>2
            <4> QED
                BY <4>1, <4>4, <4>5 DEF Seqs!ToSet
        <3> QED
            BY <3>2, <3>3
    <2>3. CASE ~GroupBy
        <3>1. group' = group
            BY <2>3 DEF Build, Filter, CliWhere, PyFilter, Threads
        <3>2. Grouped' = Grouped /\ GroupColumn' = GroupColumn
            BY <1>1, <3>1 DEF Grouped, GroupColumn
        <3> QED
            BY <1>1, <2>1, <3>1, <3>2 DEF RunInv, BuiltWell
    <2> QED
        BY <2>2, <2>3
<1>7. BuiltWell'
    BY <1>1, <1>2, <1>4, <1>5, <1>6 DEF RunInv, BuiltWell
<1> QED
    BY <1>3, <1>7 DEF RunInv

(* Once agg() runs, what the query was built from stays.                   *)
LEMMA StaysBuilt ==
    ASSUME RunInv, UNCHANGED built, agg' = agg, metric' = metric,
           qpc \in {"mask", "reduce"} \/ Answered, qpc' # "idle"
    PROVE  BuiltWell'
<1>1. /\ table' = table /\ preds' = preds /\ group' = group /\ threads' = threads
    BY DEF built
<1>2. Rows' = Rows /\ Grouped' = Grouped /\ GroupColumn' = GroupColumn
    BY RunsOn
<1>3. agg = "Count" \/ (HasColumn(table, metric) /\ ~IsDict(metric))
    BY DEF RunInv, BuiltWell
<1>4. IsDict(metric)' = IsDict(metric)
    BY <1>1 DEF IsDict
<1> QED
    BY <1>1, <1>2, <1>3, <1>4 DEF RunInv, BuiltWell

(* k tasks cut the rows at b[0], ..., b[k].                                *)
Tiles(tasks, k, b) ==
    /\ k \in Nat /\ b \in [0 .. k -> 0 .. NumRows]
    /\ DOMAIN tasks = 1 .. k /\ b[0] = 0 /\ b[k] = NumRows
    /\ \A t \in 1 .. k :
        b[t - 1] <= b[t] /\ RowsOf(tasks[t]) = b[t - 1] + 1 .. b[t]

LEMMA MapTiles ==
    ASSUME NumRows \in Nat, NumRows >= 1, NEW parts \in Nat, parts >= 1,
           NEW k \in Nat, k * ChunkSize(NumRows, parts) >= NumRows
    PROVE  \E b : Tiles([i \in 1 .. k |-> MapRange(NumRows, parts, i)], k, b)
<1> DEFINE c == ChunkSize(NumRows, parts)
           tasks == [i \in 1 .. k |-> MapRange(NumRows, parts, i)]
           b == [t \in 0 .. k |-> Smaller(NumRows, t * c)]
<1>1. c \in Nat /\ c >= 1
    BY ChunkFacts
<1>2. k * c >= NumRows /\ DOMAIN tasks = 1 .. k
    OBVIOUS
<1>3. \A i \in 1 .. k : tasks[i] = <<(i - 1) * c, Smaller(NumRows, i * c)>>
    BY DEF MapRange
<1> HIDE DEF c, tasks
<1>4. \A t \in 0 .. k : t * c \in Nat /\ b[t] = Smaller(NumRows, t * c)
    BY <1>1, ProductType
<1>5. b \in [0 .. k -> 0 .. NumRows]
    <2>1. \A t \in 0 .. k : Smaller(NumRows, t * c) \in 0 .. NumRows
        BY <1>4 DEF Smaller
    <2> QED
        BY <2>1
<1>6. b[0] = 0 /\ b[k] = NumRows
    <2>1. 0 * c = 0
        BY <1>1
    <2> QED
        BY <1>2, <1>4, <2>1 DEF Smaller
<1> HIDE DEF b
<1>7. ASSUME NEW t \in 1 .. k
      PROVE  b[t - 1] <= b[t] /\ RowsOf(tasks[t]) = b[t - 1] + 1 .. b[t]
    <2> DEFINE lo == (t - 1) * c
               hi == t * c
    <2>1. /\ t - 1 \in 0 .. k /\ t \in 0 .. k /\ t - 1 \in Nat /\ t - 1 + 1 = t
          /\ tasks[t] = <<lo, Smaller(NumRows, hi)>>
        BY <1>3
    <2>2. lo \in Nat /\ hi = lo + c
        BY <1>1, <2>1, ProductType
    <2>3. b[t - 1] = Smaller(NumRows, lo) /\ b[t] = Smaller(NumRows, hi)
        BY <1>4, <2>1
    <2> HIDE DEF lo, hi
    <2>4. b[t - 1] <= b[t]
        BY <1>1, <2>2, <2>3 DEF Smaller
    <2>5. RowsOf(tasks[t]) = lo + 1 .. Smaller(NumRows, hi)
        BY <2>1 DEF RowsOf
    <2>6. lo + 1 .. Smaller(NumRows, hi) = Smaller(NumRows, lo) + 1 .. Smaller(NumRows, hi)
        BY <1>1, <2>2 DEF Smaller
    <2> QED
        BY <2>3, <2>4, <2>5, <2>6
<1>8. Tiles(tasks, k, b)
    BY <1>2, <1>5, <1>6, <1>7 DEF Tiles
<1>9. \E x : Tiles(tasks, k, x)
    BY <1>8
<1> QED
    BY <1>9 DEF tasks

(* One task for all rows, or none.                                         *)
LEMMA OneTile ==
    ASSUME NumRows \in Nat
    PROVE  \E b : Tiles(<< <<0, NumRows>> >>, 1, b)
<1> DEFINE b == [t \in 0 .. 1 |-> IF t = 0 THEN 0 ELSE NumRows]
           range == <<0, NumRows>>
           tasks == <<range>>
<1>1. b \in [0 .. 1 -> 0 .. NumRows] /\ b[0] = 0 /\ b[1] = NumRows
    OBVIOUS
<1>2. range[1] = 0 /\ range[2] = NumRows
    OBVIOUS
<1> HIDE DEF range, b
<1>3. DOMAIN tasks = 1 .. 1 /\ tasks[1] = range
    OBVIOUS
<1>4. RowsOf(tasks[1]) = 0 + 1 .. NumRows
    BY <1>2, <1>3 DEF RowsOf
<1>5. \A t \in 1 .. 1 : t = 1
    OBVIOUS
<1> HIDE DEF tasks
<1>6. Tiles(tasks, 1, b)
    BY <1>1, <1>3, <1>4, <1>5 DEF Tiles
<1>7. \E x : Tiles(tasks, 1, x)
    BY <1>6
<1> QED
    BY <1>7 DEF tasks, range

LEMMA TasksTile ==
    ASSUME NumRows \in Nat, threads \in Nat
    PROVE  /\ \E k, b : Tiles(FilterTasks, k, b)
           /\ \E k, b : Tiles(ReduceTasks, k, b) /\ k >= 1
<1>1. CASE ~Pooled
    <2>1. FilterTasks = << <<0, NumRows>> >> /\ ReduceTasks = << <<0, NumRows>> >>
        BY <1>1 DEF FilterTasks, ReduceTasks
    <2>2. PICK b : Tiles(<< <<0, NumRows>> >>, 1, b)
        BY OneTile
    <2>3. Tiles(FilterTasks, 1, b) /\ Tiles(ReduceTasks, 1, b) /\ 1 >= 1
        BY <2>1, <2>2
    <2> QED
        BY <2>3
<1>2. CASE Pooled /\ NumRows = 0
    <2>1. FilterTasks = <<>> /\ ReduceTasks = << <<0, NumRows>> >>
        BY <1>2 DEF FilterTasks, ReduceTasks, ForRanges, MapRanges
    <2>2. PICK b : Tiles(<< <<0, NumRows>> >>, 1, b)
        BY OneTile
    <2>3. Tiles(ReduceTasks, 1, b) /\ 1 >= 1
        BY <2>1, <2>2
    <2> DEFINE none == [t \in 0 .. 0 |-> 0]
    <2>4. none \in [0 .. 0 -> 0 .. NumRows] /\ none[0] = 0
        BY <1>2
    <2> HIDE DEF none
    <2>5. DOMAIN FilterTasks = 1 .. 0 /\ \A t \in 1 .. 0 : FALSE
        BY <2>1
    <2>6. Tiles(FilterTasks, 0, none)
        BY <1>2, <2>4, <2>5 DEF Tiles
    <2> QED
        BY <2>3, <2>6
<1>3. CASE Pooled /\ NumRows # 0
    <2> DEFINE parts == Partitions
               c == ChunkSize(NumRows, parts)
               k == (NumRows + c - 1) \div c
    <2>1. NumRows >= 1 /\ parts \in Nat /\ parts >= 1
        BY <1>3 DEF Pooled, Partitions, Parts, Smaller
    <2> HIDE DEF parts
    <2>2. k \in Nat /\ k * c >= NumRows /\ parts * c >= NumRows
        BY <2>1, ChunkFacts
    <2>3. FilterTasks = [i \in 1 .. k |-> MapRange(NumRows, parts, i)]
        BY <1>3 DEF FilterTasks, ForRanges, parts
    <2>4. ReduceTasks = [i \in 1 .. parts |-> MapRange(NumRows, parts, i)]
        BY <1>3 DEF ReduceTasks, MapRanges, parts
    <2> HIDE DEF k
    <2>5. \E b : Tiles(FilterTasks, k, b)
        BY <2>1, <2>2, <2>3, MapTiles
    <2>6. \E b : Tiles(ReduceTasks, parts, b)
        BY <2>1, <2>2, <2>4, MapTiles
    <2> QED
        BY <2>1, <2>5, <2>6
<1> QED
    BY <1>1, <1>2, <1>3

(* Where rows are cut, each row is in one piece.                           *)
LEMMA TilesCover ==
    ASSUME NumRows \in Nat, NEW tasks, NEW k, NEW b, Tiles(tasks, k, b)
    PROVE  /\ \A t \in DOMAIN tasks : RowsOf(tasks[t]) \subseteq Rows
           /\ \A i \in Rows : \E t \in DOMAIN tasks : i \in RowsOf(tasks[t])
<1>1. /\ k \in Nat /\ DOMAIN tasks = 1 .. k /\ b[0] = 0 /\ b[k] = NumRows
      /\ \A t \in 0 .. k : b[t] \in 0 .. NumRows
      /\ \A t \in 1 .. k : RowsOf(tasks[t]) = b[t - 1] + 1 .. b[t]
    BY DEF Tiles
<1>2. ASSUME NEW t \in DOMAIN tasks PROVE RowsOf(tasks[t]) \subseteq Rows
    <2>1. t \in 1 .. k /\ t \in 0 .. k /\ t - 1 \in 0 .. k
        BY <1>1
    <2>2. b[t - 1] \in 0 .. NumRows /\ b[t] \in 0 .. NumRows
        BY <1>1, <2>1
    <2> QED
        BY <1>1, <2>1, <2>2 DEF Rows
<1>3. ASSUME NEW i \in Rows PROVE \E t \in DOMAIN tasks : i \in RowsOf(tasks[t])
    <2> DEFINE S == {t \in 0 .. k : i <= b[t]}
    <2>1. k \in S /\ S \subseteq Nat
        BY <1>1 DEF Rows
    <2>2. PICK t \in S : \A u \in S : t <= u
        <3> HIDE DEF S
        <3> QED
            BY <2>1, LeastNumber
    <2>3. t # 0
        BY <1>1, <2>2 DEF Rows
    <2>4. t \in 1 .. k /\ t - 1 \in 0 .. k /\ i <= b[t]
        BY <1>1, <2>2, <2>3
    <2>5. ~(i <= b[t - 1])
        <3>1. i <= b[t - 1] => t - 1 \in S
            BY <2>4
        <3>2. ~(t <= t - 1)
            BY <2>4
        <3> QED
            BY <2>2, <3>1, <3>2
    <2>6. b[t - 1] \in Nat /\ b[t] \in Nat /\ i \in Nat
        BY <1>1, <2>4 DEF Rows
    <2>7. i \in b[t - 1] + 1 .. b[t]
        BY <2>4, <2>5, <2>6
    <2> QED
        BY <1>1, <2>4, <2>7
<1> QED
    BY <1>2, <1>3

LEMMA NotThere ==
    ASSUME qpc' \in {"threw", "terminated"}, UNCHANGED shown, ~Answered, Vectors
    PROVE  Vectors' /\ ~Answered'
<1>1. result' = result /\ sorts' = sorts /\ views' = views /\ ~Answered'
    BY DEF shown, Answered
<1> QED
    BY <1>1 DEF Vectors, Pcs

LEMMA StartRun ==
    ASSUME RunInv, Start
    PROVE  RunInv'
<1>1. PICK a \in Aggs :
        /\ agg' = a.agg /\ metric' = a.metric
        /\ qpc' = IF Measured(a) THEN "mask" ELSE "threw"
    BY DEF Start
<1>2. /\ qpc = "build" /\ UNCHANGED built /\ UNCHANGED shown
      /\ table' = table /\ preds' = preds /\ group' = group /\ threads' = threads
    BY DEF Start, built
<1> DEFINE filtered == qpc' = "mask" /\ preds # <<>>
<1>3. /\ mask' = IF filtered THEN [i \in Rows |-> 1] ELSE <<>>
      /\ todo' = IF filtered THEN DOMAIN FilterTasks ELSE {}
    BY DEF Start
<1>4. /\ Rows' = Rows /\ Grouped' = Grouped /\ GroupColumn' = GroupColumn
      /\ FilterTasks' = FilterTasks
    BY <1>2, RunsOn
<1>5. qpc' \in {"mask", "threw"} /\ ~Answered /\ ~Answered'
    BY <1>1, <1>2 DEF Answered
<1>6. qpc' = "mask" =>
        agg' = "Count" \/ (HasColumn(table', metric') /\ ~IsDict(metric)')
    <2>1. SUFFICES ASSUME qpc' = "mask", agg' # "Count"
                   PROVE  HasColumn(table', metric') /\ ~IsDict(metric)'
        OBVIOUS
    <2>2. Measured(a)
        BY <1>1, <2>1
    <2>3. HasColumn(table, a.metric) /\ ~IsDict(a.metric)
        BY <1>1, <2>1, <2>2 DEF Measured
    <2> QED
        BY <1>1, <1>2, <2>3 DEF IsDict
<1>7. BuiltWell'
    <2>1. agg' \in {"Count", "Sum", "Avg", "Min", "Max"}
        BY <1>1, ExecutorAssumption
    <2> QED
        BY <1>2, <1>4, <1>5, <1>6, <2>1 DEF RunInv, BuiltWell
<1>8. Masked'
    <2>1. [i \in Rows |-> 1] \in [Rows -> {0, 1}]
        OBVIOUS
    <2> QED
        BY <1>2, <1>3, <1>4, <1>5, <2>1 DEF Masked
<1>9. Reduced'
    BY <1>3, <1>5 DEF Reduced
<1>10. Vectors'
    <2>1. result' = result /\ sorts' = sorts /\ views' = views
        BY <1>2 DEF shown
    <2> QED
        BY <1>2, <1>5, <2>1 DEF RunInv, Vectors, Pcs
<1> QED
    BY <1>7, <1>8, <1>9, <1>10 DEF RunInv

LEMMA FilterRun ==
    ASSUME RunInv, NEW t \in todo, FilterTask(t)
    PROVE  RunInv'
<1>1. /\ qpc = "mask" /\ UNCHANGED built /\ UNCHANGED shown
      /\ agg' = agg /\ metric' = metric /\ ~Answered
    BY DEF FilterTask, Answered
<1>2. BuiltWell'
    <2>1. qpc' # "idle"
        BY <1>1 DEF FilterTask
    <2> QED
        BY <1>1, <2>1, StaysBuilt
<1>3. CASE ~PredsKnown
    <2>1. qpc' \in {"threw", "terminated"} /\ mask' = <<>> /\ todo' = {}
        BY <1>1, <1>3 DEF FilterTask, PredsKnown, LocalsGone
    <2>2. Vectors' /\ ~Answered'
        BY <1>1, <2>1, NotThere DEF RunInv
    <2> QED
        BY <1>2, <2>1, <2>2 DEF RunInv, Masked, Reduced
<1>4. CASE PredsKnown
    <2>1. /\ mask' = [i \in Rows |->
                IF i \in RowsOf(FilterTasks[t])
                THEN IF \A j \in DOMAIN preds : Holds(preds[j], i) THEN 1 ELSE 0
                ELSE mask[i]]
          /\ todo' = todo \ {t} /\ qpc' = qpc
        BY <1>1, <1>4 DEF FilterTask, PredsKnown
    <2>2. mask' = [i \in Rows |-> IF i \in RowsOf(FilterTasks[t]) THEN Bit(i) ELSE mask[i]]
        BY <2>1, Zenon DEF Bit
    <2>3. /\ todo \subseteq DOMAIN FilterTasks /\ preds # <<>>
          /\ mask \in [Rows -> {0, 1}]
          /\ \A u \in DOMAIN FilterTasks \ todo :
                PredsKnown /\ \A i \in RowsOf(FilterTasks[u]) : mask[i] = Bit(i)
        BY <1>1 DEF RunInv, Masked
    <2>4. /\ Rows' = Rows /\ FilterTasks' = FilterTasks /\ PredsKnown' /\ preds' = preds
          /\ \A i : Bit(i)' = Bit(i)
        BY <1>1, <1>4, RunsOn DEF built
    <2>5. \A u \in DOMAIN FilterTasks : RowsOf(FilterTasks[u]) \subseteq Rows
        <3>1. NumRows \in Nat /\ threads \in Nat
            BY ExecutorAssumption DEF RunInv, BuiltWell, TypedTable, NumRows
        <3>2. PICK k, b : Tiles(FilterTasks, k, b)
            BY <3>1, TasksTile
        <3> QED
            BY <3>1, <3>2, TilesCover
    <2>6. mask' \in [Rows -> {0, 1}]
        <3>1. \A i : Bit(i) \in {0, 1}
            BY DEF Bit
        <3>2. \A i \in Rows :
                (IF i \in RowsOf(FilterTasks[t]) THEN Bit(i) ELSE mask[i]) \in {0, 1}
            BY <2>3, <3>1
        <3> QED
            BY <2>2, <3>2
    <2>7. ASSUME NEW u \in DOMAIN FilterTasks \ todo', NEW i \in RowsOf(FilterTasks[u])
          PROVE  mask'[i] = Bit(i)
        <3>1. i \in Rows
            BY <2>5
        <3>2. mask'[i] = IF i \in RowsOf(FilterTasks[t]) THEN Bit(i) ELSE mask[i]
            BY <2>2, <3>1
        <3>3. u = t \/ u \in DOMAIN FilterTasks \ todo
            BY <2>1
        <3> QED
            BY <2>3, <3>2, <3>3
    <2>8. \A u : \A i \in RowsOf(FilterTasks[u])' : i \in RowsOf(FilterTasks[u])
        BY <2>4 DEF RowsOf
    <2>9. Masked'
        <3>1. qpc' = "mask" /\ todo' \subseteq DOMAIN FilterTasks'
            BY <1>1, <2>1, <2>3, <2>4
        <3>2. \A u \in DOMAIN FilterTasks' \ todo' :
                PredsKnown' /\ \A i \in RowsOf(FilterTasks[u])' : mask'[i] = Bit(i)'
            BY <2>4, <2>7, <2>8
        <3> QED
            BY <2>3, <2>4, <2>6, <3>1, <3>2 DEF Masked
    <2>10. Reduced' /\ Vectors'
        <3>1. /\ result' = result /\ sorts' = sorts /\ views' = views /\ qpc' = "mask"
              /\ ~Answered'
            BY <1>1, <2>1 DEF shown, Answered
        <3> QED
            BY <1>1, <3>1 DEF RunInv, Reduced, Vectors, Pcs
    <2> QED
        BY <1>2, <2>9, <2>10 DEF RunInv
<1> QED
    BY <1>3, <1>4

LEMMA StartReduceRun ==
    ASSUME RunInv, StartReduce
    PROVE  RunInv'
<1>1. /\ qpc = "mask" /\ todo = {} /\ UNCHANGED built /\ UNCHANGED shown
      /\ agg' = agg /\ metric' = metric /\ ~Answered
    BY DEF StartReduce, Answered
<1>2. BuiltWell'
    <2>1. qpc' # "idle"
        BY <1>1 DEF StartReduce
    <2> QED
        BY <1>1, <2>1, StaysBuilt
<1>3. CASE ~(group.col = "" \/ HasColumn(table, group.col))
    <2>1. qpc' = "threw" /\ mask' = <<>> /\ todo' = {}
        BY <1>1, <1>3 DEF StartReduce, LocalsGone
    <2>2. Vectors' /\ ~Answered'
        BY <1>1, <2>1, NotThere DEF RunInv
    <2> QED
        BY <1>2, <2>1, <2>2 DEF RunInv, Masked, Reduced
<1>4. CASE group.col = "" \/ HasColumn(table, group.col)
    <2>1. /\ qpc' = "reduce" /\ todo' = DOMAIN ReduceTasks
          /\ slots' = [t \in todo' |-> <<>>] /\ mask' = mask
        BY <1>1, <1>4 DEF StartReduce
    <2>2. /\ Rows' = Rows /\ ReduceTasks' = ReduceTasks /\ preds' = preds
          /\ PredsKnown' = PredsKnown /\ (\A i : Bit(i)' = Bit(i)) /\ Grouped' = Grouped
          /\ group' = group /\ table' = table
        BY <1>1, RunsOn DEF built
    <2>3. preds # <<>> => \A i \in Rows : PredsKnown /\ mask[i] = Bit(i)
        <3> SUFFICES ASSUME preds # <<>>, NEW i \in Rows PROVE PredsKnown /\ mask[i] = Bit(i)
            OBVIOUS
        <3>1. NumRows \in Nat /\ threads \in Nat
            BY ExecutorAssumption DEF RunInv, BuiltWell, TypedTable, NumRows
        <3>2. PICK k, b : Tiles(FilterTasks, k, b)
            BY <3>1, TasksTile
        <3>3. PICK t \in DOMAIN FilterTasks : i \in RowsOf(FilterTasks[t])
            BY <3>1, <3>2, TilesCover
        <3> QED
            BY <1>1, <3>3 DEF RunInv, Masked
    <2>4. Masked'
        BY <1>1, <2>1, <2>2, <2>3 DEF RunInv, Masked
    <2>5. Grouped => HasColumn(table, group.col)
        BY <1>4 DEF Grouped
    <2>6. Reduced'
        <3>1. DOMAIN slots' = todo' /\ qpc' = "reduce" /\ DOMAIN slots' = DOMAIN ReduceTasks'
            BY <2>1, <2>2
        <3>2. Grouped' => HasColumn(table', group'.col)
            BY <2>2, <2>5
        <3>3. slots' = [t \in DOMAIN slots' |-> slots'[t]]
            BY <2>1
        <3> QED
            BY <3>1, <3>2, <3>3 DEF Reduced
    <2>7. Vectors'
        <3>1. /\ result' = result /\ sorts' = sorts /\ views' = views /\ ~Answered'
            BY <1>1, <2>1 DEF shown, Answered
        <3> QED
            BY <1>1, <2>1, <3>1 DEF RunInv, Vectors, Pcs
    <2> QED
        BY <1>2, <2>4, <2>6, <2>7 DEF RunInv
<1> QED
    BY <1>3, <1>4

LEMMA ReduceRun ==
    ASSUME RunInv, NEW t \in todo, ReduceTask(t)
    PROVE  RunInv'
<1>1. /\ qpc = "reduce" /\ qpc' = qpc /\ UNCHANGED built /\ UNCHANGED shown
      /\ agg' = agg /\ metric' = metric /\ mask' = mask /\ ~Answered
      /\ todo' = todo \ {t}
    BY DEF ReduceTask, Answered
<1>2. slots' = [slots EXCEPT ![t] = Part(t)]
    BY Zenon DEF ReduceTask, Part
<1>3. BuiltWell'
    BY <1>1, StaysBuilt
<1>4. /\ Rows' = Rows /\ ReduceTasks' = ReduceTasks /\ preds' = preds
      /\ PredsKnown' = PredsKnown /\ (\A i : Bit(i)' = Bit(i)) /\ Grouped' = Grouped
      /\ group' = group /\ table' = table
    BY <1>1, RunsOn DEF built
<1>5. \A u : Part(u)' = Part(u)
    BY <1>1, PartStays
<1>6. Masked'
    BY <1>1, <1>4 DEF RunInv, Masked
<1>7. Reduced'
    <2>1. /\ DOMAIN slots = DOMAIN ReduceTasks /\ todo \subseteq DOMAIN slots
          /\ \A u \in DOMAIN slots \ todo : slots[u] = Part(u)
          /\ Grouped => HasColumn(table, group.col)
        BY <1>1 DEF RunInv, Reduced
    <2>2. DOMAIN slots' = DOMAIN slots
        BY <1>2
    <2>3. ASSUME NEW u \in DOMAIN slots' \ todo' PROVE slots'[u] = Part(u)
        BY <1>1, <1>2, <2>1, <2>2
    <2>4. slots' = [u \in DOMAIN slots' |-> slots'[u]]
        BY <1>2
    <2> QED
        BY <1>1, <1>4, <1>5, <2>1, <2>2, <2>3, <2>4 DEF Reduced
<1>8. Vectors'
    <2>1. /\ result' = result /\ sorts' = sorts /\ views' = views /\ ~Answered'
        BY <1>1 DEF shown, Answered
    <2> QED
        BY <1>1, <2>1 DEF RunInv, Vectors, Pcs
<1> QED
    BY <1>3, <1>6, <1>7, <1>8 DEF RunInv

LEMMA GroupCount ==
    ASSUME TypedTable(table), Grouped, HasColumn(table, group.col)
    PROVE  \E m \in Nat : DOMAIN GroupKeys = 1 .. m
<1>1. CASE ByCode
    <2>1. GroupColumn \in ColumnRecords
        BY FoundColumn DEF GroupColumn
    <2>2. GroupColumn.dict \in Seq(Tokens)
        BY <2>1 DEF ColumnRecords
    <2>3. DOMAIN GroupColumn.dict = 1 .. Len(GroupColumn.dict) /\ Len(GroupColumn.dict) \in Nat
        BY <2>2
    <2>4. DOMAIN GroupKeys = DOMAIN GroupColumn.dict
        BY <1>1, Zenon DEF GroupKeys
    <2> QED
        BY <2>3, <2>4
<1>2. CASE ~ByCode
    <2> DEFINE first == {i \in Rows : \A j \in Rows : j < i => RawKey(j) # RawKey(i)}
    <2>1. GroupKeys = [g \in 1 .. Cardinality(first) |-> RawKey(Nth(first, g))]
        BY <1>2, Zenon DEF GroupKeys
    <2>2. first \subseteq 1 .. NumRows /\ NumRows \in Nat
        BY DEF Rows, TypedTable, NumRows
    <2> HIDE DEF first
    <2>3. Cardinality(first) \in Nat
        BY <2>2, RankType
    <2> QED
        BY <2>1, <2>3
<1> QED
    BY <1>1, <1>2

(* When all tasks have run each slot has its part.                         *)
LEMMA SlotsFilled ==
    ASSUME RunInv, qpc = "reduce", todo = {}
    PROVE  \E k \in Nat : /\ k >= 1 /\ DOMAIN slots = 1 .. k /\ DOMAIN ReduceTasks = 1 .. k
                          /\ \A t \in 1 .. k : slots[t] = Part(t)
<1>1. NumRows \in Nat /\ threads \in Nat
    BY ExecutorAssumption DEF RunInv, BuiltWell, TypedTable, NumRows
<1>2. PICK k \in Nat : DOMAIN ReduceTasks = 1 .. k /\ k >= 1
    BY <1>1, TaskCount
<1>3. /\ DOMAIN slots = DOMAIN ReduceTasks
      /\ \A t \in DOMAIN slots : slots[t] = Part(t)
    BY DEF RunInv, Reduced
<1> QED
    BY <1>2, <1>3

LEMMA MergedDomain ==
    ASSUME RunInv, qpc = "reduce", todo = {}
    PROVE  /\ DOMAIN Merged = IF Grouped THEN DOMAIN GroupKeys ELSE {1}
           /\ \E m \in Nat : DOMAIN Merged = 1 .. m
<1>1. slots[1] = Part(1)
    BY SlotsFilled
<1>2. DOMAIN Merged = DOMAIN slots[1]
    BY Zenon DEF Merged
<1>3. DOMAIN Part(1) = IF Grouped THEN DOMAIN GroupKeys ELSE {1}
    <2>1. DOMAIN ReduceGroup(ReduceTasks[1]) = DOMAIN GroupKeys
        BY Zenon DEF ReduceGroup
    <2>2. ASSUME NEW x PROVE DOMAIN <<x>> = {1}
        OBVIOUS
    <2>3. DOMAIN <<ReduceGlobal(ReduceTasks[1])>> = {1}
        BY <2>2
    <2> QED
        BY <2>1, <2>3 DEF Part
<1>4. \E m \in Nat : DOMAIN Merged = 1 .. m
    <2>1. CASE Grouped
        <3>1. HasColumn(table, group.col)
            BY <2>1 DEF RunInv, Reduced
        <3>2. PICK m \in Nat : DOMAIN GroupKeys = 1 .. m
            BY <2>1, <3>1, GroupCount DEF RunInv, BuiltWell
        <3> QED
            BY <1>1, <1>2, <1>3, <2>1, <3>2
    <2>2. CASE ~Grouped
        <3>1. {1} = 1 .. 1
            OBVIOUS
        <3> QED
            BY <1>1, <1>2, <1>3, <2>2, <3>1
    <2> QED
        BY <2>1, <2>2
<1> QED
    BY <1>1, <1>2, <1>3, <1>4

(* The groups that are emitted, and their order.                           *)
Found == {g \in DOMAIN Merged : ~Grouped \/ Merged[g].count # 0}
NumOf(g) == IF ByCode THEN GroupKeys[g] ELSE GroupKeys[g] * Scale
KeyShown(g) == IF ByCode THEN GroupColumn.dict[g] ELSE NumOf(g)

LEMMA EmittedVectors ==
    ASSUME Emit
    PROVE  /\ result'.keys = IF ~Grouped THEN <<>>
                ELSE [j \in 1 .. Cardinality(Found) |-> KeyShown(Nth(Found, j))]
           /\ result'.nums = IF ~Grouped THEN <<>>
                ELSE [j \in 1 .. Cardinality(Found) |-> NumOf(Nth(Found, j))]
           /\ result'.counts =
                [j \in 1 .. Cardinality(Found) |-> Merged[Nth(Found, j)].count]
           /\ result'.values =
                [j \in 1 .. Cardinality(Found) |-> AggValue(Merged[Nth(Found, j)])]
           /\ result' = [keys |-> result'.keys, nums |-> result'.nums,
                         counts |-> result'.counts, values |-> result'.values,
                         grouped |-> Grouped]
<1> DEFINE order == InOrder(Found)
           num(g) == IF ByCode THEN GroupKeys[g] ELSE GroupKeys[g] * Scale
<1>1. /\ DOMAIN order = 1 .. Cardinality(Found)
      /\ \A j \in 1 .. Cardinality(Found) : order[j] = Nth(Found, j)
    BY Zenon DEF InOrder
<1>2. result' =
        [keys |-> IF ~Grouped THEN <<>>
                  ELSE [j \in DOMAIN order |->
                            IF ByCode THEN GroupColumn.dict[order[j]] ELSE num(order[j])],
         nums |-> IF Grouped THEN [j \in DOMAIN order |-> num(order[j])] ELSE <<>>,
         counts |-> [j \in DOMAIN order |-> Merged[order[j]].count],
         values |-> [j \in DOMAIN order |-> AggValue(Merged[order[j]])],
         grouped |-> Grouped]
    BY Zenon DEF Emit, Found
<1> HIDE DEF order
<1>3. [j \in DOMAIN order |-> Merged[order[j]].count]
        = [j \in 1 .. Cardinality(Found) |-> Merged[Nth(Found, j)].count]
    BY <1>1, Zenon
<1>4. [j \in DOMAIN order |-> AggValue(Merged[order[j]])]
        = [j \in 1 .. Cardinality(Found) |-> AggValue(Merged[Nth(Found, j)])]
    BY <1>1, Zenon
<1>5. [j \in DOMAIN order |-> num(order[j])]
        = [j \in 1 .. Cardinality(Found) |-> NumOf(Nth(Found, j))]
    BY <1>1, Zenon DEF NumOf
<1>6. [j \in DOMAIN order |-> IF ByCode THEN GroupColumn.dict[order[j]] ELSE num(order[j])]
        = [j \in 1 .. Cardinality(Found) |-> KeyShown(Nth(Found, j))]
    BY <1>1, Zenon DEF NumOf, KeyShown
<1> HIDE DEF num
<1> QED
    BY <1>2, <1>3, <1>4, <1>5, <1>6, Zenon

LEMMA FoundCount ==
    ASSUME RunInv, qpc = "reduce", todo = {}
    PROVE  /\ \E m \in Nat : DOMAIN Merged = 1 .. m /\ Found \subseteq 1 .. m
           /\ IsFiniteSet(Found) /\ Cardinality(Found) \in Nat
           /\ ~Grouped => Found = {1} /\ Cardinality(Found) = 1
<1>1. PICK m \in Nat : DOMAIN Merged = 1 .. m
    BY MergedDomain
<1>2. Found \subseteq 1 .. m
    BY <1>1 DEF Found
<1>3. IsFiniteSet(Found) /\ Cardinality(Found) \in Nat
    BY <1>2, RankType
<1>4. ASSUME ~Grouped PROVE Found = {1} /\ Cardinality(Found) = 1
    <2>1. DOMAIN Merged = {1}
        BY <1>4, MergedDomain
    <2>2. Found = {1}
        BY <1>4, <2>1 DEF Found
    <2> QED
        BY <2>2, FS_Singleton
<1> QED
    BY <1>1, <1>2, <1>3, <1>4

LEMMA EmitRun ==
    ASSUME RunInv, Emit
    PROVE  RunInv'
<1>1. /\ qpc = "reduce" /\ todo = {} /\ qpc' = "done" /\ mask' = <<>> /\ todo' = {}
      /\ UNCHANGED built /\ agg' = agg /\ metric' = metric
      /\ sorts' = sorts /\ views' = views
    BY DEF Emit, LocalsGone
<1>2. BuiltWell'
    BY <1>1, StaysBuilt
<1>3. Masked' /\ Reduced'
    BY <1>1 DEF Masked, Reduced
<1>4. Vectors'
    <2>1. ~Answered /\ Answered' /\ Grouped' = Grouped
        BY <1>1, RunsOn DEF Answered
    <2> DEFINE K == Cardinality(Found)
    <2>2. K \in Nat /\ (~Grouped => K = 1)
        BY <1>1, FoundCount
    <2>3. /\ Vector(result'.keys, IF Grouped THEN K ELSE 0)
          /\ Vector(result'.nums, IF Grouped THEN K ELSE 0)
        <3>1. <<>> = [j \in 1 .. 0 |-> <<>>[j]]
            OBVIOUS
        <3>2. CASE Grouped
            BY <3>2, EmittedVectors, Zenon DEF Vector
        <3>3. CASE ~Grouped
            <4>1. result'.keys = <<>> /\ result'.nums = <<>>
                BY <3>3, EmittedVectors
            <4> QED
                BY <3>1, <3>3, <4>1 DEF Vector
        <3> QED
            BY <3>2, <3>3
    <2>4. Vector(result'.counts, K) /\ Vector(result'.values, K)
        BY EmittedVectors, Zenon DEF Vector
    <2>5. result' = [keys |-> result'.keys, nums |-> result'.nums,
                     counts |-> result'.counts, values |-> result'.values,
                     grouped |-> Grouped]
        BY EmittedVectors
    <2> HIDE DEF K
    <2> QED
        BY <1>1, <2>1, <2>2, <2>3, <2>4, <2>5 DEF RunInv, Vectors, Pcs
<1> QED
    BY <1>2, <1>3, <1>4 DEF RunInv

(* Sorting keeps the lengths of the vectors and puts the values in order.  *)
LEMMA SortRun ==
    ASSUME RunInv, Sort
    PROVE  RunInv'
<1>1. PICK p \in Orders(Len(result.values)) :
        /\ Descending(Reorder(result.values, p))
        /\ result' = SortByValueDesc(result, p)
    BY DEF Sort
<1>2. /\ qpc = "done" /\ qpc' = "sorted" /\ sorts' = sorts + 1 /\ views' = views
      /\ UNCHANGED built /\ agg' = agg /\ metric' = metric /\ mask' = mask /\ todo' = todo
    BY DEF Sort, running
<1>3. Answered /\ Answered' /\ Grouped' = Grouped
    BY <1>2, RunsOn DEF Answered
<1>4. BuiltWell'
    BY <1>2, <1>3, StaysBuilt
<1>5. Masked' /\ Reduced'
    BY <1>2 DEF RunInv, Masked, Reduced
<1>6. PICK K \in Nat :
        /\ Vector(result.values, K) /\ Vector(result.counts, K)
        /\ Vector(result.keys, IF Grouped THEN K ELSE 0)
        /\ Vector(result.nums, IF Grouped THEN K ELSE 0)
        /\ ~Grouped => K = 1
        /\ result = [keys |-> result.keys, nums |-> result.nums,
                     counts |-> result.counts, values |-> result.values,
                     grouped |-> Grouped]
    BY <1>3 DEF RunInv, Vectors
<1>7. result' = [keys |-> Reorder(result.keys, p), nums |-> Reorder(result.nums, p),
                 counts |-> Reorder(result.counts, p),
                 values |-> Reorder(result.values, p), grouped |-> Grouped]
    <2>1. result.grouped = Grouped
        BY <1>6
    <2> QED
        BY <1>1, <2>1, Zenon DEF SortByValueDesc
<1>8. ASSUME NEW v, NEW n, Vector(v, n) PROVE Vector(Reorder(v, p), n)
    <2>1. DOMAIN v = 1 .. n
        BY <1>8, Zenon DEF Vector
    <2> QED
        BY <2>1, Zenon DEF Vector, Reorder
<1>9. Vectors'
    <2>1. sorts = 0 /\ views \subseteq 0 .. 0
        BY <1>2 DEF RunInv, Vectors
    <2>2. /\ Vector(result'.values, K) /\ Vector(result'.counts, K)
          /\ Vector(result'.keys, IF Grouped THEN K ELSE 0)
          /\ Vector(result'.nums, IF Grouped THEN K ELSE 0)
        BY <1>6, <1>7, <1>8
    <2>3. result' = [keys |-> result'.keys, nums |-> result'.nums,
                     counts |-> result'.counts, values |-> result'.values,
                     grouped |-> Grouped]
        BY <1>7
    <2>4. Descending(result'.values)
        BY <1>1, <1>7
    <2> QED
        BY <1>2, <1>3, <1>6, <2>1, <2>2, <2>3, <2>4 DEF RunInv, Vectors, Pcs
<1> QED
    BY <1>4, <1>5, <1>9 DEF RunInv

LEMMA ShowRun ==
    ASSUME RunInv, HandOut \/ CliPrint
    PROVE  RunInv'
<1>1. /\ qpc \in {"done", "sorted"} /\ UNCHANGED built /\ UNCHANGED running
      /\ agg' = agg /\ metric' = metric /\ mask' = mask /\ todo' = todo
      /\ result' = result /\ sorts' = sorts /\ Answered
    BY DEF HandOut, CliPrint, running, shown, Answered
<1>2. /\ qpc' = qpc \/ (qpc' = "printed" /\ qpc = IF Grouped THEN "sorted" ELSE "done")
      /\ views' = views \/ views' = views \cup {sorts}
    BY DEF HandOut, CliPrint, shown
<1>3. Answered' /\ Grouped' = Grouped /\ qpc' # "idle"
    BY <1>1, <1>2, RunsOn DEF Answered
<1>4. BuiltWell'
    BY <1>1, <1>3, StaysBuilt
<1>5. Masked' /\ Reduced'
    BY <1>1, <1>2 DEF RunInv, Masked, Reduced
<1>6. Vectors'
    <2>1. sorts \in {0, 1} /\ views \subseteq 0 .. sorts
        BY DEF RunInv, Vectors
    <2>2. sorts \in 0 .. sorts
        BY <2>1
    <2>3. views' \subseteq 0 .. sorts
        BY <1>2, <2>1, <2>2
    <2> QED
        BY <1>1, <1>2, <1>3, <2>1, <2>3 DEF RunInv, Vectors, Pcs
<1> QED
    BY <1>4, <1>5, <1>6 DEF RunInv

LEMMA RunUnchanged == RunInv /\ UNCHANGED queryVars => RunInv'
<1> SUFFICES ASSUME RunInv, UNCHANGED queryVars PROVE RunInv'
    OBVIOUS
<1>1. /\ UNCHANGED built /\ qpc' = qpc /\ agg' = agg /\ metric' = metric /\ mask' = mask
      /\ todo' = todo /\ slots' = slots /\ result' = result /\ sorts' = sorts
      /\ views' = views /\ table' = table /\ preds' = preds /\ threads' = threads
      /\ group' = group
    BY DEF queryVars, running, shown, built
<1>2. /\ Rows' = Rows /\ Grouped' = Grouped /\ FilterTasks' = FilterTasks
      /\ ReduceTasks' = ReduceTasks /\ GroupColumn' = GroupColumn
      /\ PredsKnown' = PredsKnown /\ \A i : Bit(i)' = Bit(i)
    BY <1>1, RunsOn
<1>3. \A t : Part(t)' = Part(t)
    BY <1>1, PartStays
<1>4. Answered' = Answered
    BY <1>1 DEF Answered
<1>5. BuiltWell'
    BY <1>1, <1>2, <1>4 DEF RunInv, BuiltWell, TypedTable, HasColumn, Named, IsDict, ColumnOf
<1>6. Masked'
    <2>1. \A t : RowsOf(FilterTasks[t])' = RowsOf(FilterTasks[t])
        BY <1>2 DEF RowsOf
    <2> QED
        BY <1>1, <1>2, <2>1 DEF RunInv, Masked
<1>7. Reduced'
    BY <1>1, <1>2, <1>3 DEF RunInv, Reduced, HasColumn, Named
<1>8. Vectors'
    BY <1>1, <1>2, <1>4 DEF RunInv, Vectors
<1> QED
    BY <1>5, <1>6, <1>7, <1>8 DEF RunInv

LEMMA RunInvNext ==
    ASSUME LoadInv, TextInv, SurviveInv, RunInv, [Next]_vars
    PROVE  RunInv'
<1>1. NamesChecked
    BY DEF SurviveInv
<1>2. \/ AskTable \/ QueryNext \/ UNCHANGED queryVars
    BY Zenon DEF Next, Load, Query, Finished, vars
<1>3. CASE QueryNext
    <2>1. \/ Build \/ Start \/ StartReduce \/ Emit \/ Sort \/ HandOut \/ CliPrint
          \/ \E t \in todo : FilterTask(t) \/ ReduceTask(t)
        BY <1>3, Zenon DEF QueryNext, Run
    <2> QED
        BY <1>1, <2>1, BuildRun, StartRun, FilterRun, StartReduceRun, ReduceRun, EmitRun,
           SortRun, ShowRun, Zenon
<1> QED
    BY <1>1, <1>2, <1>3, AskRun, RunUnchanged

(* The invariant of the run of a query holds throughout.                  *)
THEOREM RunInvariant == Spec => []RunInv
<1>1. LoadInv /\ TextInv /\ SurviveInv /\ RunInv /\ [Next]_vars => RunInv'
    BY RunInvNext
<1> QED
    BY InitRun, <1>1, LoadInvariant, TextInvariant, SurviveInvariant, PTL DEF Spec

LEMMA VectorLength ==
    ASSUME NEW v, NEW n \in Nat, Vector(v, n)
    PROVE  Len(v) = n
<1> DEFINE S == {v[j] : j \in 1 .. n}
<1>1. v \in [1 .. n -> S]
    BY DEF Vector
<1> HIDE DEF S
<1>2. v \in Seq(S)
    BY <1>1, SeqDef
<1>3. DOMAIN v = 1 .. Len(v) /\ Len(v) \in Nat
    BY <1>2, LenProperties
<1>4. DOMAIN v = 1 .. n
    BY <1>1
<1>5. \A m, k \in Nat : 1 .. m = 1 .. k => m <= k
    <2> SUFFICES ASSUME NEW m \in Nat, NEW k \in Nat, 1 .. m = 1 .. k, k < m PROVE FALSE
        OBVIOUS
    <2>1. m \in 1 .. m
        OBVIOUS
    <2> QED
        BY <2>1
<1> DEFINE m == Len(v)
<1>6. m \in Nat /\ 1 .. m = 1 .. n
    BY <1>3, <1>4
<1> HIDE DEF m
<1>7. m <= n /\ n <= m
    BY <1>5, <1>6
<1>8. m = n
    BY <1>6, <1>7
<1> QED
    BY <1>8 DEF m

(* A query is always in a known state with a mask over its rows and no     *)
(* more tasks than its table can be cut into, and its four vectors agree   *)
(* in length.                                                              *)
THEOREM QueryTypes == Spec => []QueryTypeOK
<1>1. SurviveInv /\ RunInv => QueryTypeOK
    <2> SUFFICES ASSUME NamesChecked, RunInv PROVE QueryTypeOK
        BY DEF SurviveInv
    <2>1. qpc \in Pcs /\ sorts \in {0, 1} /\ views \subseteq 0 .. sorts
        BY DEF RunInv, Vectors
    <2>2. via \in {"cpp", "cli", "python"}
        BY DEF NamesChecked
    <2>3. Len(preds) <= MaxPreds /\ threads \in ThreadArgs \cup {1}
        BY DEF RunInv, BuiltWell
    <2>4. mask = <<>> \/ mask \in [Rows -> {0, 1}]
        BY DEF RunInv, Masked, Reduced
    <2>5. todo \subseteq 1 .. Smaller(NumRows, threads) \cup {1}
        <3>1. NumRows \in Nat /\ threads \in Nat
            BY <2>3, ExecutorAssumption DEF RunInv, BuiltWell, TypedTable, NumRows
        <3>2. /\ DOMAIN FilterTasks \subseteq 1 .. Smaller(NumRows, threads) \cup {1}
              /\ DOMAIN ReduceTasks \subseteq 1 .. Smaller(NumRows, threads) \cup {1}
            BY <3>1, TaskCount
        <3>3. \/ todo \subseteq DOMAIN FilterTasks \/ todo \subseteq DOMAIN ReduceTasks
              \/ todo = {}
            BY DEF RunInv, Masked, Reduced
        <3> QED
            BY <3>2, <3>3
    <2>6. qpc = "reduce" => todo \subseteq DOMAIN slots
        BY DEF RunInv, Reduced
    <2>7. /\ Len(result.values) = Len(result.counts)
          /\ Len(result.keys) = IF result.grouped THEN Len(result.values) ELSE 0
          /\ Len(result.nums) = Len(result.keys)
        <3>1. CASE Answered
            <4>1. PICK K \in Nat :
                    /\ Vector(result.values, K) /\ Vector(result.counts, K)
                    /\ Vector(result.keys, IF Grouped THEN K ELSE 0)
                    /\ Vector(result.nums, IF Grouped THEN K ELSE 0)
                    /\ result = [keys |-> result.keys, nums |-> result.nums,
                                 counts |-> result.counts, values |-> result.values,
                                 grouped |-> Grouped]
                BY <3>1 DEF RunInv, Vectors
            <4>2. result.grouped = Grouped
                BY <4>1
            <4>3. (IF Grouped THEN K ELSE 0) \in Nat
                OBVIOUS
            <4> QED
                BY <4>1, <4>2, <4>3, VectorLength
        <3>2. CASE ~Answered
            <4>1. /\ result.values = <<>> /\ result.counts = <<>> /\ result.keys = <<>>
                  /\ result.nums = <<>> /\ result.grouped = FALSE
                BY <3>2 DEF RunInv, Vectors, NoResult
            <4> QED
                BY <4>1
        <3> QED
            BY <3>1, <3>2
    <2> QED
        BY <2>1, <2>2, <2>3, <2>4, <2>5, <2>6, <2>7 DEF QueryTypeOK
<1> QED
    BY <1>1, SurviveInvariant, RunInvariant, PTL

(* What the command line prints is in order before it is cut off, so that  *)
(* no value left out is above one that is shown.                           *)
THEOREM GreatestPrinted == Spec => []TopPrinted
<1>1. RunInv => TopPrinted
    <2> SUFFICES ASSUME RunInv, qpc = "printed", NaN \notin Seqs!ToSet(result.values),
                        NEW i \in DOMAIN result.values, NEW j \in DOMAIN result.values,
                        i <= PrintLimit, PrintLimit < j
                 PROVE  ~Less(result.values[i], result.values[j])
        BY Zenon DEF TopPrinted
    <2>1. PICK K \in Nat : Vector(result.values, K) /\ (~Grouped => K = 1)
        BY DEF RunInv, Vectors, Answered
    <2>2. DOMAIN result.values = 1 .. K
        BY <2>1, Zenon DEF Vector
    <2>3. i \in Nat /\ j \in Nat /\ PrintLimit \in Nat
        BY <2>2, ExecutorAssumption
    <2>4. i < j
        BY <2>3
    <2>5. Grouped
        BY <2>1, <2>2, <2>4
    <2>6. Descending(result.values)
        BY <2>5 DEF RunInv, Vectors
    <2>7. \A x \in DOMAIN result.values : result.values[x] # NaN
        BY Zenon DEF Seqs!ToSet
    <2> QED
        BY <2>4, <2>6, <2>7 DEF Descending
<1> QED
    BY <1>1, RunInvariant, PTL
=============================================================================
