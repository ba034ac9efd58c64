------------------------------ MODULE Executor ------------------------------
(***************************************************************************)
(* One Executor (include/strata/executor.hpp, src/executor.cpp): a query   *)
(* is built, by C++ calls or by one of the front ends (cmd_query of        *)
(* apps/strata_cli.cpp, PyQuery of bindings/strata_py.cpp), agg() runs it  *)
(* on one thread or on a pool, and its result is sorted and shown.         *)
(*                                                                         *)
(* A step of agg() is one task of the pool: tasks run in any order, each   *)
(* on its own range of rows, and the calling thread goes on when all have  *)
(* run (ForkJoin).  Without a pool there is one task, all rows.            *)
(*                                                                         *)
(* Doubles are PosInf, NegInf, NaN and the integers, which count 1/One so  *)
(* that the fractions and averages that occur are exact; rounding, and     *)
(* with it the order of additions, is not modelled.                        *)
(***************************************************************************)
EXTENDS Columns, Ranges

CONSTANTS
    PosInf, NegInf, NaN, One,
    Wheres,     \* predicates asked for: [col, cmp, str, num, isNum], the operand
                \* as text, the number strtod makes of it, whether it is one
    Groupings,  \* arguments of group_by: [col, bucket]
    ThreadArgs, \* arguments of threads()
    Aggs,       \* arguments of agg(): [agg, metric]
    PrintLimit, \* --limit
    MaxPreds    \* bound: predicates of a query

Doubles == Int \cup {PosInf, NegInf, NaN}

ASSUME ExecutorAssumption ==
    /\ One \in Nat \ {0} /\ MaxPreds \in Nat /\ PrintLimit \in Nat
    /\ PosInf \notin Int /\ NegInf \notin Int /\ NaN \notin Int
    /\ PosInf # NegInf /\ NaN \notin {PosInf, NegInf}
    /\ \A t \in Tokens : IntOf[t] \in Int /\ DblOf[t] \in Doubles
    /\ \A g \in Groupings : g.bucket \in Int
    /\ ThreadArgs \subseteq Nat
    /\ \A a \in Aggs : a.agg \in {"Count", "Sum", "Avg", "Min", "Max"}

VARIABLES
    table,      \* the Table queried
    via,        \* who builds the query: "cpp", "cli" or "python"
    preds,      \* preds_: [column, cmp, value, isStr, str]
    group,      \* group_col_, group_bucket_; "" for no grouping
    threads,    \* threads_
    qpc,        \* where the query is; "idle" before there is one
    agg, metric,\* the arguments of agg()
    mask,       \* row -> 0 or 1
    todo,       \* the tasks that have not run
    slots,      \* the partial results, by task
    result,     \* the vectors of QueryResult
    sorts,      \* how often the vectors were swapped for sorted ones
    views       \* the vectors, numbered by the sorts before them, that NumPy
                \* arrays handed out look at

built == <<table, via, preds, group, threads>>
running == <<agg, metric, mask, todo, slots>>
shown == <<result, sorts, views>>
queryVars == <<built, qpc, running, shown>>

NoResult == [keys |-> <<>>, nums |-> <<>>, counts |-> <<>>, values |-> <<>>,
             grouped |-> FALSE]

QueryInit ==
    /\ table = EmptyTable(<<>>) /\ via = "cpp"
    /\ preds = <<>> /\ group = [col |-> "", bucket |-> 0] /\ threads = 1
    /\ qpc = "idle"
    /\ agg = "Count" /\ metric = "" /\ mask = <<>> /\ todo = {} /\ slots = <<>>
    /\ result = NoResult /\ views = {} /\ sorts = 0

-----------------------------------------------------------------------------
(* Doubles.                                                                *)

Finite(x) == x \notin {PosInf, NegInf, NaN}

(* IEEE <, false when one side is NaN.                                     *)
Less(x, y) ==
    /\ x # NaN /\ y # NaN /\ x # y
    /\ x = NegInf \/ y = PosInf \/ (Finite(x) /\ Finite(y) /\ x < y)

Equal(x, y) == x = y /\ x # NaN

Add(x, y) ==
    CASE Finite(x) /\ Finite(y) -> x + y
      [] Finite(x) /\ ~Finite(y) -> y
      [] ~Finite(x) /\ Finite(y) -> x
      [] OTHER -> IF x = y THEN x ELSE NaN

(* mask[i] * m[i]                                                          *)
Gate(bit, x) == IF bit = 1 THEN x ELSE IF Finite(x) THEN 0 ELSE NaN

StdMin(x, y) == IF Less(y, x) THEN y ELSE x
StdMax(x, y) == IF Less(x, y) THEN y ELSE x

(* Integer division of C++, toward zero.                                   *)
Quotient(x, b) == IF x >= 0 THEN x \div b ELSE -((-x) \div b)

(* An entry of a numeric column read as a double.                          *)
Number(c, i) == IF c.type = "Int64" THEN One * c.data[i] ELSE c.data[i]

(* base, then Op with the first n entries of xs, one after the other.      *)
Fold(Op(_, _), base, xs, n) ==
    LET acc[k \in 0 .. n] == IF k = 0 THEN base ELSE Op(acc[k - 1], xs[k])
    IN  acc[n]

(* The terms of some rows, in the order of the table.                      *)
Along(rows, term) == [j \in 1 .. Cardinality(rows) |-> term[Nth(rows, j)]]

-----------------------------------------------------------------------------
(* Building the query.                                                     *)

Predicate(w, isStr) ==
    [column |-> w.col, cmp |-> w.cmp, isStr |-> isStr,
     value |-> IF isStr THEN 0 ELSE w.num, str |-> w.str]

(* A query on t is begun: Executor(t), Table.filter or cmd_query.          *)
Ask(t, how) ==
    /\ qpc = "idle" /\ qpc' = "build"
    /\ table' = t /\ via' = how
    /\ UNCHANGED <<preds, group, threads, running, shown>>

(* Executor::filter, either overload, on any name.                         *)
Filter ==
    /\ via = "cpp" /\ Len(preds) < MaxPreds
    /\ \E w \in Wheres, isStr \in BOOLEAN :
        /\ isStr \/ w.isNum
        /\ preds' = Append(preds, Predicate(w, isStr))
    /\ UNCHANGED <<table, via, group, threads, qpc>>

IsDict(col) == ColumnOf(table, col).type = "Dict"

MutantCliWhere ==
    /\ via = "cli" /\ Len(preds) < MaxPreds
    /\ \E w \in Wheres : preds' = Append(preds, Predicate(w, ~w.isNum))
    /\ UNCHANGED <<table, via, group, threads, qpc>>

(* --where: the column is looked up for its type, which throws if there is *)
(* none; strtod makes 0 of what is no number.                              *)
CliWhere ==
    /\ via = "cli" /\ Len(preds) < MaxPreds
    /\ \E w \in Wheres :
        IF HasColumn(table, w.col)
        THEN preds' = Append(preds, Predicate(w, IsDict(w.col))) /\ UNCHANGED qpc
        ELSE qpc' = "threw" /\ UNCHANGED preds
    /\ UNCHANGED <<table, via, group, threads>>

(* PyQuery::filter_op and with_eq: the same, but a cast to double throws.  *)
PyFilter ==
    /\ via = "python" /\ Len(preds) < MaxPreds
    /\ \E w \in Wheres :
        IF HasColumn(table, w.col) /\ (IsDict(w.col) \/ w.isNum)
        THEN preds' = Append(preds, Predicate(w, IsDict(w.col))) /\ UNCHANGED qpc
        ELSE qpc' = "threw" /\ UNCHANGED preds
    /\ UNCHANGED <<table, via, group, threads>>

(* group_by; --group and --bucket; PyQuery::group_by.  To group doubles    *)
(* agg() converts them to integers, which is defined for finite ones only. *)
GroupBy ==
    /\ \E g \in Groupings :
        /\ HasColumn(table, g.col) /\ ColumnOf(table, g.col).type = "Float64"
            => \A x \in Seqs!ToSet(ColumnOf(table, g.col).data) : Finite(x)
        /\ group' = g
    /\ UNCHANGED <<table, via, preds, threads, qpc>>

(* threads; --threads; PyQuery::set_threads, which makes 1 of 0.           *)
Threads ==
    /\ \E n \in ThreadArgs :
        threads' = IF via = "python" /\ n = 0 THEN 1 ELSE n
    /\ UNCHANGED <<table, via, preds, group, qpc>>

Build ==
    /\ qpc = "build"
    /\ Filter \/ CliWhere \/ PyFilter \/ GroupBy \/ Threads
    /\ UNCHANGED <<running, shown>>

-----------------------------------------------------------------------------
(* Executor::agg.                                                          *)

NumRows == table.rows
Rows == 1 .. NumRows
RowsOf(range) == range[1] + 1 .. range[2]

Pooled == threads > 1
Partitions == Parts(threads, 0, NumRows)
FilterTasks == IF Pooled THEN ForRanges(NumRows, Partitions) ELSE << <<0, NumRows>> >>
ReduceTasks == IF Pooled THEN MapRanges(NumRows, Partitions) ELSE << <<0, NumRows>> >>

(* The measure is resolved before anything runs; COUNT needs none.         *)
Measured(a) ==
    a.agg = "Count" \/ (a.metric # "" /\ HasColumn(table, a.metric) /\ ~IsDict(a.metric))

Start ==
    /\ qpc = "build"
    /\ \E a \in Aggs :
        /\ agg' = a.agg /\ metric' = a.metric
        /\ qpc' = IF Measured(a) THEN "mask" ELSE "threw"
    /\ LET filtered == qpc' = "mask" /\ preds # <<>>
       IN  /\ mask' = IF filtered THEN [i \in Rows |-> 1] ELSE <<>>
           /\ todo' = IF filtered THEN DOMAIN FilterTasks ELSE {}
    /\ UNCHANGED <<built, slots, shown>>

(* The locals of agg() go when it returns or throws.                       *)
LocalsGone == mask' = <<>> /\ todo' = {} /\ slots' = <<>>

Compare(cmp, x, y) ==
    [Eq |-> Equal(x, y), Ne |-> ~Equal(x, y),
     Lt |-> Less(x, y), Le |-> Less(x, y) \/ Equal(x, y),
     Gt |-> Less(y, x), Ge |-> Less(y, x) \/ Equal(x, y)][cmp]

(* apply_predicate, for one row: codes on a Dict column, doubles else.     *)
Holds(p, i) ==
    LET c == ColumnOf(table, p.column)
    IN  IF c.type = "Dict"
        THEN Compare(p.cmp, c.data[i], IF p.isStr THEN Lookup(c.dict, p.str)
                                       ELSE Quotient(p.value, One))
        ELSE Compare(p.cmp, Number(c, i), p.value)

(* apply_range on one range.  A column that does not exist throws: to the  *)
(* caller of agg() without a pool, out of a worker's thread with one.      *)
FilterTask(t) ==
    /\ qpc = "mask" /\ t \in todo
    /\ IF \A j \in DOMAIN preds : HasColumn(table, preds[j].column)
       THEN /\ mask' = [i \in Rows |->
                IF i \in RowsOf(FilterTasks[t])
                THEN IF \A j \in DOMAIN preds : Holds(preds[j], i) THEN 1 ELSE 0
                ELSE mask[i]]
            /\ todo' = todo \ {t}
            /\ UNCHANGED <<qpc, slots>>
       ELSE qpc' = (IF Pooled THEN "terminated" ELSE "threw") /\ LocalsGone
    /\ UNCHANGED <<built, agg, metric, shown>>

MutantStartReduce ==
    /\ qpc = "mask" /\ todo = {}
    /\ IF group.col = "" \/ HasColumn(table, group.col)
       THEN /\ qpc' = "reduce" /\ todo' = DOMAIN ReduceTasks
            /\ slots' = [t \in DOMAIN FilterTasks |-> <<>>]
            /\ UNCHANGED mask
       ELSE qpc' = "threw" /\ LocalsGone
    /\ UNCHANGED <<built, agg, metric, shown>>

(* for_ranges returned; the group column is looked up.                     *)
StartReduce ==
    /\ qpc = "mask" /\ todo = {}
    /\ IF group.col = "" \/ HasColumn(table, group.col)
       THEN /\ qpc' = "reduce" /\ todo' = DOMAIN ReduceTasks
            /\ slots' = [t \in todo' |-> <<>>]
            /\ UNCHANGED mask
       ELSE qpc' = "threw" /\ LocalsGone
    /\ UNCHANGED <<built, agg, metric, shown>>

Grouped == group.col # ""
GroupColumn == ColumnOf(table, group.col)
ByCode == GroupColumn.type = "Dict" /\ group.bucket = 0

Scale == IF group.bucket > 0 THEN group.bucket ELSE 1

(* raw_at: the integer a row is grouped under.                             *)
RawKey(i) ==
    LET c == GroupColumn
        v == IF c.type = "Float64" THEN Quotient(c.data[i], One) ELSE c.data[i]
    IN  IF group.bucket > 0 THEN Quotient(v, group.bucket) ELSE v

(* key_decode: the raw keys in the order they first occur, or the codes.   *)
GroupKeys ==
    IF ByCode THEN [g \in DOMAIN GroupColumn.dict |-> g - 1]
    ELSE LET first == {i \in Rows : \A j \in Rows : j < i => RawKey(j) # RawKey(i)}
         IN  [g \in 1 .. Cardinality(first) |-> RawKey(Nth(first, g))]

KeyOf(i) == IF ByCode THEN GroupColumn.data[i] ELSE RawKey(i)

(* reduce_global and reduce_group on the rows a mask leaves: what both     *)
(* accumulate.  Only what the aggregate needs is touched.                  *)
Accumulate(count, rows, term) ==
    LET xs == Along(rows, term)
        n == Cardinality(rows)
    IN  [count |-> count,
         sum |-> IF agg \in {"Sum", "Avg"} THEN Fold(Add, 0, xs, n) ELSE 0,
         mn |-> IF agg = "Min" THEN Fold(StdMin, PosInf, xs, n) ELSE PosInf,
         mx |-> IF agg = "Max" THEN Fold(StdMax, NegInf, xs, n) ELSE NegInf]

Measure(rows) ==
    [i \in rows |-> IF agg = "Count" THEN 0 ELSE Number(ColumnOf(table, metric), i)]

Kept(rows) == {i \in rows : preds = <<>> \/ mask[i] = 1}

(* Without a mask the count is the length of the range.  With one, a sum   *)
(* is over all rows of the range, multiplied by the mask.                  *)
ReduceGlobal(range) ==
    LET rows == RowsOf(range)
        kept == Kept(rows)
        all == Measure(rows)
    IN  IF preds = <<>> THEN Accumulate(range[2] - range[1], rows, all)
        ELSE IF agg \in {"Sum", "Avg"}
        THEN Accumulate(Cardinality(kept), rows, [i \in rows |-> Gate(mask[i], all[i])])
        ELSE Accumulate(Cardinality(kept), kept, all)

ReduceGroup(range) ==
    [g \in DOMAIN GroupKeys |->
        LET rows == {i \in Kept(RowsOf(range)) : KeyOf(i) = GroupKeys[g]}
        IN  Accumulate(Cardinality(rows), rows, Measure(rows))]

ReduceTask(t) ==
    /\ qpc = "reduce" /\ t \in todo
    /\ slots' = [slots EXCEPT ![t] =
            IF Grouped THEN ReduceGroup(ReduceTasks[t])
            ELSE <<ReduceGlobal(ReduceTasks[t])>>]
    /\ todo' = todo \ {t}
    /\ UNCHANGED <<built, qpc, agg, metric, mask, shown>>

MutantMerge(a, b) == [a EXCEPT !.count = @ + b.count, !.sum = Add(@, b.sum)]

(* GlobalAcc::merge; GroupAcc::merge does it for each group.               *)
Merge(a, b) ==
    [count |-> a.count + b.count, sum |-> Add(a.sum, b.sum),
     mn |-> StdMin(a.mn, b.mn), mx |-> StdMax(a.mx, b.mx)]

Merged ==
    LET more == Len(slots) - 1
    IN  [g \in DOMAIN slots[1] |->
            Fold(Merge, slots[1][g], [t \in 1 .. more |-> slots[t + 1][g]], more)]

Over(x, n) == IF Finite(x) THEN Quotient(x, n) ELSE x

(* The aggregate of an accumulator, 0 for none.                            *)
AggValue(a) ==
    IF agg = "Count" THEN One * a.count
    ELSE IF agg = "Sum" THEN a.sum
    ELSE IF a.count = 0 THEN 0
    ELSE [Avg |-> Over(a.sum, a.count), Min |-> a.mn, Max |-> a.mx][agg]

(* map_reduce returned: partials are merged and non-empty groups emitted.  *)
Emit ==
    /\ qpc = "reduce" /\ todo = {}
    /\ LET found == {g \in DOMAIN Merged : ~Grouped \/ Merged[g].count # 0}
           order == InOrder(found)
           num(g) == IF ByCode THEN GroupKeys[g] ELSE GroupKeys[g] * Scale
       IN  result' =
            [keys |-> IF ~Grouped THEN <<>>
                      ELSE [j \in DOMAIN order |->
                                IF ByCode THEN GroupColumn.dict[order[j]] ELSE num(order[j])],
             nums |-> IF Grouped THEN [j \in DOMAIN order |-> num(order[j])] ELSE <<>>,
             counts |-> [j \in DOMAIN order |-> Merged[order[j]].count],
             values |-> [j \in DOMAIN order |-> AggValue(Merged[order[j]])],
             grouped |-> Grouped]
    /\ qpc' = "done" /\ LocalsGone
    /\ UNCHANGED <<built, agg, metric, sorts, views>>

Run ==
    \/ Start \/ StartReduce \/ Emit
    \/ \E t \in todo : FilterTask(t) \/ ReduceTask(t)

-----------------------------------------------------------------------------
(* What is done with the result.                                           *)

Reorder(v, p) == [j \in DOMAIN v |-> v[p[j]]]

(* The four vectors in the order of p; empty ones stay.                    *)
SortByValueDesc(r, p) ==
    [keys |-> Reorder(r.keys, p), nums |-> Reorder(r.nums, p),
     counts |-> Reorder(r.counts, p), values |-> Reorder(r.values, p),
     grouped |-> r.grouped]

(* std::sort promises a descending order, ties in any order, and nothing   *)
(* when a NaN makes > no ordering.                                         *)
Descending(v) ==
    \/ \E j \in DOMAIN v : v[j] = NaN
    \/ \A i, j \in DOMAIN v : i < j => ~Less(v[i], v[j])

Orders(K) == {p \in [1 .. K -> 1 .. K] : \A i, j \in 1 .. K : p[i] = p[j] => i = j}

(* sort_by_value_desc(), at most once here; cmd_query calls it for a       *)
(* grouped result.                                                         *)
Sort ==
    /\ qpc = "done" /\ (via = "cli" => Grouped)
    /\ \E p \in Orders(Len(result.values)) :
        /\ Descending(Reorder(result.values, p))
        /\ result' = SortByValueDesc(result, p)
    /\ sorts' = sorts + 1
    /\ qpc' = "sorted"
    /\ UNCHANGED <<built, running, views>>

(* Result.counts, .values, to_dict(): arrays over the vectors as they are. *)
HandOut ==
    /\ via = "python" /\ qpc \in {"done", "sorted"}
    /\ views' = views \cup {sorts}
    /\ UNCHANGED <<built, qpc, running, result, sorts>>

MutantCliPrint ==
    /\ via = "cli" /\ qpc = "done"
    /\ qpc' = "printed"
    /\ UNCHANGED <<built, running, shown>>

(* cmd_query ends by printing the result, the first rows of a sorted one.  *)
CliPrint ==
    /\ via = "cli" /\ qpc = IF Grouped THEN "sorted" ELSE "done"
    /\ qpc' = "printed"
    /\ UNCHANGED <<built, running, shown>>

QueryNext == Build \/ Run \/ Sort \/ HandOut \/ CliPrint

-----------------------------------------------------------------------------
(* Properties.                                                             *)

Pcs == {"idle", "build", "mask", "reduce", "done", "sorted", "printed", "threw",
        "terminated"}

QueryTypeOK ==
    /\ qpc \in Pcs /\ via \in {"cpp", "cli", "python"}
    /\ Len(preds) <= MaxPreds /\ threads \in ThreadArgs \cup {1}
    /\ mask = <<>> \/ mask \in [Rows -> {0, 1}]
    /\ todo \subseteq 1 .. Smaller(NumRows, threads) \cup {1}
    /\ qpc = "reduce" => todo \subseteq DOMAIN slots
    /\ Len(result.values) = Len(result.counts)
    /\ Len(result.keys) = IF result.grouped THEN Len(result.values) ELSE 0
    /\ Len(result.nums) = Len(result.keys)
    /\ sorts \in {0, 1} /\ views \subseteq 0 .. sorts

(* What the answer should be, from the table and the query alone.          *)

(* A predicate on a dictionary means its strings (executor.hpp:31-32), and *)
(* the order of codes for the other comparators (executor.cpp:94).         *)
Matches(p, i) ==
    LET c == ColumnOf(table, p.column)
    IN  IF c.type = "Dict" /\ p.isStr /\ p.cmp \in {"Eq", "Ne"}
        THEN (Shown(c, i) = p.str) = (p.cmp = "Eq")
        ELSE Holds(p, i)

Selected == {i \in Rows : \A j \in DOMAIN preds : Matches(preds[j], i)}

(* The multiple of the bucket that is nearest to v on the side of zero.    *)
Bucket(v, b) ==
    CHOOSE m \in {b * q : q \in -Sets!Max({v, -v}) .. Sets!Max({v, -v})} :
        /\ v >= 0 => m <= v /\ v < m + b
        /\ v < 0 => m >= v /\ v > m - b

(* The keys a row is shown under, as in QueryResult.                       *)
Label(i) ==
    LET c == GroupColumn
        v == IF c.type = "Float64" THEN Bucket(c.data[i], One) \div One ELSE c.data[i]
        num == IF group.bucket > 0 THEN Bucket(v, group.bucket) ELSE v
    IN  [key |-> IF ByCode THEN Shown(c, i) ELSE num, num |-> num]

SumOf(xs) ==
    LET vals == Seqs!ToSet(xs)
    IN  IF NaN \in vals \/ {PosInf, NegInf} \subseteq vals THEN NaN
        ELSE IF vals \cap {PosInf, NegInf} # {}
        THEN CHOOSE x \in {PosInf, NegInf} : x \in vals
        ELSE Fold(+, 0, xs, Len(xs))

(* NaN never wins a comparison.                                            *)
LeastOf(vals) ==
    CHOOSE x \in (vals \ {NaN}) \cup {PosInf} : \A y \in vals : ~Less(y, x)
GreatestOf(vals) ==
    CHOOSE x \in (vals \ {NaN}) \cup {NegInf} : \A y \in vals : ~Less(x, y)

Expected(rows) ==
    LET xs == Along(rows, [i \in rows |-> Number(ColumnOf(table, metric), i)])
    IN  CASE agg = "Count" -> One * Cardinality(rows)
          [] agg = "Sum" -> SumOf(xs)
          [] agg # "Count" /\ agg # "Sum" /\ rows = {} -> 0
          [] agg = "Avg" /\ rows # {} -> Over(SumOf(xs), Cardinality(rows))
          [] agg = "Min" /\ rows # {} -> LeastOf(Seqs!ToSet(xs))
          [] agg = "Max" /\ rows # {} -> GreatestOf(Seqs!ToSet(xs))

Answered == qpc \in {"done", "sorted", "printed"}

ResultRows ==
    {[key |-> result.keys[j], num |-> result.nums[j],
      count |-> result.counts[j], value |-> result.values[j]] :
        j \in DOMAIN result.values}

(* Two errors of ungrouped aggregates are known.  A range that ends before *)
(* it starts counts less than nothing when there is no filter: the count,  *)
(* COUNT and AVG are then left open, and an extreme is lost if the count   *)
(* comes to 0 (ThreadsAgree).  A sum multiplies a measure of a rejected    *)
(* row, if it is not finite, by 0.                                         *)
MiscountsRows ==
    preds = <<>> /\ \E t \in DOMAIN ReduceTasks : ReduceTasks[t][1] > ReduceTasks[t][2]
GatesNonFinite ==
    agg \in {"Sum", "Avg"}
        /\ \E i \in Rows \ Selected : ~Finite(Number(ColumnOf(table, metric), i))

(* On any number of threads and in any order of the tasks a query answers  *)
(* with the aggregate of the rows that satisfy all its predicates, one row *)
(* of the result for each key that is left, keys, counts and values of one *)
(* row side by side, sorted or not.                                        *)
AnswerIsAggregate ==
    Answered =>
        IF Grouped
        THEN /\ ResultRows =
                    {[key |-> l.key, num |-> l.num,
                      count |-> Cardinality({i \in Selected : Label(i) = l}),
                      value |-> Expected({i \in Selected : Label(i) = l})] :
                        l \in {Label(i) : i \in Selected}}
             /\ Cardinality(ResultRows) = Len(result.values)
        ELSE /\ result.counts = <<Cardinality(Selected)>> \/ MiscountsRows
             /\ \/ result.values = <<Expected(Selected)>>
                \/ GatesNonFinite /\ result.values = <<NaN>>
                \/ MiscountsRows /\ agg \in {"Count", "Avg"}
                \/ MiscountsRows /\ agg \in {"Min", "Max"} /\ result.values = <<0>>

(* "[S]ingle- vs multi-threaded agreement" (tests/test_strata.cpp:137): on *)
(* any number of threads a query without filter and groups answers with    *)
(* the number of rows of the table and the aggregate of all of them.       *)
ThreadsAgree ==
    Answered /\ ~Grouped /\ preds = <<>> =>
        result.counts = <<NumRows>> /\ result.values = <<Expected(Rows)>>

(* A query of a front end never takes the process down: column names are   *)
(* looked up while it is built, where an exception reaches the user, and   *)
(* not by a worker of the pool, where it ends the program.                 *)
FrontEndsSurvive ==
    qpc = "terminated" =>
        /\ via = "cpp" /\ Pooled /\ NumRows > 0
        /\ \E j \in DOMAIN preds : ~HasColumn(table, preds[j].column)

(* The command line shows the greatest values: what --limit cuts off is    *)
(* never above what it prints ("top N", executor.hpp:59).                  *)
TopPrinted ==
    qpc = "printed" /\ NaN \notin Seqs!ToSet(result.values) =>
        \A i, j \in DOMAIN result.values :
            i <= PrintLimit /\ PrintLimit < j => ~Less(result.values[i], result.values[j])

(* The arrays given to Python "*view* the C++ result vectors zero-copy     *)
(* (the numpy `base` keeps the C++ result object alive)"                   *)
(* (bindings/strata_py.cpp:6-7): what they look at are the vectors of the  *)
(* result.                                                                 *)
ViewsViewResult == result.values # <<>> => views \subseteq {sorts}
=============================================================================
