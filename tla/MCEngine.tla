------------------------------ MODULE MCEngine ------------------------------
(* Small instances of Engine: lines of a few tokens for a schema of three  *)
(* columns, one of each type.  A double counts 1/120.  "~" stands for a    *)
(* carriage return.                                                        *)
EXTENDS Engine, TLC

Words == {"", "a", "b", "a~", "~", "g", "n", "x", "x~", "u"}

Ints == [t \in Words \cup {"inf", "nan", "0.5", "-0.5"} |-> 0]
    @@ ("1" :> 1) @@ ("1~" :> 1) @@ ("2" :> 2) @@ ("-1" :> -1) @@ ("-3" :> -3)

Dbls == [t \in Words |-> 0]
    @@ ("1" :> 120) @@ ("1~" :> 120) @@ ("2" :> 240) @@ ("-1" :> -120)
    @@ ("-3" :> -360) @@ ("0.5" :> 60) @@ ("-0.5" :> -60)
    @@ ("inf" :> PosInf) @@ ("nan" :> NaN)

Chomped == [t \in DOMAIN Ints |-> t]
    @@ ("~" :> "") @@ ("a~" :> "a") @@ ("x~" :> "x") @@ ("1~" :> "1")

GNX == <<[name |-> "g", type |-> "Dict"], [name |-> "n", type |-> "Int64"],
         [name |-> "x", type |-> "Float64"]>>

Header == <<"g", "n", "x">>

\* Five rows, so that four threads get ranges of two, two, one and none; a
\* short line, a surplus field, measures that are no numbers to add.
Long == <<Header, <<"a", "1", "inf">>, <<"b", "-1", "0.5">>, <<"a", "-3", "2">>,
          <<"", "2", "nan", "1">>, <<"a", "1">>>>
Bare == <<Header>>
\* The columns in another order, and one missing.
Turned == <<<<"x", "g">>, <<"0.5", "b">>, <<"-0.5", "a">>>>

Queried == {Long, Bare, Turned}

\* Reordered in full; a column the schema does not know; one named twice;
\* blank lines; carriage returns; nothing at all.
AllFiles == Queried \cup
    {<<<<"n", "x", "g">>, <<"1", "2", "a">>, <<"2">>>>,
     <<<<"g", "u", "n", "x">>, <<"a", "b", "1", "2">>>>,
     <<<<"g", "g", "n">>, <<"a", "b", "1">>, <<"a">>>>,
     <<Header, <<"a", "1", "2">>, <<"">>, <<"b", "2", "1">>>>,
     <<<<"g", "n", "x~">>, <<"a", "1", "1~">>, <<"~">>, <<"a~">>>>,
     <<>>}

\* Nine rows, which eight threads cut into ranges of two: the last ranges
\* start after the end and take back what the others counted.
NineRows == {<<Header>> \o [i \in 1 .. 9 |-> <<"a", "1", "2">>]}

W(col, cmp, str, num) == [col |-> col, cmp |-> cmp, str |-> str, num |-> num,
                          isNum |-> str \notin Words]
Predicates ==
    {W("g", "Eq", "a", 0), W("g", "Ne", "u", 0), W("g", "Ge", "1", 120),
     W("n", "Lt", "a", 0), W("x", "Le", "0.5", 60), W("u", "Gt", "1", 120)}

Keys == {[col |-> "g", bucket |-> 0], [col |-> "n", bucket |-> 2],
         [col |-> "x", bucket |-> 0], [col |-> "u", bucket |-> 0]}

Measures == {[agg |-> "Count", metric |-> ""], [agg |-> "Sum", metric |-> "x"],
             [agg |-> "Avg", metric |-> "n"], [agg |-> "Min", metric |-> "x"],
             [agg |-> "Max", metric |-> "x"], [agg |-> "Sum", metric |-> "g"],
             [agg |-> "Sum", metric |-> ""]}
Extremes == {m \in Measures : m.agg \in {"Min", "Max"}}
=============================================================================
