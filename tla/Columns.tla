------------------------------ MODULE Columns -------------------------------
(***************************************************************************)
(* The columnar store: Dictionary, Column, Table and Schema                *)
(* (include/strata/dictionary.hpp, column.hpp, table.hpp, schema.hpp) and  *)
(* the row preview of src/table.cpp.                                       *)
(*                                                                         *)
(* Text is a set of tokens.  What std::from_chars makes of a token is      *)
(* given by IntOf and DblOf, 0 where nothing can be parsed.  Codes count   *)
(* from 0 as in the code, positions in sequences from 1.                   *)
(***************************************************************************)
EXTENDS Integers, Sequences, FiniteSets

CONSTANTS
    IntOf,      \* token -> std::int64_t
    DblOf       \* token -> double

ASSUME ColumnsAssumption == DOMAIN IntOf = DOMAIN DblOf /\ "" \in DOMAIN IntOf

Tokens == DOMAIN IntOf
Types == {"Int64", "Float64", "Dict"}

Seqs == INSTANCE SequencesExt
Sets == INSTANCE FiniteSetsExt

(* Positions in increasing order: how many of S come up to x, the k-th of  *)
(* them, all of them.  (SetToSortSeq of SequencesExt is the same, but says *)
(* nothing to the provers.)                                                *)
Rank(S, x) == Cardinality({y \in S : y <= x})
Nth(S, k) == CHOOSE x \in S : Rank(S, x) = k
InOrder(S) == [k \in 1 .. Cardinality(S) |-> Nth(S, k)]

(* Dictionary::lookup: the code of s, or -1.                               *)
Lookup(dict, s) ==
    IF s \in Seqs!ToSet(dict) THEN (CHOOSE i \in DOMAIN dict : dict[i] = s) - 1
    ELSE -1

MutantEncode(dict, s) ==
    IF s \in Seqs!ToSet(dict) THEN dict ELSE <<s>> \o dict

(* Dictionary::encode: the dictionary in which s has a code.               *)
Encode(dict, s) ==
    IF s \in Seqs!ToSet(dict) THEN dict ELSE Append(dict, s)

(* Dictionary::decode                                                      *)
Decode(dict, code) == dict[code + 1]

NewColumn(spec) ==
    [name |-> spec.name, type |-> spec.type, data |-> <<>>, dict |-> <<>>]

(* Column::append_parsed                                                   *)
AppendParsed(c, f) ==
    CASE c.type = "Int64"   -> [c EXCEPT !.data = Append(@, IntOf[f])]
      [] c.type = "Float64" -> [c EXCEPT !.data = Append(@, DblOf[f])]
      [] c.type = "Dict"    ->
            LET d == Encode(c.dict, f)
            IN  [c EXCEPT !.dict = d, !.data = Append(@, Lookup(d, f))]

(* Table::add_column for each spec in turn.                                *)
EmptyTable(specs) ==
    [cols |-> [i \in DOMAIN specs |-> NewColumn(specs[i])], rows |-> 0]

Named(columns, name) == {i \in DOMAIN columns : columns[i].name = name}

(* Table::has_column, Table::index_of: name_to_idx_ has the last column    *)
(* added under a name.                                                     *)
HasColumn(t, name) == Named(t.cols, name) # {}

ColumnOf(t, name) == t.cols[Sets!Max(Named(t.cols, name))]

(* Schema::find, for a name that is in the schema.                         *)
TypeIn(schema, name) == schema[Sets!Max(Named(schema, name))].type

(* cell() of table.cpp: what a row shows of a column.                      *)
Shown(c, r) == IF c.type = "Dict" THEN Decode(c.dict, c.data[r]) ELSE c.data[r]

(* Table_head(): the first n rows.                                         *)
TableHead(t, n) ==
    [r \in 1 .. Sets!Min({n, t.rows}) |->
        [i \in DOMAIN t.cols |-> Shown(t.cols[i], r)]]

(* A dictionary holds each string once, its codes are those of its column, *)
(* and every column has one entry per row.                                 *)
Sound(t) ==
    \A c \in Seqs!ToSet(t.cols) :
        /\ Len(c.data) = t.rows
        /\ c.type = "Dict" =>
            /\ \A i, j \in DOMAIN c.dict : c.dict[i] = c.dict[j] => i = j
            /\ Seqs!ToSet(c.data) = {i - 1 : i \in DOMAIN c.dict}
=============================================================================
