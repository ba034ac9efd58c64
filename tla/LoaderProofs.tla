---------------------------- MODULE LoaderProofs ----------------------------
(***************************************************************************)
(* Theorems about Engine, for every set of files and limits, every schema  *)
(* and every way text is read as numbers: whatever a file holds, loading   *)
(* and streaming it keep the columns sound and the codes stable, nothing   *)
(* stays open, and the table that is loaded says what the file says.       *)
(***************************************************************************)
EXTENDS Engine, SequenceTheorems, FiniteSetTheorems, WellFoundedInduction, TLAPS

(* Induction without an operator parameter: a nonempty set of natural      *)
(* numbers has a least element.                                            *)
LEMMA LeastNumber ==
    ASSUME NEW T, T \subseteq Nat, T # {}
    PROVE  \E n \in T : \A i \in T : n <= i
<1> DEFINE R == {p \in Nat \X Nat : p[1] < p[2]}
<1>1. IsWellFoundedOn(R, Nat)
    BY NatLessThanWellFounded, Zenon DEF OpToRel
<1>2. PICK n \in T : \A i \in T : <<i, n>> \notin R
    <2> HIDE DEF R
    <2> QED
        BY <1>1, WFMin
<1>3. ASSUME NEW i \in T PROVE n <= i
    <2>1. i \in Nat /\ n \in Nat /\ <<i, n>> \in Nat \X Nat
        OBVIOUS
    <2>2. ~(i < n)
        BY <1>2, <2>1
    <2> QED
        BY <2>1, <2>2
<1> QED
    BY <1>3

(* A nonempty set of positions of a sequence has a last element, which is  *)
(* what lookups by name return.                                            *)
LEMMA LastPosition ==
    ASSUME NEW n \in Nat, NEW S, S \subseteq 1 .. n, S # {}
    PROVE  Sets!Max(S) \in S /\ \A i \in S : Sets!Max(S) >= i
<1> DEFINE T == {n - i : i \in S}
<1>1. T \subseteq Nat /\ T # {}
    <2>1. \A i \in S : i \in Int /\ i <= n
        OBVIOUS
    <2>2. \A i \in S : n - i \in Nat
        BY <2>1
    <2> QED
        BY <2>2
<1>2. PICK m \in T : \A i \in T : m <= i
    <2> HIDE DEF T
    <2> QED
        BY <1>1, LeastNumber
<1>3. PICK last \in S : m = n - last
    OBVIOUS
<1>4. ASSUME NEW i \in S PROVE last >= i
    <2>1. m <= n - i
        BY <1>2
    <2> QED
        BY <1>3, <2>1
<1> QED
    BY <1>4 DEF Sets!Max

-----------------------------------------------------------------------------
(* Positions in increasing order.                                          *)

Upto(S, x) == {y \in S : y <= x}

LEMMA RankType ==
    ASSUME NEW n \in Nat, NEW S, S \subseteq 1 .. n, NEW x
    PROVE  /\ IsFiniteSet(S) /\ Cardinality(S) \in Nat
           /\ Rank(S, x) \in 0 .. Cardinality(S)
           /\ IsFiniteSet(Upto(S, x)) /\ Rank(S, x) = Cardinality(Upto(S, x))
<1>1. IsFiniteSet(S)
    <2>1. IsFiniteSet(1 .. n)
        BY FS_Interval
    <2> QED
        BY <2>1, FS_Subset
<1>2. {y \in S : y <= x} \subseteq S
    OBVIOUS
<1>3. /\ IsFiniteSet({y \in S : y <= x})
      /\ Cardinality({y \in S : y <= x}) <= Cardinality(S)
    BY <1>1, <1>2, FS_Subset
<1>4. Cardinality(S) \in Nat /\ Cardinality({y \in S : y <= x}) \in Nat
    BY <1>1, <1>3, FS_CardinalityType
<1> QED
    BY <1>1, <1>3, <1>4 DEF Rank, Upto

(* Rank counts the positions as they are passed.                           *)
LEMMA RankNext ==
    ASSUME NEW n \in Nat, NEW S, S \subseteq 1 .. n, NEW x \in Nat
    PROVE  /\ x + 1 \in S => Rank(S, x + 1) = Rank(S, x) + 1
           /\ x + 1 \notin S => Rank(S, x + 1) = Rank(S, x)
<1>1. \A y \in S : y \in Nat
    OBVIOUS
<1>2. \A y : IsFiniteSet(Upto(S, y)) /\ Rank(S, y) = Cardinality(Upto(S, y))
    BY RankType
<1>3. CASE x + 1 \in S
    <2>1. \A y \in S : y <= x + 1 <=> y <= x \/ y = x + 1
        BY <1>1
    <2>2. ~(x + 1 <= x)
        OBVIOUS
    <2>3. Upto(S, x + 1) = Upto(S, x) \cup {x + 1} /\ x + 1 \notin Upto(S, x)
        BY <1>3, <2>1, <2>2, Zenon DEF Upto
    <2>4. Cardinality(Upto(S, x + 1)) = Cardinality(Upto(S, x)) + 1
        BY <1>2, <2>3, FS_AddElement
    <2> QED
        BY <1>2, <1>3, <2>4
<1>4. CASE x + 1 \notin S
    <2>1. \A y \in S : y <= x + 1 <=> y <= x
        BY <1>1, <1>4
    <2>2. Upto(S, x + 1) = Upto(S, x)
        BY <2>1, Zenon DEF Upto
    <2> QED
        BY <1>2, <1>4, <2>2
<1> QED
    BY <1>3, <1>4

LEMMA RankEnds ==
    ASSUME NEW n \in Nat, NEW S, S \subseteq 1 .. n
    PROVE  Rank(S, 0) = 0 /\ Rank(S, n) = Cardinality(S)
<1>1. \A y \in S : y <= n /\ ~(y <= 0)
    OBVIOUS
<1>2. {y \in S : y <= 0} = {} /\ {y \in S : y <= n} = S
    BY <1>1, Zenon
<1> QED
    BY <1>2, FS_EmptySet DEF Rank

LEMMA RankGrows ==
    ASSUME NEW n \in Nat, NEW S, S \subseteq 1 .. n,
           NEW x \in Nat, NEW y \in Nat, x <= y
    PROVE  /\ Rank(S, x) <= Rank(S, y)
           /\ x < y /\ y \in S => Rank(S, x) < Rank(S, y)
<1>1. Upto(S, x) \subseteq Upto(S, y)
    <2>1. \A z \in S : z <= x => z <= y
        OBVIOUS
    <2> QED
        BY <2>1, Zenon DEF Upto
<1>2. \A z : IsFiniteSet(Upto(S, z)) /\ Rank(S, z) = Cardinality(Upto(S, z))
    BY RankType
<1>3. /\ Cardinality(Upto(S, x)) \in Nat /\ Cardinality(Upto(S, y)) \in Nat
      /\ Cardinality(Upto(S, x)) <= Cardinality(Upto(S, y))
      /\ Cardinality(Upto(S, x)) = Cardinality(Upto(S, y)) => Upto(S, x) = Upto(S, y)
    BY <1>1, <1>2, FS_Subset, FS_CardinalityType
<1>4. ASSUME x < y, y \in S PROVE Upto(S, x) # Upto(S, y)
    BY <1>4 DEF Upto
<1> QED
    BY <1>2, <1>3, <1>4

(* There is a k-th position for every k up to their number ...             *)
LEMMA NthExists ==
    ASSUME NEW n \in Nat, NEW S, S \subseteq 1 .. n, NEW k \in 1 .. Cardinality(S)
    PROVE  Nth(S, k) \in S /\ Rank(S, Nth(S, k)) = k
<1> DEFINE T == {x \in 0 .. n : Rank(S, x) >= k}
<1>1. Cardinality(S) \in Nat /\ k \in Nat /\ k # 0 /\ \A x : Rank(S, x) \in Nat
    <2>1. Cardinality(S) \in Nat /\ \A x : Rank(S, x) \in 0 .. Cardinality(S)
        BY RankType
    <2> QED
        BY <2>1
<1>2. n \in T
    <2>1. Rank(S, n) = Cardinality(S)
        BY RankEnds
    <2> QED
        BY <1>1, <2>1
<1>3. PICK x \in T : \A y \in T : x <= y
    <2>1. T \subseteq Nat
        OBVIOUS
    <2> HIDE DEF T
    <2> QED
        BY <1>2, <2>1, LeastNumber
<1>4. x \in 0 .. n /\ Rank(S, x) >= k
    OBVIOUS
<1>5. x # 0
    <2>1. Rank(S, 0) = 0
        BY RankEnds
    <2> QED
        BY <1>1, <1>4, <2>1
<1>6. x - 1 \in Nat /\ Rank(S, x - 1) < k
    <2>1. x - 1 \in 0 .. n /\ x - 1 \notin T
        BY <1>3, <1>4, <1>5
    <2> QED
        BY <1>1, <2>1
<1>7. x \in S /\ Rank(S, x) = k
    <2>1. x = (x - 1) + 1
        BY <1>4
    <2>2. /\ x \in S => Rank(S, x) = Rank(S, x - 1) + 1
          /\ x \notin S => Rank(S, x) = Rank(S, x - 1)
        BY <1>6, <2>1, RankNext
    <2> QED
        BY <1>1, <1>4, <1>6, <2>2
<1> QED
    BY <1>7 DEF Nth

(* ... and only one.                                                       *)
LEMMA NthOfRank ==
    ASSUME NEW n \in Nat, NEW S, S \subseteq 1 .. n, NEW x \in S
    PROVE  Rank(S, x) \in 1 .. Cardinality(S) /\ Nth(S, Rank(S, x)) = x
<1>1. x \in Nat /\ x # 0 /\ \A y \in S : y \in Nat
    OBVIOUS
<1>2. Cardinality(S) \in Nat /\ \A y : Rank(S, y) \in 0 .. Cardinality(S)
    BY RankType
<1> DEFINE y == Nth(S, Rank(S, x))
<1>3. \A a, b \in Nat : a < b /\ b \in S => Rank(S, a) < Rank(S, b)
    <2> SUFFICES ASSUME NEW a \in Nat, NEW b \in Nat, a < b, b \in S
                 PROVE  Rank(S, a) < Rank(S, b)
        OBVIOUS
    <2>1. a <= b
        OBVIOUS
    <2> QED
        BY <2>1, RankGrows
<1>4. Rank(S, x) # 0
    <2>1. Rank(S, 0) < Rank(S, x)
        BY <1>3, <1>1
    <2>2. Rank(S, 0) = 0
        BY RankEnds
    <2> QED
        BY <1>2, <2>1, <2>2
<1>5. Rank(S, x) \in 1 .. Cardinality(S)
    BY <1>2, <1>4
<1>6. y \in S /\ Rank(S, y) = Rank(S, x)
    BY <1>5, NthExists
<1> HIDE DEF y
<1>7. ~(x < y)
    BY <1>3, <1>1, <1>2, <1>6
<1>8. ~(y < x)
    BY <1>3, <1>1, <1>2, <1>6
<1>9. x = y
    BY <1>1, <1>6, <1>7, <1>8
<1> QED
    BY <1>5, <1>9 DEF y

(* In a run of positions the k-th is the k-th.                             *)
LEMMA NthOfRun ==
    ASSUME NEW n \in Nat, NEW a \in Nat \ {0}, NEW k \in Nat \ {0}, a + k - 1 <= n
    PROVE  Nth(a .. n, k) = a + k - 1
<1> DEFINE x == a + k - 1
<1>1. a .. n \subseteq 1 .. n /\ x \in a .. n
    OBVIOUS
<1>2. {y \in a .. n : y <= x} = a .. x
    BY <1>1
<1>3. Cardinality(a .. x) = k
    <2>1. a \in Int /\ x \in Int /\ ~(a > x) /\ x - a + 1 = k
        OBVIOUS
    <2> HIDE DEF x
    <2> QED
        BY <2>1, FS_Interval
<1>4. Rank(a .. n, x) = k
    BY <1>2, <1>3 DEF Rank
<1> HIDE DEF x
<1>5. Nth(a .. n, Rank(a .. n, x)) = x
    BY <1>1, NthOfRank
<1> QED
    BY <1>4, <1>5 DEF x

-----------------------------------------------------------------------------
(* Columns.                                                                *)

Entries == Int \cup {IntOf[t] : t \in Tokens} \cup {DblOf[t] : t \in Tokens}
ColumnRecords ==
    [name : Tokens, type : Types, data : Seq(Entries), dict : Seq(Tokens)]

(* A column of n entries: what Sound says of one.                          *)
SoundColumn(c, n) ==
    /\ Len(c.data) = n
    /\ c.type = "Dict" =>
        /\ \A i, j \in DOMAIN c.dict : c.dict[i] = c.dict[j] => i = j
        /\ Seqs!ToSet(c.data) = {i - 1 : i \in DOMAIN c.dict}

SoundColumns(columns, n) ==
    /\ columns \in Seq(ColumnRecords)
    /\ \A i \in DOMAIN columns : SoundColumn(columns[i], n)

(* What Grows says of two columns.                                         *)
ColumnGrows(c, d) ==
    Seqs!IsPrefix(c.data, d.data) /\ Seqs!IsPrefix(c.dict, d.dict)

LEMMA PrefixRefl ==
    ASSUME NEW S, NEW s \in Seq(S)
    PROVE  Seqs!IsPrefix(s, s)
BY DEF Seqs!IsPrefix

LEMMA PrefixAppend ==
    ASSUME NEW S, NEW s \in Seq(S), NEW x \in S
    PROVE  Seqs!IsPrefix(s, Append(s, x))
BY DEF Seqs!IsPrefix

LEMMA PrefixTrans ==
    ASSUME NEW S, NEW s \in Seq(S), NEW t \in Seq(S), NEW u \in Seq(S),
           Seqs!IsPrefix(s, t), Seqs!IsPrefix(t, u)
    PROVE  Seqs!IsPrefix(s, u)
<1>1. /\ Len(s) <= Len(t) /\ Len(t) <= Len(u)
      /\ SubSeq(s, 1, Len(s)) = SubSeq(t, 1, Len(s))
      /\ SubSeq(t, 1, Len(t)) = SubSeq(u, 1, Len(t))
    BY DEF Seqs!IsPrefix
<1>2. ASSUME NEW i \in 1 .. Len(s) PROVE t[i] = u[i]
    <2>1. i \in 1 .. Len(t)
        BY <1>1
    <2>2. SubSeq(t, 1, Len(t))[i] = t[i] /\ SubSeq(u, 1, Len(t))[i] = u[i]
        BY <1>1, <2>1
    <2> QED
        BY <1>1, <2>2
<1>3. SubSeq(t, 1, Len(s)) = SubSeq(u, 1, Len(s))
    BY <1>1, <1>2
<1> QED
    BY <1>1, <1>3 DEF Seqs!IsPrefix

(* Encoding a string the dictionary has changes nothing; a new one gets    *)
(* the next code.  Either way its code is its position, less one.          *)
LEMMA EncodeKeeps ==
    ASSUME NEW dict \in Seq(Tokens), NEW s \in Tokens,
           \A i, j \in DOMAIN dict : dict[i] = dict[j] => i = j
    PROVE  LET d == Encode(dict, s)
           IN  /\ d \in Seq(Tokens) /\ Seqs!IsPrefix(dict, d)
               /\ \A i, j \in DOMAIN d : d[i] = d[j] => i = j
               /\ Lookup(d, s) + 1 \in DOMAIN d /\ Lookup(d, s) \in Int
               /\ DOMAIN d = DOMAIN dict \cup {Lookup(d, s) + 1}
               /\ Decode(d, Lookup(d, s)) = s
<1> DEFINE d == Encode(dict, s)
<1>1. CASE s \in Seqs!ToSet(dict)
    <2>1. d = dict
        BY <1>1 DEF Encode
    <2>2. PICK i \in DOMAIN dict : dict[i] = s
        BY <1>1 DEF Seqs!ToSet
    <2>3. Lookup(dict, s) = i - 1
        BY <1>1, <2>2 DEF Lookup
    <2>4. Seqs!IsPrefix(dict, dict)
        BY PrefixRefl
    <2>5. Lookup(dict, s) + 1 = i /\ Lookup(dict, s) \in Int
        BY <2>2, <2>3
    <2>6. DOMAIN dict = DOMAIN dict \cup {Lookup(dict, s) + 1}
        BY <2>2, <2>5
    <2> QED
        BY <2>1, <2>2, <2>4, <2>5, <2>6 DEF Decode
<1>2. CASE s \notin Seqs!ToSet(dict)
    <2>1. d = Append(dict, s)
        BY <1>2 DEF Encode
    <2>2. \A i \in DOMAIN dict : dict[i] # s
        BY <1>2 DEF Seqs!ToSet
    <2>3. /\ d \in Seq(Tokens) /\ Len(d) = Len(dict) + 1 /\ Len(dict) \in Nat
          /\ \A i \in 1 .. Len(dict) : d[i] = dict[i]
          /\ d[Len(dict) + 1] = s
          /\ DOMAIN d = 1 .. Len(dict) + 1 /\ DOMAIN dict = 1 .. Len(dict)
        BY <2>1
    <2>4. \A i \in DOMAIN d : d[i] = s <=> i = Len(dict) + 1
        BY <2>2, <2>3
    <2>5. s \in Seqs!ToSet(d)
        BY <2>3 DEF Seqs!ToSet
    <2>6. Lookup(d, s) = Len(dict) + 1 - 1
        BY <2>3, <2>4, <2>5 DEF Lookup
    <2>7. Seqs!IsPrefix(dict, d)
        BY <2>1, PrefixAppend
    <2>8. \A i, j \in DOMAIN d : d[i] = d[j] => i = j
        BY <2>3, <2>4
    <2> HIDE DEF d
    <2>9. Lookup(d, s) + 1 = Len(dict) + 1 /\ Lookup(d, s) \in Int
        BY <2>3, <2>6
    <2>10. DOMAIN d = DOMAIN dict \cup {Lookup(d, s) + 1}
        BY <2>3, <2>9
    <2> QED
        BY <2>3, <2>7, <2>8, <2>9, <2>10 DEF d, Decode
<1> QED
    BY <1>1, <1>2

(* One field more: the column has one entry more, its codes are still      *)
(* those of its dictionary, and what it had stays.                         *)
LEMMA AppendKeeps ==
    ASSUME NEW c \in ColumnRecords, NEW f \in Tokens, NEW n \in Nat,
           SoundColumn(c, n)
    PROVE  LET e == AppendParsed(c, f)
           IN  e \in ColumnRecords /\ SoundColumn(e, n + 1) /\ ColumnGrows(c, e)
<1> DEFINE e == AppendParsed(c, f)
<1>1. /\ c.type \in Types /\ c.name \in Tokens
      /\ c.data \in Seq(Entries) /\ c.dict \in Seq(Tokens)
      /\ c = [name |-> c.name, type |-> c.type, data |-> c.data, dict |-> c.dict]
    BY DEF ColumnRecords
<1>2. ASSUME NEW x \in Entries, NEW d \in Seq(Tokens),
             e = [name |-> c.name, type |-> c.type, data |-> Append(c.data, x), dict |-> d],
             Seqs!IsPrefix(c.dict, d),
             c.type = "Dict" =>
                /\ \A i, j \in DOMAIN d : d[i] = d[j] => i = j
                /\ DOMAIN d = DOMAIN c.dict \cup {x + 1} /\ x \in Int
      PROVE  e \in ColumnRecords /\ SoundColumn(e, n + 1) /\ ColumnGrows(c, e)
    <2>1. Append(c.data, x) \in Seq(Entries) /\ Len(Append(c.data, x)) = n + 1
        BY <1>1 DEF SoundColumn
    <2>2. e \in ColumnRecords
        BY <1>1, <1>2, <2>1 DEF ColumnRecords
    <2>3. ColumnGrows(c, e)
        BY <1>1, <1>2, PrefixAppend DEF ColumnGrows
    <2>4. ASSUME c.type = "Dict"
          PROVE  Seqs!ToSet(Append(c.data, x)) = {i - 1 : i \in DOMAIN d}
        <3>1. Seqs!ToSet(Append(c.data, x)) = Seqs!ToSet(c.data) \cup {x}
            <4> DEFINE more == Append(c.data, x)
            <4>1. /\ DOMAIN more = DOMAIN c.data \cup {Len(c.data) + 1}
                  /\ \A i \in DOMAIN c.data : more[i] = c.data[i]
                  /\ more[Len(c.data) + 1] = x
                BY <1>1
            <4> HIDE DEF more
            <4> QED
                BY <4>1 DEF Seqs!ToSet, more
        <3>2. Seqs!ToSet(c.data) = {i - 1 : i \in DOMAIN c.dict}
            BY <2>4 DEF SoundColumn
        <3>3. DOMAIN c.dict \subseteq Nat
            BY <1>1
        <3>4. DOMAIN d = DOMAIN c.dict \cup {x + 1} /\ x \in Int
            BY <1>2, <2>4
        <3>5. ASSUME NEW y
              PROVE  (\E i \in DOMAIN d : y = i - 1)
                        <=> (\E i \in DOMAIN c.dict : y = i - 1) \/ y = x
            <4>1. x + 1 \in DOMAIN d /\ x = (x + 1) - 1
                BY <3>4
            <4>2. ASSUME NEW i \in DOMAIN d, y = i - 1
                  PROVE  (\E j \in DOMAIN c.dict : y = j - 1) \/ y = x
                BY <3>4, <4>1, <4>2
            <4> QED
                BY <3>4, <4>1, <4>2
        <3> QED
            BY <3>1, <3>2, <3>5
    <2>5. SoundColumn(e, n + 1)
        BY <1>2, <2>1, <2>4 DEF SoundColumn
    <2> QED
        BY <2>2, <2>3, <2>5
<1>3. CASE c.type = "Int64"
    <2>1. IntOf[f] \in Entries
        BY DEF Entries
    <2>2. e = [c EXCEPT !.data = Append(@, IntOf[f])]
        BY <1>3 DEF AppendParsed
    <2> HIDE DEF e
    <2>3. e = [name |-> c.name, type |-> c.type,
               data |-> Append(c.data, IntOf[f]), dict |-> c.dict]
        BY <1>1, <2>2
    <2>4. Seqs!IsPrefix(c.dict, c.dict)
        BY <1>1, PrefixRefl
    <2> QED
        BY <1>1, <1>2, <1>3, <2>1, <2>3, <2>4 DEF e
<1>4. CASE c.type = "Float64"
    <2>1. DblOf[f] \in Entries
        BY DEF Entries
    <2>2. e = [c EXCEPT !.data = Append(@, DblOf[f])]
        BY <1>4 DEF AppendParsed
    <2> HIDE DEF e
    <2>3. e = [name |-> c.name, type |-> c.type,
               data |-> Append(c.data, DblOf[f]), dict |-> c.dict]
        BY <1>1, <2>2
    <2>4. Seqs!IsPrefix(c.dict, c.dict)
        BY <1>1, PrefixRefl
    <2> QED
        BY <1>1, <1>2, <1>4, <2>1, <2>3, <2>4 DEF e
<1>5. CASE c.type = "Dict"
    <2> DEFINE d == Encode(c.dict, f)
               x == Lookup(d, f)
    <2>1. /\ d \in Seq(Tokens) /\ Seqs!IsPrefix(c.dict, d)
          /\ \A i, j \in DOMAIN d : d[i] = d[j] => i = j
          /\ x \in Int
          /\ DOMAIN d = DOMAIN c.dict \cup {x + 1}
        BY <1>1, <1>5, EncodeKeeps DEF SoundColumn
    <2>2. x \in Entries
        BY <2>1 DEF Entries
    <2>3. e = [c EXCEPT !.dict = d, !.data = Append(@, x)]
        BY <1>5 DEF AppendParsed
    <2> HIDE DEF e, d, x
    <2>4. e = [name |-> c.name, type |-> c.type, data |-> Append(c.data, x), dict |-> d]
        BY <1>1, <2>3
    <2> QED
        BY <1>2, <2>1, <2>2, <2>4 DEF e
<1> QED
    BY <1>1, <1>3, <1>4, <1>5 DEF Types

(* What all columns of a table do between two states.                      *)
ColumnsGrow(columns, more) ==
    DOMAIN more = DOMAIN columns
        /\ \A i \in DOMAIN columns : ColumnGrows(columns[i], more[i])

(* One line more: every column has one entry more, however long the line.  *)
LEMMA FeedKeeps ==
    ASSUME NEW n \in Nat, NEW columns, SoundColumns(columns, n),
           NEW line \in Seq(Tokens), NEW fieldOf
    PROVE  LET fed == Feed(columns, line, fieldOf)
           IN  SoundColumns(fed, n + 1) /\ ColumnsGrow(columns, fed)
<1> DEFINE fed == Feed(columns, line, fieldOf)
           text(i) == IF fieldOf[i] \in DOMAIN line THEN line[fieldOf[i]] ELSE ""
<1>1. columns \in Seq(ColumnRecords) /\ DOMAIN fed = DOMAIN columns
    BY DEF SoundColumns, Feed
<1>2. ASSUME NEW i \in DOMAIN columns
      PROVE  /\ fed[i] \in ColumnRecords /\ SoundColumn(fed[i], n + 1)
             /\ ColumnGrows(columns[i], fed[i])
    <2>1. text(i) \in Tokens
        <3>1. "" \in Tokens
            BY ColumnsAssumption DEF Tokens
        <3>2. \A p \in DOMAIN line : line[p] \in Tokens
            OBVIOUS
        <3> QED
            BY <3>1, <3>2
    <2>2. fed[i] = AppendParsed(columns[i], text(i))
        BY DEF Feed
    <2>3. columns[i] \in ColumnRecords /\ SoundColumn(columns[i], n)
        BY <1>1 DEF SoundColumns
    <2> HIDE DEF fed, text
    <2> QED
        BY <2>1, <2>2, <2>3, AppendKeeps
<1>3. fed = [i \in 1 .. Len(columns) |-> fed[i]]
    BY <1>1 DEF Feed
<1> HIDE DEF fed
<1>4. fed \in Seq(ColumnRecords)
    <2>1. Len(columns) \in Nat /\ DOMAIN columns = 1 .. Len(columns)
        BY <1>1
    <2>2. fed \in [1 .. Len(columns) -> ColumnRecords]
        BY <1>1, <1>2, <1>3, <2>1
    <2> QED
        BY <2>1, <2>2, SeqDef
<1>5. SoundColumns(fed, n + 1)
    BY <1>1, <1>2, <1>4 DEF SoundColumns
<1>6. ColumnsGrow(columns, fed)
    BY <1>1, <1>2 DEF ColumnsGrow
<1> QED
    BY <1>5, <1>6 DEF fed

LEMMA GrowTrans ==
    ASSUME NEW a \in Seq(ColumnRecords), NEW b \in Seq(ColumnRecords),
           NEW c \in Seq(ColumnRecords), ColumnsGrow(a, b), ColumnsGrow(b, c)
    PROVE  ColumnsGrow(a, c)
<1>1. DOMAIN a = DOMAIN b /\ DOMAIN b = DOMAIN c
    BY DEF ColumnsGrow
<1>2. ASSUME NEW i \in DOMAIN a PROVE ColumnGrows(a[i], c[i])
    <2>1. a[i] \in ColumnRecords /\ b[i] \in ColumnRecords /\ c[i] \in ColumnRecords
        BY <1>1
    <2>2. ColumnGrows(a[i], b[i]) /\ ColumnGrows(b[i], c[i])
        BY <1>1 DEF ColumnsGrow
    <2>3. Seqs!IsPrefix(a[i].data, c[i].data)
        BY <2>1, <2>2, PrefixTrans DEF ColumnGrows, ColumnRecords
    <2>4. Seqs!IsPrefix(a[i].dict, c[i].dict)
        BY <2>1, <2>2, PrefixTrans DEF ColumnGrows, ColumnRecords
    <2> QED
        BY <2>3, <2>4 DEF ColumnGrows
<1> QED
    BY <1>1, <1>2 DEF ColumnsGrow

LEMMA GrowRefl ==
    ASSUME NEW a \in Seq(ColumnRecords)
    PROVE  ColumnsGrow(a, a)
<1> SUFFICES ASSUME NEW i \in DOMAIN a PROVE ColumnGrows(a[i], a[i])
    BY DEF ColumnsGrow
<1>1. a[i] \in ColumnRecords
    OBVIOUS
<1>2. a[i].data \in Seq(Entries) /\ a[i].dict \in Seq(Tokens)
    BY <1>1 DEF ColumnRecords
<1> QED
    BY <1>2, PrefixRefl DEF ColumnGrows

(* The columns after the first n of k lines of a batch, as apply_batch()   *)
(* makes them one after the other.                                         *)
Batched(f, columns, lines, k) ==
    f = [n \in 0 .. k |->
            IF n = 0 THEN columns
            ELSE Feed(f[n - 1], lines[n], [c \in DOMAIN columns |-> c])]

LEMMA BatchExists ==
    ASSUME NEW k \in Nat, NEW columns, NEW lines
    PROVE  \E f : Batched(f, columns, lines, k)
<1> DEFINE T == {n \in 0 .. k : ~\E f : Batched(f, columns, lines, n)}
<1>1. T = {}
    <2> SUFFICES ASSUME T # {} PROVE FALSE
        OBVIOUS
    <2>1. PICK n \in T : \A i \in T : n <= i
        <3>1. T \subseteq Nat
            OBVIOUS
        <3> HIDE DEF T
        <3> QED
            BY <3>1, LeastNumber
    <2>2. n \in 0 .. k /\ ~\E f : Batched(f, columns, lines, n)
        OBVIOUS
    <2>3. n # 0
        <3> SUFFICES ASSUME n = 0 PROVE FALSE
            OBVIOUS
        <3> DEFINE f == [i \in 0 .. 0 |-> columns]
        <3>1. Batched(f, columns, lines, 0)
            BY DEF Batched
        <3> QED
            BY <2>2, <3>1
    <2>4. PICK f : Batched(f, columns, lines, n - 1)
        <3>1. n - 1 \in 0 .. k /\ ~(n <= n - 1)
            BY <2>2, <2>3
        <3> QED
            BY <2>1, <3>1
    <2> DEFINE g == [i \in 0 .. n |->
                        IF i = n
                        THEN Feed(f[n - 1], lines[n], [c \in DOMAIN columns |-> c])
                        ELSE f[i]]
    <2>5. /\ g[0] = columns
          /\ \A i \in 1 .. n :
                g[i] = Feed(g[i - 1], lines[i], [c \in DOMAIN columns |-> c])
        <3>1. f[0] = columns /\ 0 \in 0 .. n - 1
            BY <2>2, <2>3, <2>4 DEF Batched
        <3>2. ASSUME NEW i \in 1 .. n
              PROVE  g[i] = Feed(g[i - 1], lines[i], [c \in DOMAIN columns |-> c])
            <4>1. g[i - 1] = f[i - 1]
                BY <2>2, <2>3
            <4>2. CASE i = n
                BY <2>2, <4>1, <4>2
            <4>3. CASE i # n
                <5>1. i \in 0 .. n - 1 /\ i # 0 /\ i \in 0 .. n
                    BY <2>2, <4>3
                <5>2. f[i] = Feed(f[i - 1], lines[i], [c \in DOMAIN columns |-> c])
                    BY <2>4, <5>1 DEF Batched
                <5> QED
                    BY <4>1, <4>3, <5>1, <5>2
            <4> QED
                BY <4>2, <4>3
        <3>3. g[0] = f[0]
            BY <2>2, <2>3
        <3> HIDE DEF g
        <3> QED
            BY <3>1, <3>2, <3>3
    <2>6. Batched(g, columns, lines, n)
        <3>1. g = [i \in 0 .. n |-> g[i]]
            OBVIOUS
        <3> HIDE DEF g
        <3>2. ASSUME NEW i \in 0 .. n
              PROVE  g[i] = IF i = 0 THEN columns
                            ELSE Feed(g[i - 1], lines[i], [c \in DOMAIN columns |-> c])
            <4>1. i = 0 \/ i \in 1 .. n
                BY <2>2
            <4> QED
                BY <2>5, <4>1
        <3> QED
            BY <3>1, <3>2 DEF Batched
    <2> QED
        BY <2>2, <2>6
<1>2. k \in 0 .. k
    OBVIOUS
<1> QED
    BY <1>1, <1>2

(* A batch keeps the columns sound: k lines, k entries more in each.       *)
LEMMA BatchKeeps ==
    ASSUME NEW n \in Nat, NEW columns, SoundColumns(columns, n),
           NEW k \in Nat, NEW lines, \A i \in 1 .. k : lines[i] \in Seq(Tokens),
           NEW f, Batched(f, columns, lines, k)
    PROVE  \A i \in 0 .. k :
                SoundColumns(f[i], n + i) /\ ColumnsGrow(columns, f[i])
<1> DEFINE Good(i) == SoundColumns(f[i], n + i) /\ ColumnsGrow(columns, f[i])
           T == {i \in 0 .. k : ~Good(i)}
<1>1. T = {}
    <2> SUFFICES ASSUME T # {} PROVE FALSE
        OBVIOUS
    <2>1. PICK i \in T : \A j \in T : i <= j
        <3>1. T \subseteq Nat
            OBVIOUS
        <3> HIDE DEF T
        <3> QED
            BY <3>1, LeastNumber
    <2>2. i \in 0 .. k /\ ~Good(i)
        OBVIOUS
    <2>3. i # 0
        <3> SUFFICES ASSUME i = 0 PROVE FALSE
            OBVIOUS
        <3>1. f[0] = columns
            BY DEF Batched
        <3>2. columns \in Seq(ColumnRecords) /\ n + 0 = n
            BY DEF SoundColumns
        <3> QED
            BY <2>2, <3>1, <3>2, GrowRefl
    <2>4. Good(i - 1)
        <3>1. i - 1 \in 0 .. k /\ ~(i <= i - 1)
            BY <2>2, <2>3
        <3> HIDE DEF Good
        <3> QED
            BY <2>1, <3>1
    <2> DEFINE before == f[i - 1]
    <2>5. f[i] = Feed(before, lines[i], [c \in DOMAIN columns |-> c])
        BY <2>2, <2>3 DEF Batched
    <2>6. /\ n + (i - 1) \in Nat /\ n + (i - 1) + 1 = n + i
          /\ lines[i] \in Seq(Tokens)
        BY <2>2, <2>3
    <2>7. SoundColumns(before, n + (i - 1)) /\ ColumnsGrow(columns, before)
        BY <2>4
    <2> HIDE DEF before
    <2>8. SoundColumns(f[i], n + (i - 1) + 1) /\ ColumnsGrow(before, f[i])
        BY <2>5, <2>6, <2>7, FeedKeeps
    <2>9. ColumnsGrow(columns, f[i])
        BY <2>7, <2>8, GrowTrans DEF SoundColumns
    <2> QED
        BY <2>2, <2>6, <2>8, <2>9
<1> QED
    BY <1>1

Specs == [name : Tokens, type : Types]

LEMMA EmptyIsSound ==
    ASSUME NEW specs \in Seq(Specs)
    PROVE  LET t == EmptyTable(specs)
           IN  /\ t = [cols |-> t.cols, rows |-> 0] /\ SoundColumns(t.cols, 0)
               /\ Len(t.cols) = Len(specs)
<1> DEFINE cols == [i \in DOMAIN specs |-> NewColumn(specs[i])]
<1>1. EmptyTable(specs) = [cols |-> cols, rows |-> 0]
    BY DEF EmptyTable
<1>2. ASSUME NEW i \in DOMAIN specs
      PROVE  cols[i] \in ColumnRecords /\ SoundColumn(cols[i], 0)
    <2>1. specs[i] \in Specs
        OBVIOUS
    <2>2. /\ cols[i].name = specs[i].name /\ cols[i].type = specs[i].type
          /\ cols[i].data = <<>> /\ cols[i].dict = <<>>
          /\ cols[i] \in ColumnRecords
        BY <2>1 DEF NewColumn, ColumnRecords, Specs
    <2>3. Seqs!ToSet(<<>>) = {j - 1 : j \in DOMAIN <<>>}
        BY DEF Seqs!ToSet
    <2> HIDE DEF cols
    <2>4. Len(cols[i].data) = 0 /\ DOMAIN cols[i].dict = {}
        BY <2>2
    <2> QED
        BY <2>2, <2>3, <2>4 DEF SoundColumn
<1>3. Len(specs) \in Nat /\ DOMAIN cols = 1 .. Len(specs)
    OBVIOUS
<1>4. cols \in [1 .. Len(specs) -> ColumnRecords]
    BY <1>2, <1>3
<1>5. cols \in Seq(ColumnRecords) /\ Len(cols) = Len(specs)
    BY <1>3, <1>4
<1>6. SoundColumns(cols, 0)
    BY <1>2, <1>5 DEF SoundColumns
<1> QED
    BY <1>1, <1>5, <1>6

-----------------------------------------------------------------------------
(* Headers.                                                                *)

(* The fields of a header that the schema knows.                           *)
LEMMA KnownFields ==
    ASSUME NEW header \in Seq(Tokens)
    PROVE  /\ Len(header) \in Nat /\ Known(header) \subseteq 1 .. Len(header)
           /\ Cardinality(Known(header)) \in Nat
           /\ \A f : Rank(Known(header), f) \in 0 .. Cardinality(Known(header))
<1>1. Known(header) \subseteq 1 .. Len(header) /\ Len(header) \in Nat
    BY DEF Known
<1> QED
    BY <1>1, RankType

LEMMA SchemaTypes ==
    ASSUME NEW name \in Tokens, InSchema(name)
    PROVE  TypeIn(Schema, name) \in Types
<1>1. Schema \in Seq(Specs)
    BY LoaderAssumption DEF Specs
<1>2. Named(Schema, name) \subseteq 1 .. Len(Schema) /\ Len(Schema) \in Nat
    BY <1>1 DEF Named
<1>3. Sets!Max(Named(Schema, name)) \in Named(Schema, name)
    BY <1>2, LastPosition DEF InSchema
<1> DEFINE last == Sets!Max(Named(Schema, name))
<1>4. last \in DOMAIN Schema
    BY <1>3 DEF Named
<1> HIDE DEF last
<1>5. Schema[last] \in Specs
    BY <1>1, <1>4
<1>6. Schema[last].type \in Types
    BY <1>5 DEF Specs
<1> QED
    BY <1>6 DEF TypeIn, last

(* What a header gives: one column of the schema's type for each field the *)
(* schema knows, and for each field a column to feed or none.              *)
LEMMA HeaderMakesColumns ==
    ASSUME NEW header \in Seq(Tokens)
    PROVE  /\ HeaderColumns(header) \in Seq(Specs)
           /\ \A f \in DOMAIN HeaderTargets(header) :
                HeaderTargets(header)[f] \in 0 .. Len(HeaderColumns(header))
<1> DEFINE n == Cardinality(Known(header))
           cols == HeaderColumns(header)
           field(c) == Nth(Known(header), c)
<1>1. n \in Nat
    BY KnownFields
<1>2. ASSUME NEW c \in 1 .. n PROVE cols[c] \in Specs
    <2>1. field(c) \in Known(header)
        BY KnownFields, NthExists
    <2>2. header[field(c)] \in Tokens /\ InSchema(header[field(c)])
        BY <2>1 DEF Known
    <2>3. TypeIn(Schema, header[field(c)]) \in Types
        BY <2>2, SchemaTypes
    <2>4. cols[c] = [name |-> header[field(c)], type |-> TypeIn(Schema, header[field(c)])]
        BY DEF HeaderColumns
    <2> HIDE DEF cols, field
    <2> QED
        BY <2>2, <2>3, <2>4 DEF Specs
<1>3. cols = [c \in 1 .. n |-> cols[c]]
    BY DEF HeaderColumns
<1> HIDE DEF cols, n
<1>4. cols \in Seq(Specs) /\ Len(cols) = n
    BY <1>1, <1>2, <1>3
<1>5. ASSUME NEW f \in DOMAIN HeaderTargets(header)
      PROVE  HeaderTargets(header)[f] \in 0 .. n
    <2>1. Rank(Known(header), f) \in 0 .. n
        BY KnownFields DEF n
    <2>2. HeaderTargets(header)[f] \in {Rank(Known(header), f), 0}
        BY DEF HeaderTargets
    <2> QED
        BY <1>1, <2>1, <2>2
<1> QED
    BY <1>4, <1>5 DEF cols

-----------------------------------------------------------------------------
(* The loaders.  Where from_csv is decides what is open, and what it has   *)
(* of the file; both tables are sound at every step, the bulk one for the  *)
(* rows read so far, before rows is set.                                   *)

Place ==
    /\ file \in Files /\ hasHeader \in BOOLEAN /\ limit \in Nat
    /\ lpc \in {"open", "stat", "map", "header", "body", "end", "done", "failed"}
    /\ fd \in {"none", "open", "closed"} /\ mapped \in BOOLEAN
    /\ lpc = "open" => fd = "none"
    /\ lpc \in {"stat", "map", "header", "body", "end"} => fd = "open"
    /\ lpc \in {"header", "body", "end"} => mapped = (file # <<>>)
    /\ lpc \in {"open", "stat", "map"} => ~mapped
    /\ lpc \in {"done", "failed"} => fd # "open" /\ ~mapped

Progress ==
    /\ at \in 0 .. Len(file) /\ row \in 0 .. at
    /\ lpc \in {"open", "stat", "map", "header"} => at = 0
    /\ \A f \in DOMAIN targets : targets[f] \in 0 .. Len(bulk.cols)
    /\ sent \in 0 .. Len(Inserted) /\ streamed.rows = sent

Tables ==
    /\ bulk = [cols |-> bulk.cols, rows |-> IF lpc = "done" THEN row ELSE 0]
    /\ lpc \in {"open", "stat", "map", "header"} => Len(bulk.cols) = 0
    /\ SoundColumns(bulk.cols, row)
    /\ streamed = [cols |-> streamed.cols, rows |-> streamed.rows]
    /\ SoundColumns(streamed.cols, sent)

LoadInv == Place /\ Progress /\ Tables

Lines == Seq(Tokens) \ {<<>>}

LEMMA SmallerOfTwo ==
    ASSUME NEW a \in Nat, NEW b \in Nat
    PROVE  Sets!Min({a, b}) \in {a, b} /\ Sets!Min({a, b}) <= a /\ Sets!Min({a, b}) <= b
<1>1. \E x \in {a, b} : \A y \in {a, b} : x <= y
    OBVIOUS
<1> QED
    BY <1>1 DEF Sets!Min

LEMMA LinesAreTokens ==
    ASSUME Place
    PROVE  /\ file \in Seq(Lines) /\ Len(file) \in Nat
           /\ \A i \in 1 .. Len(file) : NextLine(file[i]) \in Seq(Tokens)
<1>1. file \in Seq(Lines) /\ Len(file) \in Nat
    BY LoaderAssumption DEF Place, Lines
<1>2. ASSUME NEW i \in 1 .. Len(file) PROVE NextLine(file[i]) \in Seq(Tokens)
    <2> DEFINE line == file[i]
               last == Len(line)
    <2>1. line \in Seq(Tokens) /\ line # <<>>
        BY <1>1 DEF Lines
    <2>2. last \in 1 .. Len(line) /\ line[last] \in Tokens
        BY <2>1
    <2>3. Chomp[line[last]] \in Tokens
        BY <2>2, LoaderAssumption
    <2>4. NextLine(line) = [line EXCEPT ![last] = Chomp[line[last]]]
        BY DEF NextLine
    <2> HIDE DEF line, last
    <2>5. NextLine(line) \in Seq(Tokens)
        BY <2>1, <2>2, <2>3, <2>4
    <2> QED
        BY <2>5 DEF line
<1> QED
    BY <1>1, <1>2

LEMMA InsertedAreLines ==
    ASSUME Place
    PROVE  /\ Inserted \in Seq(Lines) /\ Len(Inserted) \in Nat
           /\ \A i \in 1 .. Len(Inserted) : Inserted[i] \in Seq(Tokens)
<1> DEFINE body == IF file = <<>> THEN <<>> ELSE Tail(file)
           most == Sets!Min({limit, Len(body)})
<1>1. file \in Seq(Lines)
    BY LinesAreTokens
<1>2. body \in Seq(Lines)
    BY <1>1
<1>3. Inserted = IF limit = 0 THEN body ELSE SubSeq(body, 1, most)
    BY DEF Inserted
<1> HIDE DEF body
<1>4. limit \in Nat /\ Len(body) \in Nat
    BY <1>2 DEF Place
<1>5. most \in Nat /\ most <= Len(body)
    BY <1>4, SmallerOfTwo
<1> HIDE DEF most
<1>6. SubSeq(body, 1, most) \in Seq(Lines)
    BY <1>2, <1>4, <1>5
<1>7. Inserted \in Seq(Lines)
    BY <1>2, <1>3, <1>6
<1> QED
    BY <1>7 DEF Lines

LEMMA LoadInitInv == LoadInit => LoadInv
<1> SUFFICES ASSUME LoadInit PROVE LoadInv
    OBVIOUS
<1>1. Place
    BY LoaderAssumption DEF LoadInit, Place
<1>2. file \in Seq(Lines) /\ Len(file) \in Nat /\ Len(Inserted) \in Nat
    BY <1>1, LinesAreTokens, InsertedAreLines
<1>3. <<>> \in Seq(Specs) /\ Schema \in Seq(Specs)
    BY LoaderAssumption DEF Specs
<1>4. Progress
    <2>1. streamed.rows = 0
        BY DEF LoadInit, EmptyTable
    <2> QED
        BY <1>2, <2>1 DEF LoadInit, Progress
<1>5. Tables
    <2>1. /\ bulk = [cols |-> bulk.cols, rows |-> 0] /\ SoundColumns(bulk.cols, 0)
          /\ Len(bulk.cols) = 0
        BY <1>3, EmptyIsSound DEF LoadInit
    <2>2. streamed = [cols |-> streamed.cols, rows |-> 0] /\ SoundColumns(streamed.cols, 0)
        BY <1>3, EmptyIsSound DEF LoadInit
    <2>3. streamed.rows = 0
        BY <2>2
    <2> QED
        BY <2>1, <2>2, <2>3 DEF LoadInit, Tables
<1> QED
    BY <1>1, <1>4, <1>5 DEF LoadInv

(* No step of a loader changes the file it reads.                          *)
LEMMA PlaceNext == LoadInv /\ LoadNext => Place'
<1> SUFFICES ASSUME LoadInv, LoadNext PROVE Place'
    OBVIOUS
<1> USE DEF LoadInv, Place
<1>1. CASE Open /\ UNCHANGED fileVars
    BY <1>1 DEF Open, fileVars
<1>2. CASE Stat /\ UNCHANGED fileVars
    BY <1>2 DEF Stat, fileVars
<1>3. CASE Map /\ UNCHANGED fileVars
    <2>1. file' = file /\ hasHeader' = hasHeader /\ limit' = limit
        BY <1>3 DEF fileVars
    <2>2. \/ lpc' = "header" /\ mapped' = (file # <<>>) /\ fd' = fd
          \/ lpc' = "failed" /\ fd' = "closed" /\ mapped' = mapped
        BY <1>3, Zenon DEF Map
    <2>3. lpc = "map"
        BY <1>3 DEF Map
    <2>4. CASE lpc' = "header" /\ mapped' = (file # <<>>) /\ fd' = fd
        BY <2>1, <2>3, <2>4
    <2>5. CASE lpc' = "failed" /\ fd' = "closed" /\ mapped' = mapped
        BY <2>1, <2>3, <2>5
    <2> QED
        BY <2>2, <2>4, <2>5
<1>4. CASE ReadHeader /\ UNCHANGED fileVars
    BY <1>4 DEF ReadHeader, Unmap, fileVars
<1>5. CASE BodyLine /\ UNCHANGED fileVars
    BY <1>5 DEF BodyLine, fileVars
<1>6. CASE FinishLoad /\ UNCHANGED fileVars
    BY <1>6 DEF FinishLoad, Unmap, fileVars
<1>7. CASE OutOfMemory /\ UNCHANGED fileVars
    BY <1>7 DEF OutOfMemory, Unmap, fileVars
<1>8. CASE ApplyBatch
    BY <1>8 DEF ApplyBatch, fileVars, bulkVars
<1> QED
    BY <1>1, <1>2, <1>3, <1>4, <1>5, <1>6, <1>7, <1>8 DEF LoadNext, FromCsv

(* What ReadHeader makes.                                                  *)
LEMMA HeaderStep ==
    ASSUME LoadInv, ReadHeader, lpc' = "body"
    PROVE  /\ at' \in 0 .. Len(file)
           /\ bulk' = [cols |-> bulk'.cols, rows |-> 0] /\ SoundColumns(bulk'.cols, 0)
           /\ \A f \in DOMAIN targets' : targets'[f] \in 0 .. Len(bulk'.cols)
<1>1. file \in Seq(Lines) /\ Len(file) \in Nat
    BY LinesAreTokens DEF LoadInv
<1>2. CASE hasHeader
    <2> DEFINE header == NextLine(file[1])
    <2>1. /\ file # <<>> /\ at' = 1 /\ targets' = HeaderTargets(header)
          /\ bulk' = EmptyTable(HeaderColumns(header))
        BY <1>2 DEF ReadHeader
    <2>2. 1 \in 1 .. Len(file)
        BY <1>1, <2>1
    <2>3. header \in Seq(Tokens)
        BY <2>2, LinesAreTokens DEF LoadInv
    <2> HIDE DEF header
    <2>4. /\ HeaderColumns(header) \in Seq(Specs)
          /\ \A f \in DOMAIN HeaderTargets(header) :
                HeaderTargets(header)[f] \in 0 .. Len(HeaderColumns(header))
        BY <2>3, HeaderMakesColumns
    <2>5. /\ bulk' = [cols |-> bulk'.cols, rows |-> 0] /\ SoundColumns(bulk'.cols, 0)
          /\ Len(bulk'.cols) = Len(HeaderColumns(header))
        BY <2>1, <2>4, EmptyIsSound
    <2> QED
        BY <1>1, <2>1, <2>2, <2>4, <2>5
<1>3. CASE ~hasHeader
    <2>1. /\ at' = 0 /\ targets' = [f \in DOMAIN Schema |-> f]
          /\ bulk' = EmptyTable(Schema)
        BY <1>3 DEF ReadHeader
    <2>2. Schema \in Seq(Specs)
        BY LoaderAssumption DEF Specs
    <2>3. /\ bulk' = [cols |-> bulk'.cols, rows |-> 0] /\ SoundColumns(bulk'.cols, 0)
          /\ Len(bulk'.cols) = Len(Schema)
        BY <2>1, <2>2, EmptyIsSound
    <2>4. Len(Schema) \in Nat /\ DOMAIN Schema = 1 .. Len(Schema)
        BY <2>2
    <2> QED
        BY <1>1, <2>1, <2>3, <2>4
<1> QED
    BY <1>2, <1>3

(* What BodyLine makes of a line that is not blank.                        *)
LEMMA BodyStep ==
    ASSUME LoadInv, BodyLine
    PROVE  /\ at' = at + 1 /\ at' \in 0 .. Len(file) /\ row' \in {row, row + 1}
           /\ bulk' = [cols |-> bulk'.cols, rows |-> bulk.rows]
           /\ SoundColumns(bulk'.cols, row') /\ ColumnsGrow(bulk.cols, bulk'.cols)
<1> DEFINE line == NextLine(file[at'])
<1>1. Len(file) \in Nat /\ at \in Nat /\ row \in Nat
    BY LinesAreTokens DEF LoadInv, Progress
<1>2. at' = at + 1 /\ at' \in 1 .. Len(file)
    <2>1. at < Len(file) /\ at' = at + 1
        BY Zenon DEF BodyLine
    <2> QED
        BY <1>1, <2>1
<1>3. line \in Seq(Tokens)
    BY <1>2, LinesAreTokens DEF LoadInv
<1>4. /\ bulk = [cols |-> bulk.cols, rows |-> bulk.rows]
      /\ SoundColumns(bulk.cols, row)
    BY DEF LoadInv, Tables
<1>5. CASE line = <<"">>
    <2>1. row' = row /\ bulk' = bulk
        BY <1>5 DEF BodyLine
    <2>2. ColumnsGrow(bulk.cols, bulk.cols)
        BY <1>4, GrowRefl DEF SoundColumns
    <2> QED
        BY <1>1, <1>2, <1>4, <2>1, <2>2
<1>6. CASE line # <<"">>
    <2>1. /\ bulk' = [bulk EXCEPT !.cols = Feed(@, line, FieldOf)]
          /\ row' = row + 1
        BY <1>6 DEF BodyLine
    <2>2. /\ bulk'.cols = Feed(bulk.cols, line, FieldOf)
          /\ bulk' = [cols |-> bulk'.cols, rows |-> bulk.rows]
        BY <1>4, <2>1
    <2> HIDE DEF line
    <2>3. SoundColumns(bulk'.cols, row + 1) /\ ColumnsGrow(bulk.cols, bulk'.cols)
        BY <1>1, <1>3, <1>4, <2>2, FeedKeeps
    <2> QED
        BY <1>1, <1>2, <2>1, <2>2, <2>3
<1> QED
    BY <1>5, <1>6

(* What apply_batch() makes of the next k lines.                           *)
LEMMA BatchPicked ==
    ASSUME Place, ApplyBatch
    PROVE  \E k \in Nat : \E f :
            /\ sent + k <= Len(Inserted) /\ sent' = sent + k
            /\ streamed' = [cols |-> f[k], rows |-> streamed.rows + k]
            /\ Batched(f, streamed.cols, [n \in Nat |-> Inserted[sent + n]], k)
<1> DEFINE lines == [n \in Nat |-> Inserted[sent + n]]
<1>1. PICK k \in 1 .. BatchRows :
        /\ sent + k <= Len(Inserted) /\ sent' = sent + k
        /\ LET appended[n \in 0 .. k] ==
                IF n = 0 THEN streamed.cols
                ELSE Feed(appended[n - 1], Inserted[sent + n],
                          [c \in DOMAIN streamed.cols |-> c])
           IN  streamed' = [cols |-> appended[k], rows |-> streamed.rows + k]
    BY DEF ApplyBatch
<1>2. k \in Nat
    BY LoaderAssumption
<1> DEFINE f == CHOOSE f : f = [n \in 0 .. k |->
                    IF n = 0 THEN streamed.cols
                    ELSE Feed(f[n - 1], Inserted[sent + n],
                              [c \in DOMAIN streamed.cols |-> c])]
<1>3. streamed' = [cols |-> f[k], rows |-> streamed.rows + k]
    BY <1>1
<1>4. Batched(f, streamed.cols, lines, k)
    <2>1. ASSUME NEW g
          PROVE  Batched(g, streamed.cols, lines, k) <=>
                    g = [n \in 0 .. k |->
                            IF n = 0 THEN streamed.cols
                            ELSE Feed(g[n - 1], Inserted[sent + n],
                                      [c \in DOMAIN streamed.cols |-> c])]
        BY DEF Batched
    <2>2. \E g : Batched(g, streamed.cols, lines, k)
        BY <1>2, BatchExists
    <2> QED
        BY <2>1, <2>2
<1> HIDE DEF f
<1> QED
    BY <1>1, <1>2, <1>3, <1>4

LEMMA BatchStep ==
    ASSUME LoadInv, ApplyBatch
    PROVE  /\ sent' \in 0 .. Len(Inserted) /\ streamed'.rows = sent'
           /\ streamed' = [cols |-> streamed'.cols, rows |-> streamed'.rows]
           /\ SoundColumns(streamed'.cols, sent')
           /\ ColumnsGrow(streamed.cols, streamed'.cols)
<1>1. /\ Inserted \in Seq(Lines) /\ Len(Inserted) \in Nat
      /\ \A i \in 1 .. Len(Inserted) : Inserted[i] \in Seq(Tokens)
    BY InsertedAreLines DEF LoadInv
<1>2. /\ sent \in Nat /\ sent <= Len(Inserted) /\ streamed.rows = sent
      /\ SoundColumns(streamed.cols, sent)
    BY <1>1 DEF LoadInv, Progress, Tables
<1> DEFINE lines == [n \in Nat |-> Inserted[sent + n]]
<1>3. PICK k \in Nat : \E f :
        /\ sent + k <= Len(Inserted) /\ sent' = sent + k
        /\ streamed' = [cols |-> f[k], rows |-> streamed.rows + k]
        /\ Batched(f, streamed.cols, lines, k)
    BY BatchPicked DEF LoadInv
<1>4. PICK f :
        /\ sent + k <= Len(Inserted) /\ sent' = sent + k
        /\ streamed' = [cols |-> f[k], rows |-> streamed.rows + k]
        /\ Batched(f, streamed.cols, lines, k)
    BY <1>3
<1>5. ASSUME NEW i \in 1 .. k PROVE lines[i] \in Seq(Tokens)
    <2>1. sent + i \in 1 .. Len(Inserted)
        BY <1>1, <1>2, <1>3
    <2>2. lines[i] = Inserted[sent + i]
        OBVIOUS
    <2> HIDE DEF lines
    <2> QED
        BY <1>1, <2>1, <2>2
<1> HIDE DEF lines
<1>6. SoundColumns(f[k], sent + k) /\ ColumnsGrow(streamed.cols, f[k])
    <2>1. k \in 0 .. k
        OBVIOUS
    <2> QED
        BY <1>2, <1>4, <1>5, <2>1, BatchKeeps
<1> QED
    BY <1>1, <1>2, <1>4, <1>6

(* A step of one loader leaves the variables of the other alone.           *)
LEMMA ProgressNext == LoadInv /\ LoadNext => Progress'
<1> SUFFICES ASSUME LoadInv, LoadNext PROVE Progress'
    OBVIOUS
<1>1. /\ Place' /\ Len(file) \in Nat /\ Len(Inserted) \in Nat
      /\ at \in 0 .. Len(file) /\ row \in 0 .. at
    BY PlaceNext, LinesAreTokens, InsertedAreLines DEF LoadInv, Progress
<1>2. ASSUME UNCHANGED <<fileVars, streamVars>>
      PROVE  /\ file' = file /\ Inserted' = Inserted
             /\ sent' \in 0 .. Len(Inserted') /\ streamed'.rows = sent'
    <2>1. file' = file /\ limit' = limit /\ sent' = sent /\ streamed' = streamed
        BY <1>2 DEF fileVars, streamVars
    <2>2. Inserted' = Inserted
        BY <2>1 DEF Inserted
    <2> QED
        BY <2>1, <2>2 DEF LoadInv, Progress
<1>3. CASE (Open \/ Stat \/ Map) /\ UNCHANGED <<fileVars, streamVars>>
    <2>1. at' = at /\ targets' = targets /\ row' = row /\ bulk' = bulk
        BY <1>3 DEF Open, Stat, Map
    <2>2. lpc \in {"open", "stat", "map"}
        BY <1>3 DEF Open, Stat, Map
    <2> QED
        BY <1>2, <1>3, <2>1, <2>2 DEF LoadInv, Progress
<1>4. CASE ReadHeader /\ UNCHANGED <<fileVars, streamVars>>
    <2>1. lpc = "header" /\ row' = row /\ lpc' \in {"done", "body"}
        BY <1>4 DEF ReadHeader
    <2>2. row = 0
        BY <1>1, <2>1 DEF LoadInv, Progress
    <2>3. CASE lpc' = "done"
        <3>1. at' = at /\ targets' = targets /\ bulk' = bulk
            BY <1>4, <2>3 DEF ReadHeader
        <3> QED
            BY <1>2, <1>4, <2>1, <2>3, <3>1 DEF LoadInv, Progress
    <2>4. CASE lpc' = "body"
        <3>1. /\ at' \in 0 .. Len(file)
              /\ \A f \in DOMAIN targets' : targets'[f] \in 0 .. Len(bulk'.cols)
            BY <1>4, <2>4, HeaderStep
        <3> QED
            BY <1>1, <1>2, <1>4, <2>1, <2>2, <2>4, <3>1 DEF Progress
    <2> QED
        BY <2>1, <2>3, <2>4
<1>5. CASE BodyLine /\ UNCHANGED <<fileVars, streamVars>>
    <2>1. /\ at' = at + 1 /\ at' \in 0 .. Len(file) /\ row' \in {row, row + 1}
          /\ SoundColumns(bulk'.cols, row') /\ ColumnsGrow(bulk.cols, bulk'.cols)
        BY <1>5, BodyStep
    <2>2. SoundColumns(bulk.cols, row)
        BY DEF LoadInv, Tables
    <2>3. Len(bulk'.cols) = Len(bulk.cols)
        BY <2>1, <2>2 DEF SoundColumns, ColumnsGrow
    <2>4. lpc = "body" /\ targets' = targets
        BY <1>5, Zenon DEF BodyLine
    <2>5. lpc' \notin {"open", "stat", "map", "header"}
        <3>1. lpc' \in {lpc, "end", "body"}
            BY <1>5 DEF BodyLine
        <3> QED
            BY <2>4, <3>1
    <2>6. row' \in 0 .. at'
        BY <1>1, <2>1
    <2> QED
        BY <1>2, <1>5, <2>1, <2>3, <2>4, <2>5, <2>6 DEF LoadInv, Progress
<1>6. CASE FinishLoad /\ UNCHANGED <<fileVars, streamVars>>
    <2>1. /\ at' = at /\ targets' = targets /\ row' = row /\ lpc' = "done"
          /\ bulk' = [bulk EXCEPT !.rows = row]
        BY <1>6 DEF FinishLoad
    <2>2. bulk'.cols = bulk.cols
        BY <2>1 DEF LoadInv, Tables
    <2> QED
        BY <1>2, <1>6, <2>1, <2>2 DEF LoadInv, Progress
<1>7. CASE OutOfMemory /\ UNCHANGED <<fileVars, streamVars>>
    <2>1. /\ at' = at /\ targets' = targets /\ row' = row /\ bulk' = bulk
          /\ lpc' = "failed"
        BY <1>7 DEF OutOfMemory
    <2> QED
        BY <1>2, <1>7, <2>1 DEF LoadInv, Progress
<1>8. CASE ApplyBatch
    <2>1. /\ file' = file /\ limit' = limit /\ at' = at /\ targets' = targets
          /\ row' = row /\ bulk' = bulk /\ lpc' = lpc
        BY <1>8 DEF ApplyBatch, fileVars, bulkVars
    <2>2. Inserted' = Inserted
        BY <2>1 DEF Inserted
    <2>3. sent' \in 0 .. Len(Inserted) /\ streamed'.rows = sent'
        BY <1>8, BatchStep
    <2> QED
        BY <2>1, <2>2, <2>3 DEF LoadInv, Progress
<1> QED
    BY <1>3, <1>4, <1>5, <1>6, <1>7, <1>8 DEF LoadNext, FromCsv

(* The bulk table keeps its columns sound for the rows read, and gets its  *)
(* number of rows at the end; a batch does the same for the streamed one.  *)
LEMMA TablesNext == LoadInv /\ LoadNext => Tables'
<1> SUFFICES ASSUME LoadInv, LoadNext PROVE Tables'
    OBVIOUS
<1>1. /\ bulk = [cols |-> bulk.cols, rows |-> IF lpc = "done" THEN row ELSE 0]
      /\ lpc \in {"open", "stat", "map", "header"} => Len(bulk.cols) = 0
      /\ SoundColumns(bulk.cols, row)
      /\ streamed = [cols |-> streamed.cols, rows |-> streamed.rows]
      /\ SoundColumns(streamed.cols, sent)
    BY DEF LoadInv, Tables
<1>2. ASSUME UNCHANGED <<fileVars, streamVars>>
      PROVE  /\ streamed' = [cols |-> streamed'.cols, rows |-> streamed'.rows]
             /\ SoundColumns(streamed'.cols, sent')
    BY <1>1, <1>2 DEF streamVars
<1>3. CASE (Open \/ Stat \/ Map) /\ UNCHANGED <<fileVars, streamVars>>
    <2>1. /\ row' = row /\ bulk' = bulk
          /\ lpc \in {"open", "stat", "map"} /\ lpc' # "done"
        BY <1>3 DEF Open, Stat, Map
    <2> QED
        BY <1>1, <1>2, <1>3, <2>1 DEF Tables
<1>4. CASE ReadHeader /\ UNCHANGED <<fileVars, streamVars>>
    <2>1. lpc = "header" /\ row' = row /\ lpc' \in {"done", "body"}
        BY <1>4 DEF ReadHeader
    <2>2. row = 0
        <3>1. row \in 0 .. 0
            BY <2>1 DEF LoadInv, Progress
        <3> QED
            BY <3>1
    <2>3. CASE lpc' = "done"
        <3>1. bulk' = bulk
            BY <1>4, <2>3 DEF ReadHeader
        <3> QED
            BY <1>1, <1>2, <1>4, <2>1, <2>2, <2>3, <3>1 DEF Tables
    <2>4. CASE lpc' = "body"
        <3>1. bulk' = [cols |-> bulk'.cols, rows |-> 0] /\ SoundColumns(bulk'.cols, 0)
            BY <1>4, <2>4, HeaderStep
        <3> QED
            BY <1>2, <1>4, <2>1, <2>2, <2>4, <3>1 DEF Tables
    <2> QED
        BY <2>1, <2>3, <2>4
<1>5. CASE BodyLine /\ UNCHANGED <<fileVars, streamVars>>
    <2>1. /\ bulk' = [cols |-> bulk'.cols, rows |-> bulk.rows]
          /\ SoundColumns(bulk'.cols, row')
        BY <1>5, BodyStep
    <2>2. lpc = "body"
        BY <1>5, Zenon DEF BodyLine
    <2>3. lpc' \in {"body", "end"}
        <3>1. lpc' \in {lpc, "end", "body"}
            BY <1>5 DEF BodyLine
        <3> QED
            BY <2>2, <3>1
    <2>4. bulk.rows = 0
        BY <1>1, <2>2
    <2> QED
        BY <1>2, <1>5, <2>1, <2>3, <2>4 DEF Tables
<1>6. CASE FinishLoad /\ UNCHANGED <<fileVars, streamVars>>
    <2>1. row' = row /\ lpc' = "done" /\ bulk' = [bulk EXCEPT !.rows = row]
        BY <1>6 DEF FinishLoad
    <2>2. bulk' = [cols |-> bulk.cols, rows |-> row]
        BY <1>1, <2>1
    <2>3. bulk'.cols = bulk.cols
        BY <2>2
    <2> QED
        BY <1>1, <1>2, <1>6, <2>1, <2>2, <2>3 DEF Tables
<1>7. CASE OutOfMemory /\ UNCHANGED <<fileVars, streamVars>>
    <2>1. row' = row /\ bulk' = bulk /\ lpc' = "failed" /\ lpc # "done"
        BY <1>7 DEF OutOfMemory
    <2> QED
        BY <1>1, <1>2, <1>7, <2>1 DEF Tables
<1>8. CASE ApplyBatch
    <2>1. row' = row /\ bulk' = bulk /\ lpc' = lpc
        BY <1>8 DEF ApplyBatch, bulkVars
    <2>2. /\ streamed' = [cols |-> streamed'.cols, rows |-> streamed'.rows]
          /\ SoundColumns(streamed'.cols, sent')
        BY <1>8, BatchStep
    <2> QED
        BY <1>1, <2>1, <2>2 DEF Tables
<1> QED
    BY <1>3, <1>4, <1>5, <1>6, <1>7, <1>8 DEF LoadNext, FromCsv

(* Queries leave the loaders alone.                                        *)
LEMMA LoadStep == [Next]_vars => LoadNext \/ UNCHANGED loadVars
BY Zenon DEF Next, Load, AskTable, Query, Finished, vars

LEMMA LoadUnchanged == LoadInv /\ UNCHANGED loadVars => LoadInv'
<1> SUFFICES ASSUME LoadInv, UNCHANGED loadVars PROVE LoadInv'
    OBVIOUS
<1>1. /\ file' = file /\ hasHeader' = hasHeader /\ limit' = limit
      /\ lpc' = lpc /\ fd' = fd /\ mapped' = mapped /\ at' = at
      /\ targets' = targets /\ row' = row /\ bulk' = bulk
      /\ sent' = sent /\ streamed' = streamed
    BY DEF loadVars, fileVars, bulkVars, streamVars
<1>2. Inserted' = Inserted
    BY <1>1 DEF Inserted
<1>3. Place'
    BY <1>1 DEF LoadInv, Place
<1>4. Progress'
    BY <1>1, <1>2 DEF LoadInv, Progress
<1>5. Tables'
    BY <1>1 DEF LoadInv, Tables
<1> QED
    BY <1>3, <1>4, <1>5 DEF LoadInv

LEMMA LoadInvNext == LoadInv /\ [Next]_vars => LoadInv'
<1>1. LoadInv /\ LoadNext => LoadInv'
    BY PlaceNext, ProgressNext, TablesNext DEF LoadInv
<1> QED
    BY <1>1, LoadStep, LoadUnchanged

THEOREM LoadInvariant == Spec => []LoadInv
<1>1. Init => LoadInv
    BY LoadInitInv DEF Init
<1> QED
    BY <1>1, LoadInvNext, PTL DEF Spec

(* The loaders' variables have their types: in particular no field ever    *)
(* feeds a column that is not there, and the rows streamed are those sent. *)
THEOREM LoaderTypes == Spec => []LoadTypeOK
<1>1. LoadInv => LoadTypeOK
    BY DEF LoadInv, Place, Progress, LoadTypeOK
<1> QED
    BY <1>1, LoadInvariant, PTL

(* However loading ends, nothing stays open, and lines are read only while *)
(* the file is mapped (MappedFile of parser.cpp).                          *)
THEOREM AllClosed == Spec => []NothingLeaks
<1>1. LoadInv => NothingLeaks
    BY DEF LoadInv, Place, NothingLeaks
<1> QED
    BY <1>1, LoadInvariant, PTL

LEMMA SoundFromColumns ==
    ASSUME NEW t, SoundColumns(t.cols, t.rows)
    PROVE  Sound(t)
<1> SUFFICES ASSUME NEW c \in Seqs!ToSet(t.cols) PROVE SoundColumn(c, t.rows)
    BY DEF Sound, SoundColumn
<1>1. PICK i \in DOMAIN t.cols : c = t.cols[i]
    BY DEF Seqs!ToSet
<1> QED
    BY <1>1 DEF SoundColumns

(* After every line of whatever file, in both tables, every column has one *)
(* entry per row and its codes are exactly those of its dictionary         *)
(* (Column::append_parsed and the padding of short lines).                 *)
THEOREM ColumnsKept == Spec => []ColumnsSound
<1>1. LoadInv => ColumnsSound
    <2> SUFFICES ASSUME LoadInv PROVE ColumnsSound
        OBVIOUS
    <2> DEFINE read == [bulk EXCEPT !.rows = row]
    <2>1. read.cols = bulk.cols /\ read.rows = row
        BY DEF LoadInv, Tables
    <2> HIDE DEF read
    <2>2. SoundColumns(read.cols, read.rows)
        BY <2>1 DEF LoadInv, Tables
    <2>3. SoundColumns(streamed.cols, streamed.rows)
        BY DEF LoadInv, Tables, Progress
    <2>4. Sound(read) /\ Sound(streamed)
        BY <2>2, <2>3, SoundFromColumns
    <2> QED
        BY <2>4 DEF ColumnsSound, read
<1> QED
    BY <1>1, LoadInvariant, PTL

LEMMA GrowsFromColumns ==
    ASSUME NEW t, NEW u, ColumnsGrow(t.cols, u.cols)
    PROVE  Grows(t, u)
BY DEF ColumnsGrow, ColumnGrows, Grows

(* No step of a loader or of a query changes an entry of a column or the   *)
(* string behind a code: both only grow at their ends.                     *)
THEOREM CodesKept == Spec => CodesStay
<1>1. LoadInv /\ [Next]_vars => [Grows(bulk, bulk') /\ Grows(streamed, streamed')]_loadVars
    <2> SUFFICES ASSUME LoadInv, LoadNext
                 PROVE  Grows(bulk, bulk') /\ Grows(streamed, streamed')
        BY LoadStep
    <2>1. /\ bulk.cols \in Seq(ColumnRecords) /\ streamed.cols \in Seq(ColumnRecords)
        BY DEF LoadInv, Tables, SoundColumns
    <2>2. Grows(bulk, bulk) /\ Grows(streamed, streamed)
        BY <2>1, GrowRefl, GrowsFromColumns
    <2>3. CASE FromCsv
        <3>1. streamed' = streamed
            BY <2>3 DEF FromCsv, streamVars
        <3>2. CASE Open \/ Stat \/ Map \/ OutOfMemory
            <4>1. bulk' = bulk
                BY <3>2 DEF Open, Stat, Map, OutOfMemory
            <4> QED
                BY <2>2, <3>1, <4>1
        <3>3. CASE ReadHeader
            <4>1. lpc = "header"
                BY <3>3 DEF ReadHeader
            <4>2. DOMAIN bulk.cols = {}
                <5>1. Len(bulk.cols) = 0
                    BY <4>1 DEF LoadInv, Tables
                <5> QED
                    BY <2>1, <5>1
            <4>3. Grows(bulk, bulk')
                BY <4>2 DEF Grows
            <4> QED
                BY <2>2, <3>1, <4>3
        <3>4. CASE BodyLine
            <4>1. ColumnsGrow(bulk.cols, bulk'.cols)
                BY <3>4, BodyStep
            <4> QED
                BY <2>2, <3>1, <4>1, GrowsFromColumns
        <3>5. CASE FinishLoad
            <4>1. bulk' = [bulk EXCEPT !.rows = row]
                BY <3>5 DEF FinishLoad
            <4>2. bulk'.cols = bulk.cols
                BY <4>1 DEF LoadInv, Tables
            <4>3. ColumnsGrow(bulk.cols, bulk'.cols)
                BY <2>1, <4>2, GrowRefl
            <4> QED
                BY <2>2, <3>1, <4>3, GrowsFromColumns
        <3> QED
            BY <2>3, <3>2, <3>3, <3>4, <3>5 DEF FromCsv
    <2>4. CASE ApplyBatch
        <3>1. bulk' = bulk
            BY <2>4 DEF ApplyBatch, bulkVars
        <3>2. ColumnsGrow(streamed.cols, streamed'.cols)
            BY <2>4, BatchStep
        <3> QED
            BY <2>2, <3>1, <3>2, GrowsFromColumns
    <2> QED
        BY <2>3, <2>4 DEF LoadNext
<1> QED
    BY <1>1, LoadInvariant, PTL DEF Spec, CodesStay

-----------------------------------------------------------------------------
(* What the columns say.                                                   *)

(* Row r of column c is what line r says in field fieldOf[c].              *)
Shows(columns, n, lines, fieldOf) ==
    \A c \in DOMAIN columns : \A r \in 1 .. n :
        Shown(columns[c], r) = Value(columns[c].type, Text(lines[r], fieldOf[c]))

(* The columns are those of the specs.                                     *)
Columned(columns, specs) ==
    /\ DOMAIN columns = DOMAIN specs
    /\ \A c \in DOMAIN columns :
        columns[c].name = specs[c].name /\ columns[c].type = specs[c].type

LEMMA PrefixSame ==
    ASSUME NEW S, NEW s \in Seq(S), NEW t \in Seq(S), Seqs!IsPrefix(s, t),
           NEW i \in DOMAIN s
    PROVE  t[i] = s[i]
<1>1. Len(s) <= Len(t) /\ SubSeq(s, 1, Len(s)) = SubSeq(t, 1, Len(s))
    BY DEF Seqs!IsPrefix
<1>2. i \in 1 .. Len(s) /\ i \in 1 .. Len(t)
    BY <1>1
<1>3. SubSeq(s, 1, Len(s))[i] = s[i] /\ SubSeq(t, 1, Len(s))[i] = t[i]
    BY <1>1, <1>2
<1> QED
    BY <1>1, <1>3

(* One field more: the column shows it, and shows what it showed.          *)
LEMMA AppendShows ==
    ASSUME NEW c \in ColumnRecords, NEW f \in Tokens, NEW n \in Nat,
           SoundColumn(c, n)
    PROVE  LET e == AppendParsed(c, f)
           IN  /\ e.name = c.name /\ e.type = c.type
               /\ \A r \in 1 .. n : Shown(e, r) = Shown(c, r)
               /\ Shown(e, n + 1) = Value(c.type, f)
<1> DEFINE e == AppendParsed(c, f)
<1>1. /\ c.type \in Types /\ c.name \in Tokens
      /\ c.data \in Seq(Entries) /\ c.dict \in Seq(Tokens) /\ Len(c.data) = n
      /\ c = [name |-> c.name, type |-> c.type, data |-> c.data, dict |-> c.dict]
    BY DEF ColumnRecords, SoundColumn
<1>2. ASSUME NEW x \in Entries
      PROVE  /\ \A r \in 1 .. n : Append(c.data, x)[r] = c.data[r]
             /\ Append(c.data, x)[n + 1] = x
    BY <1>1
<1>3. CASE c.type = "Int64"
    <2>1. IntOf[f] \in Entries
        BY DEF Entries
    <2>2. e = [c EXCEPT !.data = Append(@, IntOf[f])]
        BY <1>3 DEF AppendParsed
    <2> HIDE DEF e
    <2>3. /\ e.name = c.name /\ e.type = c.type
          /\ e.data = Append(c.data, IntOf[f])
        BY <1>1, <2>2
    <2>4. Value(c.type, f) = IntOf[f]
        BY <1>3 DEF Value
    <2>5. \A r : Shown(e, r) = e.data[r] /\ Shown(c, r) = c.data[r]
        BY <1>3, <2>3 DEF Shown
    <2>6. /\ \A r \in 1 .. n : e.data[r] = c.data[r]
          /\ e.data[n + 1] = IntOf[f]
        BY <1>2, <2>1, <2>3, Zenon
    <2> QED
        BY <2>3, <2>4, <2>5, <2>6, Zenon DEF e
<1>4. CASE c.type = "Float64"
    <2>1. DblOf[f] \in Entries
        BY DEF Entries
    <2>2. e = [c EXCEPT !.data = Append(@, DblOf[f])]
        BY <1>4 DEF AppendParsed
    <2> HIDE DEF e
    <2>3. /\ e.name = c.name /\ e.type = c.type
          /\ e.data = Append(c.data, DblOf[f])
        BY <1>1, <2>2
    <2>4. Value(c.type, f) = DblOf[f]
        BY <1>4 DEF Value
    <2>5. \A r : Shown(e, r) = e.data[r] /\ Shown(c, r) = c.data[r]
        BY <1>4, <2>3 DEF Shown
    <2>6. /\ \A r \in 1 .. n : e.data[r] = c.data[r]
          /\ e.data[n + 1] = DblOf[f]
        BY <1>2, <2>1, <2>3, Zenon
    <2> QED
        BY <2>3, <2>4, <2>5, <2>6, Zenon DEF e
<1>5. CASE c.type = "Dict"
    <2> DEFINE d == Encode(c.dict, f)
               x == Lookup(d, f)
    <2>1. /\ d \in Seq(Tokens) /\ Seqs!IsPrefix(c.dict, d)
          /\ x \in Int /\ Decode(d, x) = f
        BY <1>1, <1>5, EncodeKeeps DEF SoundColumn
    <2>2. x \in Entries
        BY <2>1 DEF Entries
    <2>3. e = [c EXCEPT !.dict = d, !.data = Append(@, x)]
        BY <1>5 DEF AppendParsed
    <2> HIDE DEF e, d, x
    <2>4. /\ e.name = c.name /\ e.type = c.type
          /\ e.data = Append(c.data, x) /\ e.dict = d
        BY <1>1, <2>3
    <2>5. Value(c.type, f) = f
        BY <1>5 DEF Value
    <2>6. /\ \A r : Shown(e, r) = Decode(d, e.data[r])
          /\ \A r : Shown(c, r) = Decode(c.dict, c.data[r])
        BY <1>5, <2>4 DEF Shown
    <2>7. ASSUME NEW r \in 1 .. n
          PROVE  Decode(d, c.data[r]) = Decode(c.dict, c.data[r])
        <3>1. c.data[r] \in Seqs!ToSet(c.data)
            BY <1>1 DEF Seqs!ToSet
        <3>2. PICK i \in DOMAIN c.dict : c.data[r] = i - 1
            BY <1>5, <3>1 DEF SoundColumn
        <3>3. c.data[r] + 1 = i
            BY <1>1, <3>2
        <3>4. d[i] = c.dict[i]
            BY <1>1, <2>1, PrefixSame
        <3> QED
            BY <3>3, <3>4 DEF Decode
    <2>8. /\ \A r \in 1 .. n : e.data[r] = c.data[r]
          /\ e.data[n + 1] = x
        BY <1>2, <2>2, <2>4, Zenon
    <2> QED
        BY <2>1, <2>4, <2>5, <2>6, <2>7, <2>8, Zenon DEF e
<1> QED
    BY <1>1, <1>3, <1>4, <1>5 DEF Types

LEMMA TextIsToken ==
    ASSUME NEW line \in Seq(Tokens), NEW p
    PROVE  Text(line, p) \in Tokens
<1>1. "" \in Tokens
    BY ColumnsAssumption DEF Tokens
<1>2. \A q \in DOMAIN line : line[q] \in Tokens
    OBVIOUS
<1> QED
    BY <1>1, <1>2 DEF Text

(* A line more: every column shows its field of it.                        *)
LEMMA FeedShows ==
    ASSUME NEW n \in Nat, NEW columns, SoundColumns(columns, n),
           NEW lines, lines[n + 1] \in Seq(Tokens), NEW fieldOf,
           Shows(columns, n, lines, fieldOf),
           NEW specs, Columned(columns, specs),
           NEW fed, fed = Feed(columns, lines[n + 1], fieldOf)
    PROVE  Shows(fed, n + 1, lines, fieldOf) /\ Columned(fed, specs)
<1>1. DOMAIN fed = DOMAIN columns
    BY DEF Feed
<1>2. ASSUME NEW c \in DOMAIN columns
      PROVE  /\ fed[c].name = columns[c].name /\ fed[c].type = columns[c].type
             /\ \A r \in 1 .. n : Shown(fed[c], r) = Shown(columns[c], r)
             /\ Shown(fed[c], n + 1) =
                    Value(columns[c].type, Text(lines[n + 1], fieldOf[c]))
    <2> DEFINE text == Text(lines[n + 1], fieldOf[c])
    <2>1. text \in Tokens
        BY TextIsToken
    <2>2. columns[c] \in ColumnRecords /\ SoundColumn(columns[c], n)
        BY DEF SoundColumns
    <2>3. fed[c] = AppendParsed(columns[c], text)
        BY DEF Feed, Text
    <2> HIDE DEF text
    <2> QED
        BY <2>1, <2>2, <2>3, AppendShows DEF text
<1>3. ASSUME NEW c \in DOMAIN fed, NEW r \in 1 .. n + 1
      PROVE  Shown(fed[c], r) = Value(fed[c].type, Text(lines[r], fieldOf[c]))
    <2>1. CASE r = n + 1
        BY <1>1, <1>2, <2>1
    <2>2. CASE r # n + 1
        <3>1. r \in 1 .. n
            BY <2>2
        <3> QED
            BY <1>1, <1>2, <3>1 DEF Shows
    <2> QED
        BY <2>1, <2>2
<1>4. Shows(fed, n + 1, lines, fieldOf)
    BY <1>3 DEF Shows
<1>5. Columned(fed, specs)
    BY <1>1, <1>2 DEF Columned
<1> QED
    BY <1>4, <1>5

(* So does a batch of them.                                                *)
LEMMA BatchShows ==
    ASSUME NEW n \in Nat, NEW columns, SoundColumns(columns, n),
           NEW k \in Nat, NEW lines, \A i \in n + 1 .. n + k : lines[i] \in Seq(Tokens),
           NEW next, \A i \in 1 .. k : next[i] = lines[n + i],
           NEW f, Batched(f, columns, next, k), NEW specs, Columned(columns, specs),
           Shows(columns, n, lines, [c \in DOMAIN columns |-> c])
    PROVE  /\ Shows(f[k], n + k, lines, [c \in DOMAIN columns |-> c])
           /\ Columned(f[k], specs)
<1> DEFINE fieldOf == [c \in DOMAIN columns |-> c]
           Good(i) == Shows(f[i], n + i, lines, fieldOf) /\ Columned(f[i], specs)
           T == {i \in 0 .. k : ~Good(i)}
<1> HIDE DEF fieldOf
<1>1. \A j \in 1 .. k : next[j] = lines[n + j] /\ lines[n + j] \in Seq(Tokens)
    <2>1. \A j \in 1 .. k : n + j \in n + 1 .. n + k
        OBVIOUS
    <2> QED
        BY <2>1
<1>2. T = {}
    <2> SUFFICES ASSUME T # {} PROVE FALSE
        OBVIOUS
    <2>1. PICK i \in T : \A j \in T : i <= j
        <3>1. T \subseteq Nat
            OBVIOUS
        <3> HIDE DEF T
        <3> QED
            BY <3>1, LeastNumber
    <2>2. i \in 0 .. k /\ ~Good(i)
        OBVIOUS
    <2>3. i # 0
        <3> SUFFICES ASSUME i = 0 PROVE FALSE
            OBVIOUS
        <3>1. f[0] = columns /\ n + 0 = n
            BY DEF Batched
        <3> QED
            BY <2>2, <3>1 DEF fieldOf
    <2>4. Good(i - 1)
        <3>1. i - 1 \in 0 .. k /\ ~(i <= i - 1)
            BY <2>2, <2>3
        <3> HIDE DEF Good
        <3> QED
            BY <2>1, <3>1
    <2> DEFINE before == f[i - 1]
               m == n + (i - 1)
    <2>5. f[i] = Feed(before, next[i], fieldOf)
        BY <2>2, <2>3 DEF Batched, fieldOf
    <2>6. /\ m \in Nat /\ m + 1 = n + i /\ next[i] = lines[n + i]
          /\ lines[n + i] \in Seq(Tokens)
        BY <2>2, <2>3
    <2>7. Shows(before, m, lines, fieldOf) /\ Columned(before, specs)
        BY <2>4
    <2>8. SoundColumns(before, m)
        <3>1. \A j \in 1 .. k : next[j] \in Seq(Tokens)
            BY <1>1
        <3>2. i - 1 \in 0 .. k
            BY <2>2, <2>3
        <3> QED
            BY <3>1, <3>2, BatchKeeps
    <2> HIDE DEF before, m
    <2>9. Shows(f[i], m + 1, lines, fieldOf) /\ Columned(f[i], specs)
        <3>1. f[i] = Feed(before, lines[m + 1], fieldOf) /\ lines[m + 1] \in Seq(Tokens)
            BY <2>5, <2>6
        <3> QED
            BY <2>6, <2>7, <2>8, <3>1, FeedShows
    <2> QED
        BY <2>2, <2>6, <2>9
<1>3. k \in 0 .. k
    OBVIOUS
<1> QED
    BY <1>2, <1>3 DEF fieldOf

-----------------------------------------------------------------------------
(* What the tables have of the file: the columns from_csv fills, the field *)
(* each is fed from, and the lines that become rows.                       *)

Fields ==
    [c \in 1 .. Cardinality(Known(FieldNames)) |-> Nth(Known(FieldNames), c)]

ReadLines ==
    [r \in 1 .. Cardinality(KeptAt) |-> NextLine(file[Nth(KeptAt, r)])]

BulkSpecs == IF hasHeader THEN HeaderColumns(FieldNames) ELSE Schema

(* How far from_csv is, and what its columns show; what the columns of the *)
(* streamed table show.                                                    *)
Reads ==
    /\ lpc \in {"open", "stat", "map", "header"} => targets = <<>>
    /\ lpc \in {"body", "end"} /\ hasHeader => at >= 1
    /\ lpc = "body" => limit = 0 \/ row < limit
    /\ lpc = "end" => row = limit /\ limit # 0
    /\ lpc = "done" => \/ row = limit /\ limit # 0
                       \/ at = Len(file) /\ (limit = 0 \/ row < limit)

BulkSays ==
    lpc \in {"body", "end", "done"} =>
        /\ targets = HeaderTargets(FieldNames)
        /\ Columned(bulk.cols, BulkSpecs)
        /\ row = Rank(KeptAt, at)
        /\ Shows(bulk.cols, row, ReadLines, Fields)

StreamSays ==
    /\ Columned(streamed.cols, Schema)
    /\ Shows(streamed.cols, sent, Inserted, [c \in DOMAIN Schema |-> c])

TextInv == Reads /\ BulkSays /\ StreamSays

LEMMA FileStays ==
    ASSUME UNCHANGED fileVars
    PROVE  /\ file' = file /\ hasHeader' = hasHeader /\ limit' = limit
           /\ FieldNames' = FieldNames /\ KeptAt' = KeptAt /\ Fields' = Fields
           /\ ReadLines' = ReadLines /\ BulkSpecs' = BulkSpecs /\ Inserted' = Inserted
<1>1. file' = file /\ hasHeader' = hasHeader /\ limit' = limit
    BY DEF fileVars
<1>2. FieldNames' = FieldNames /\ KeptAt' = KeptAt /\ Inserted' = Inserted
    BY <1>1 DEF FieldNames, KeptAt, Inserted
<1> QED
    BY <1>1, <1>2 DEF Fields, ReadLines, BulkSpecs

LEMMA NamesAreTokens ==
    ASSUME Place
    PROVE  FieldNames \in Seq(Tokens)
<1>1. CASE ~hasHeader
    <2>1. Schema \in Seq(Specs)
        BY LoaderAssumption DEF Specs
    <2>2. \A f \in DOMAIN Schema : Schema[f].name \in Tokens
        <3>1. \A f \in DOMAIN Schema : Schema[f] \in Specs
            BY <2>1
        <3> QED
            BY <3>1 DEF Specs
    <2>3. FieldNames = [f \in DOMAIN Schema |-> Schema[f].name]
        BY <1>1 DEF FieldNames
    <2>4. DOMAIN Schema = 1 .. Len(Schema) /\ Len(Schema) \in Nat
        BY <2>1
    <2> QED
        BY <2>2, <2>3, <2>4
<1>2. CASE hasHeader /\ file = <<>>
    BY <1>2 DEF FieldNames
<1>3. CASE hasHeader /\ file # <<>>
    <2>1. 1 \in 1 .. Len(file)
        BY <1>3, LinesAreTokens
    <2>2. FieldNames = NextLine(file[1])
        BY <1>3 DEF FieldNames
    <2> QED
        BY <2>1, <2>2, LinesAreTokens
<1> QED
    BY <1>1, <1>2, <1>3

LEMMA KeptAreLines ==
    ASSUME Place
    PROVE  /\ KeptAt \subseteq 1 .. Len(file) /\ Len(file) \in Nat
           /\ DOMAIN ReadLines = 1 .. Cardinality(KeptAt) /\ Cardinality(KeptAt) \in Nat
           /\ \A r \in DOMAIN ReadLines : ReadLines[r] \in Seq(Tokens)
<1>1. /\ file \in Seq(Lines) /\ Len(file) \in Nat
      /\ \A i \in 1 .. Len(file) : NextLine(file[i]) \in Seq(Tokens)
    BY LinesAreTokens
<1>2. KeptAt \subseteq 1 .. Len(file)
    <2>1. DOMAIN file = 1 .. Len(file)
        BY <1>1
    <2> QED
        BY <2>1 DEF KeptAt
<1>3. Cardinality(KeptAt) \in Nat
    BY <1>1, <1>2, RankType
<1>4. DOMAIN ReadLines = 1 .. Cardinality(KeptAt)
    BY DEF ReadLines
<1>5. ASSUME NEW r \in 1 .. Cardinality(KeptAt) PROVE ReadLines[r] \in Seq(Tokens)
    <2>1. Nth(KeptAt, r) \in KeptAt
        BY <1>1, <1>2, NthExists
    <2>2. ReadLines[r] = NextLine(file[Nth(KeptAt, r)])
        BY DEF ReadLines
    <2> QED
        BY <1>1, <1>2, <2>1, <2>2
<1> QED
    BY <1>1, <1>2, <1>3, <1>4, <1>5

SchemaNames == [f \in DOMAIN Schema |-> Schema[f].name]

(* Without a header, and under one that names the columns of the schema in *)
(* order, the fields are those columns.                                    *)
LEMMA SchemaFields ==
    ASSUME ~hasHeader \/ FieldNames = SchemaNames
    PROVE  /\ Len(Schema) \in Nat /\ DOMAIN Schema = 1 .. Len(Schema)
           /\ Known(FieldNames) = 1 .. Len(Schema)
           /\ Cardinality(1 .. Len(Schema)) = Len(Schema)
           /\ \A f \in DOMAIN Schema : Rank(1 .. Len(Schema), f) = f
           /\ HeaderTargets(FieldNames) = [f \in DOMAIN Schema |-> f]
<1>1. Len(Schema) \in Nat /\ DOMAIN Schema = 1 .. Len(Schema)
    BY LoaderAssumption
<1>2. FieldNames = [f \in DOMAIN Schema |-> Schema[f].name]
    BY DEF FieldNames, SchemaNames
<1>3. Known(FieldNames) = 1 .. Len(Schema)
    <2>1. ASSUME NEW f \in DOMAIN Schema PROVE InSchema(Schema[f].name)
        BY DEF InSchema, Named
    <2> QED
        BY <1>1, <1>2, <2>1 DEF Known
<1>4. Cardinality(1 .. Len(Schema)) = Len(Schema)
    <2>1. 1 \in Int /\ Len(Schema) \in Int
            /\ (IF 1 > Len(Schema) THEN 0 ELSE Len(Schema) - 1 + 1) = Len(Schema)
        BY <1>1
    <2> QED
        BY <2>1, FS_Interval
<1>5. ASSUME NEW f \in DOMAIN Schema PROVE Rank(1 .. Len(Schema), f) = f
    <2>1. \A y \in 1 .. Len(Schema) : y <= f <=> y \in 1 .. f
        BY <1>1
    <2>2. {y \in 1 .. Len(Schema) : y <= f} = 1 .. f
        <3>1. 1 .. f \subseteq 1 .. Len(Schema)
            BY <1>1
        <3> QED
            BY <2>1, <3>1, Zenon
    <2>3. Cardinality(1 .. f) = f
        <3>1. 1 \in Int /\ f \in Int /\ ~(1 > f) /\ f - 1 + 1 = f
            BY <1>1
        <3> QED
            BY <3>1, FS_Interval
    <2> QED
        BY <2>2, <2>3 DEF Rank
<1>6. HeaderTargets(FieldNames) = [f \in DOMAIN Schema |-> f]
    <2>1. DOMAIN FieldNames = DOMAIN Schema
        BY <1>2
    <2> QED
        BY <1>1, <1>3, <1>5, <2>1 DEF HeaderTargets
<1> QED
    BY <1>1, <1>3, <1>4, <1>5, <1>6

(* A new table has the columns it is asked for.                            *)
LEMMA EmptyIsColumned ==
    ASSUME NEW specs
    PROVE  Columned(EmptyTable(specs).cols, specs)
BY DEF Columned, EmptyTable, NewColumn

LEMMA HeaderSays ==
    ASSUME LoadInv, TextInv, ReadHeader, UNCHANGED fileVars
    PROVE  Reads' /\ BulkSays'
<1>1. /\ Place /\ at = 0 /\ row = 0 /\ Len(bulk.cols) = 0 /\ targets = <<>>
      /\ lpc = "header" /\ row' = row /\ Len(file) \in Nat /\ limit \in Nat
    <2>1. lpc = "header" /\ row' = row
        BY DEF ReadHeader
    <2>2. row \in 0 .. at /\ at = 0
        BY <2>1 DEF LoadInv, Progress
    <2> QED
        BY <2>1, <2>2, LinesAreTokens DEF LoadInv, Place, Tables, TextInv, Reads
<1>2. KeptAt \subseteq 1 .. Len(file) /\ Rank(KeptAt, 0) = 0
    BY <1>1, KeptAreLines, RankEnds
<1>3. UNCHANGED <<file, hasHeader, limit, FieldNames, KeptAt, Fields, ReadLines, BulkSpecs>>
    BY FileStays
<1>4. ASSUME lpc' \in {"body", "done"}, targets' = HeaderTargets(FieldNames),
             Columned(bulk'.cols, BulkSpecs), Rank(KeptAt, at') = 0,
             hasHeader /\ lpc' = "body" => at' >= 1,
             lpc' = "done" => at' = Len(file)
      PROVE  Reads' /\ BulkSays'
    <2>1. Reads'
        BY <1>1, <1>3, <1>4 DEF Reads
    <2>2. Shows(bulk'.cols, 0, ReadLines, Fields)
        BY DEF Shows
    <2>3. BulkSays'
        BY <1>1, <1>3, <1>4, <2>2 DEF BulkSays
    <2> QED
        BY <2>1, <2>3
<1>5. CASE hasHeader /\ file = <<>>
    <2>1. /\ lpc' = "done" /\ at' = at /\ targets' = targets /\ bulk' = bulk
        BY <1>5 DEF ReadHeader
    <2>2. FieldNames = <<>> /\ Len(file) = 0
        BY <1>5 DEF FieldNames
    <2>3. Known(<<>>) = {} /\ HeaderTargets(<<>>) = <<>>
        <3>1. Known(<<>>) = {}
            BY DEF Known
        <3>2. HeaderTargets(<<>>) = [f \in {} |-> 0]
            BY DEF HeaderTargets
        <3>3. [f \in {} |-> 0] = <<>>
            OBVIOUS
        <3> QED
            BY <3>1, <3>2, <3>3
    <2>4. DOMAIN BulkSpecs = {}
        <3>1. Cardinality(Known(<<>>)) = 0
            BY <2>3, FS_EmptySet
        <3> QED
            BY <1>5, <2>2, <3>1 DEF BulkSpecs, HeaderColumns
    <2>5. Columned(bulk.cols, BulkSpecs)
        <3>1. DOMAIN bulk.cols = {}
            <4>1. bulk.cols \in Seq(ColumnRecords)
                BY DEF LoadInv, Tables, SoundColumns
            <4> QED
                BY <1>1, <4>1
        <3> QED
            BY <2>4, <3>1 DEF Columned
    <2> QED
        BY <1>1, <1>2, <1>4, <2>1, <2>2, <2>3, <2>5
<1>6. CASE hasHeader /\ file # <<>>
    <2>1. /\ lpc' = "body" /\ at' = 1 /\ targets' = HeaderTargets(NextLine(file[1]))
          /\ bulk' = EmptyTable(HeaderColumns(NextLine(file[1])))
        BY <1>6 DEF ReadHeader
    <2>2. FieldNames = NextLine(file[1])
        BY <1>6 DEF FieldNames
    <2>3. Columned(bulk'.cols, BulkSpecs)
        BY <1>6, <2>1, <2>2, EmptyIsColumned DEF BulkSpecs
    <2>4. Rank(KeptAt, 1) = 0
        <3>1. 0 + 1 \notin KeptAt
            BY <1>6 DEF KeptAt
        <3>2. 0 \in Nat /\ 0 + 1 = 1
            OBVIOUS
        <3>3. \A x \in Nat : x + 1 \notin KeptAt => Rank(KeptAt, x + 1) = Rank(KeptAt, x)
            BY <1>1, <1>2, RankNext, Zenon
        <3> QED
            BY <1>2, <3>1, <3>2, <3>3
    <2> QED
        BY <1>4, <1>6, <2>1, <2>2, <2>3, <2>4
<1>7. CASE ~hasHeader
    <2>1. /\ lpc' = "body" /\ at' = 0 /\ targets' = [f \in DOMAIN Schema |-> f]
          /\ bulk' = EmptyTable(Schema)
        BY <1>7 DEF ReadHeader
    <2>2. targets' = HeaderTargets(FieldNames)
        BY <1>7, <2>1, SchemaFields
    <2>3. Columned(bulk'.cols, BulkSpecs)
        BY <1>7, <2>1, EmptyIsColumned DEF BulkSpecs
    <2> QED
        BY <1>2, <1>4, <1>7, <2>1, <2>2, <2>3
<1> QED
    BY <1>5, <1>6, <1>7

(* The field a column is fed from is the one that has its place.           *)
LEMMA FieldOfIsField ==
    ASSUME Place, targets = HeaderTargets(FieldNames), DOMAIN bulk.cols = DOMAIN Fields
    PROVE  FieldOf = Fields
<1> DEFINE known == Known(FieldNames)
<1>1. FieldNames \in Seq(Tokens)
    BY NamesAreTokens
<1>2. Len(FieldNames) \in Nat /\ known \subseteq 1 .. Len(FieldNames)
    BY <1>1, KnownFields
<1>3. DOMAIN Fields = 1 .. Cardinality(known)
    BY DEF Fields
<1>4. ASSUME NEW c \in 1 .. Cardinality(known)
      PROVE  (CHOOSE f \in DOMAIN targets : targets[f] = c) = Nth(known, c)
    <2>1. Nth(known, c) \in known /\ Rank(known, Nth(known, c)) = c
        BY <1>2, NthExists
    <2>2. DOMAIN targets = DOMAIN FieldNames /\ known \subseteq DOMAIN FieldNames
        BY DEF HeaderTargets, Known
    <2>3. \A f \in DOMAIN targets :
            targets[f] = IF f \in known THEN Rank(known, f) ELSE 0
        BY <2>2 DEF HeaderTargets
    <2> HIDE DEF known
    <2>4. ASSUME NEW f \in DOMAIN targets, targets[f] = c PROVE f = Nth(known, c)
        <3>1. f \in known /\ Rank(known, f) = c
            <4>1. c # 0
                OBVIOUS
            <4> QED
                BY <2>3, <2>4, <4>1
        <3> QED
            BY <1>2, <3>1, NthOfRank
    <2>5. targets[Nth(known, c)] = c /\ Nth(known, c) \in DOMAIN targets
        BY <2>1, <2>2, <2>3
    <2> QED
        BY <2>4, <2>5
<1>5. Fields = [c \in 1 .. Cardinality(known) |-> Nth(known, c)]
    BY DEF Fields
<1> HIDE DEF known
<1> QED
    BY <1>3, <1>4, <1>5 DEF FieldOf

(* A line that is read: a blank one is no row, any other is the next.      *)
LEMMA BodySays ==
    ASSUME LoadInv, TextInv, BodyLine, UNCHANGED fileVars
    PROVE  Reads' /\ BulkSays'
<1> DEFINE line == NextLine(file[at'])
<1>1. /\ Place /\ lpc = "body" /\ at' = at + 1 /\ targets' = targets
      /\ Len(file) \in Nat /\ at \in Nat /\ row \in Nat /\ at < Len(file) /\ limit \in Nat
    <2>1. lpc = "body" /\ at' = at + 1 /\ targets' = targets /\ at < Len(file)
        BY Zenon DEF BodyLine
    <2> QED
        BY <2>1, LinesAreTokens DEF LoadInv, Progress, Place
<1>2. /\ targets = HeaderTargets(FieldNames) /\ Columned(bulk.cols, BulkSpecs)
      /\ row = Rank(KeptAt, at) /\ Shows(bulk.cols, row, ReadLines, Fields)
      /\ hasHeader => at >= 1
      /\ limit = 0 \/ row < limit
    BY <1>1 DEF TextInv, BulkSays, Reads
<1>3. UNCHANGED <<file, hasHeader, limit, FieldNames, KeptAt, Fields, ReadLines, BulkSpecs>>
    BY FileStays
<1>4. /\ KeptAt \subseteq 1 .. Len(file)
      /\ at' \in KeptAt => Rank(KeptAt, at') = row + 1
      /\ at' \notin KeptAt => Rank(KeptAt, at') = row
    <2>1. KeptAt \subseteq 1 .. Len(file) /\ Len(file) \in Nat
        BY <1>1, KeptAreLines
    <2>2. \A x \in Nat : x + 1 \in KeptAt => Rank(KeptAt, x + 1) = Rank(KeptAt, x) + 1
        BY <2>1, RankNext, Zenon
    <2>3. \A x \in Nat : x + 1 \notin KeptAt => Rank(KeptAt, x + 1) = Rank(KeptAt, x)
        BY <2>1, RankNext, Zenon
    <2> QED
        BY <1>1, <1>2, <2>1, <2>2, <2>3
<1>5. at' \in KeptAt <=> line # <<"">>
    <2>1. DOMAIN file = 1 .. Len(file)
        BY <1>1, LinesAreTokens
    <2>2. at' \in DOMAIN file /\ (hasHeader => at' > 1)
        BY <1>1, <1>2, <2>1
    <2> QED
        BY <2>2 DEF KeptAt
<1>6. bulk = [cols |-> bulk.cols, rows |-> bulk.rows] /\ SoundColumns(bulk.cols, row)
    BY DEF LoadInv, Tables
<1>7. CASE line = <<"">>
    <2>1. lpc' = lpc /\ row' = row /\ bulk' = bulk
        BY <1>7 DEF BodyLine
    <2>2. Reads'
        BY <1>1, <1>2, <1>3, <2>1 DEF Reads
    <2>3. BulkSays'
        BY <1>1, <1>2, <1>3, <1>4, <1>5, <1>7, <2>1 DEF BulkSays
    <2> QED
        BY <2>2, <2>3
<1>8. CASE line # <<"">>
    <2>1. /\ bulk' = [bulk EXCEPT !.cols = Feed(@, line, FieldOf)]
          /\ row' = row + 1 /\ lpc' = IF row' = limit THEN "end" ELSE "body"
        BY <1>8 DEF BodyLine
    <2>2. DOMAIN bulk.cols = DOMAIN Fields
        <3>1. DOMAIN BulkSpecs = DOMAIN Fields
            <4>1. CASE hasHeader
                BY <4>1 DEF BulkSpecs, HeaderColumns, Fields
            <4>2. CASE ~hasHeader
                BY <4>2, SchemaFields DEF BulkSpecs, Fields
            <4> QED
                BY <4>1, <4>2
        <3> QED
            BY <1>2, <3>1 DEF Columned
    <2>3. bulk'.cols = Feed(bulk.cols, line, Fields)
        <3>1. FieldOf = Fields
            BY <1>1, <1>2, <2>2, FieldOfIsField
        <3> QED
            BY <1>6, <2>1, <3>1
    <2>4. ReadLines[row + 1] = line /\ line \in Seq(Tokens)
        <3>1. /\ at' \in KeptAt /\ Rank(KeptAt, at') = row + 1
              /\ Rank(KeptAt, at') \in 1 .. Cardinality(KeptAt)
              /\ Nth(KeptAt, Rank(KeptAt, at')) = at'
            BY <1>1, <1>4, <1>5, <1>8, NthOfRank
        <3>2. at' \in 1 .. Len(file)
            BY <1>4, <3>1
        <3> QED
            BY <1>1, <3>1, <3>2, LinesAreTokens DEF ReadLines
    <2> HIDE DEF line
    <2>5. /\ Shows(bulk'.cols, row + 1, ReadLines, Fields)
          /\ Columned(bulk'.cols, BulkSpecs)
        <3>1. bulk'.cols = Feed(bulk.cols, ReadLines[row + 1], Fields)
            BY <2>3, <2>4
        <3> QED
            BY <1>1, <1>2, <1>6, <2>4, <3>1, FeedShows
    <2>6. Reads'
        BY <1>1, <1>2, <1>3, <2>1 DEF Reads
    <2>7. row' = Rank(KeptAt, at')
        BY <1>4, <1>5, <1>8, <2>1 DEF line
    <2>8. BulkSays'
        BY <1>1, <1>2, <1>3, <2>1, <2>5, <2>7 DEF BulkSays
    <2> QED
        BY <2>6, <2>8
<1> QED
    BY <1>7, <1>8

(* What a batch makes the streamed table show.                             *)
LEMMA BatchSays ==
    ASSUME LoadInv, TextInv, ApplyBatch
    PROVE  StreamSays'
<1>1. /\ Inserted \in Seq(Lines) /\ Len(Inserted) \in Nat
      /\ \A i \in 1 .. Len(Inserted) : Inserted[i] \in Seq(Tokens)
    BY InsertedAreLines DEF LoadInv
<1>2. /\ sent \in Nat /\ SoundColumns(streamed.cols, sent)
      /\ Columned(streamed.cols, Schema)
      /\ Shows(streamed.cols, sent, Inserted, [c \in DOMAIN Schema |-> c])
      /\ DOMAIN streamed.cols = DOMAIN Schema
    BY <1>1 DEF LoadInv, Progress, Tables, TextInv, StreamSays, Columned
<1> DEFINE next == [n \in Nat |-> Inserted[sent + n]]
<1>3. PICK k \in Nat : \E f :
        /\ sent + k <= Len(Inserted) /\ sent' = sent + k
        /\ streamed' = [cols |-> f[k], rows |-> streamed.rows + k]
        /\ Batched(f, streamed.cols, next, k)
    BY BatchPicked DEF LoadInv
<1>4. PICK f :
        /\ sent + k <= Len(Inserted) /\ sent' = sent + k
        /\ streamed' = [cols |-> f[k], rows |-> streamed.rows + k]
        /\ Batched(f, streamed.cols, next, k)
    BY <1>3
<1>5. /\ \A i \in sent + 1 .. sent + k : Inserted[i] \in Seq(Tokens)
      /\ \A i \in 1 .. k : next[i] = Inserted[sent + i]
    <2>1. sent \in Nat /\ k \in Nat /\ Len(Inserted) \in Nat /\ sent + k <= Len(Inserted)
        BY <1>1, <1>2, <1>4
    <2> HIDE DEF next
    <2>2. \A i \in sent + 1 .. sent + k : i \in 1 .. Len(Inserted)
        BY <2>1
    <2>3. \A i \in 1 .. k : next[i] = Inserted[sent + i]
        BY DEF next
    <2> QED
        BY <1>1, <2>2, <2>3
<1> HIDE DEF next
<1>6. /\ Shows(f[k], sent + k, Inserted, [c \in DOMAIN Schema |-> c])
      /\ Columned(f[k], Schema)
    BY <1>2, <1>4, <1>5, BatchShows
<1>7. Inserted' = Inserted
    BY FileStays DEF ApplyBatch
<1> QED
    BY <1>4, <1>6, <1>7 DEF StreamSays

LEMMA TextInvNext == LoadInv /\ TextInv /\ [Next]_vars => TextInv'
<1> SUFFICES ASSUME LoadInv, TextInv, [Next]_vars PROVE TextInv'
    OBVIOUS
<1>1. CASE UNCHANGED loadVars
    <2>1. UNCHANGED <<fileVars, lpc, at, targets, row, bulk, sent, streamed>>
        BY <1>1 DEF loadVars, bulkVars, streamVars
    <2>2. UNCHANGED <<file, limit, hasHeader, FieldNames, KeptAt, Fields, ReadLines,
                      BulkSpecs, Inserted>>
        BY <2>1, FileStays
    <2> QED
        BY <2>1, <2>2 DEF TextInv, Reads, BulkSays, StreamSays
<1>2. CASE FromCsv
    <2>1. UNCHANGED fileVars /\ UNCHANGED <<sent, streamed>>
        BY <1>2 DEF FromCsv, streamVars
    <2>2. UNCHANGED <<file, limit, hasHeader, FieldNames, KeptAt, Fields, ReadLines,
                      BulkSpecs, Inserted>>
        BY <2>1, FileStays
    <2>3. StreamSays'
        BY <2>1, <2>2 DEF TextInv, StreamSays
    <2>4. ASSUME UNCHANGED <<targets, row, at>>, bulk'.cols = bulk.cols,
                 \/ lpc' = "failed"
                 \/ /\ lpc \in {"open", "stat", "map"}
                    /\ lpc' \in {"open", "stat", "map", "header"}
                 \/ /\ lpc' = "done"
                    /\ lpc = "end" \/ (lpc = "body" /\ at = Len(file))
          PROVE  Reads' /\ BulkSays'
        <3>1. Reads'
            BY <2>2, <2>4 DEF TextInv, Reads
        <3>2. BulkSays'
            BY <2>2, <2>4 DEF TextInv, BulkSays
        <3> QED
            BY <3>1, <3>2
    <2>5. CASE Open \/ Stat \/ Map
        <3>1. /\ UNCHANGED <<targets, row, at, bulk>> /\ lpc \in {"open", "stat", "map"}
              /\ lpc' \in {"stat", "map", "header", "failed"}
            BY <2>5 DEF Open, Stat, Map
        <3> QED
            BY <2>3, <2>4, <3>1 DEF TextInv
    <2>6. CASE ReadHeader
        BY <2>1, <2>3, <2>6, HeaderSays DEF TextInv
    <2>7. CASE BodyLine
        BY <2>1, <2>3, <2>7, BodySays DEF TextInv
    <2>8. CASE FinishLoad
        <3>1. /\ UNCHANGED <<targets, row, at>> /\ lpc' = "done"
              /\ bulk' = [bulk EXCEPT !.rows = row]
              /\ lpc = "end" \/ (lpc = "body" /\ at = Len(file))
            BY <2>8 DEF FinishLoad
        <3>2. bulk'.cols = bulk.cols
            BY <3>1 DEF LoadInv, Tables
        <3> QED
            BY <2>3, <2>4, <3>1, <3>2 DEF TextInv
    <2>9. CASE OutOfMemory
        <3>1. UNCHANGED <<targets, row, at, bulk>> /\ lpc' = "failed"
            BY <2>9 DEF OutOfMemory
        <3> QED
            BY <2>3, <2>4, <3>1 DEF TextInv
    <2> QED
        BY <1>2, <2>5, <2>6, <2>7, <2>8, <2>9 DEF FromCsv
<1>3. CASE ApplyBatch
    <2>1. UNCHANGED fileVars /\ UNCHANGED <<lpc, at, targets, row, bulk>>
        BY <1>3 DEF ApplyBatch, bulkVars
    <2>2. UNCHANGED <<file, limit, hasHeader, FieldNames, KeptAt, Fields, ReadLines,
                      BulkSpecs, Inserted>>
        BY <2>1, FileStays
    <2>3. Reads' /\ BulkSays'
        BY <2>1, <2>2 DEF TextInv, Reads, BulkSays
    <2> QED
        BY <1>3, <2>3, BatchSays DEF TextInv
<1> QED
    BY <1>1, <1>2, <1>3, LoadStep DEF LoadNext

THEOREM TextInvariant == Spec => []TextInv
<1>1. Init => TextInv
    <2> SUFFICES ASSUME Init PROVE TextInv
        OBVIOUS
    <2>1. /\ lpc = "open" /\ targets = <<>> /\ sent = 0
          /\ streamed = EmptyTable(Schema)
        BY DEF Init, LoadInit
    <2>2. Columned(streamed.cols, Schema)
        BY <2>1, EmptyIsColumned
    <2>3. StreamSays
        BY <2>1, <2>2 DEF StreamSays, Shows
    <2> QED
        BY <2>1, <2>3 DEF TextInv, Reads, BulkSays
<1> QED
    BY <1>1, TextInvNext, LoadInvariant, PTL DEF Spec

(* Column c has the name of the field it is fed from; without a header,    *)
(* and under one, its type is the schema's for that name, if the schema    *)
(* has the name once or it is the last that has it.                        *)
LEMMA FieldsAreKnown ==
    ASSUME Place
    PROVE  /\ Known(FieldNames) \subseteq 1 .. Len(FieldNames) /\ Len(FieldNames) \in Nat
           /\ DOMAIN Fields = 1 .. Cardinality(Known(FieldNames))
           /\ Cardinality(Known(FieldNames)) \in Nat
           /\ DOMAIN BulkSpecs = DOMAIN Fields
           /\ \A c \in DOMAIN Fields :
                /\ Fields[c] \in Known(FieldNames)
                /\ Rank(Known(FieldNames), Fields[c]) = c
                /\ BulkSpecs[c].name = FieldNames[Fields[c]]
                /\ hasHeader => BulkSpecs[c].type = TypeIn(Schema, FieldNames[Fields[c]])
                /\ ~hasHeader => Fields[c] = c /\ BulkSpecs[c].type = Schema[c].type
           /\ \A f \in Known(FieldNames) :
                /\ Rank(Known(FieldNames), f) \in DOMAIN Fields
                /\ Fields[Rank(Known(FieldNames), f)] = f
<1> DEFINE known == Known(FieldNames)
<1>1. /\ known \subseteq 1 .. Len(FieldNames) /\ Len(FieldNames) \in Nat
      /\ Cardinality(known) \in Nat
    BY NamesAreTokens, KnownFields
<1>2. Fields = [c \in 1 .. Cardinality(known) |-> Nth(known, c)]
    BY DEF Fields
<1>3. DOMAIN BulkSpecs = DOMAIN Fields
    <2>1. CASE hasHeader
        BY <2>1 DEF BulkSpecs, HeaderColumns, Fields
    <2>2. CASE ~hasHeader
        BY <2>2, SchemaFields DEF BulkSpecs, Fields
    <2> QED
        BY <2>1, <2>2
<1>4. ASSUME NEW c \in 1 .. Cardinality(known)
      PROVE  /\ Fields[c] \in known /\ Rank(known, Fields[c]) = c
             /\ BulkSpecs[c].name = FieldNames[Fields[c]]
             /\ hasHeader => BulkSpecs[c].type = TypeIn(Schema, FieldNames[Fields[c]])
             /\ ~hasHeader => Fields[c] = c /\ BulkSpecs[c].type = Schema[c].type
    <2>1. Fields[c] = Nth(known, c)
        BY <1>2
    <2>2. Fields[c] \in known /\ Rank(known, Fields[c]) = c
        BY <1>1, <2>1, NthExists
    <2>3. CASE hasHeader
        <3>1. BulkSpecs[c] = [name |-> FieldNames[Nth(known, c)],
                              type |-> TypeIn(Schema, FieldNames[Nth(known, c)])]
            BY <2>3 DEF BulkSpecs, HeaderColumns
        <3> HIDE DEF known
        <3> QED
            BY <2>1, <2>2, <2>3, <3>1
    <2>4. CASE ~hasHeader
        <3>1. Fields[c] \in DOMAIN Schema /\ Rank(known, Fields[c]) = Fields[c]
            BY <2>2, <2>4, SchemaFields
        <3>2. Fields[c] = c
            BY <2>2, <3>1
        <3>3. BulkSpecs[c] = Schema[c] /\ FieldNames[c] = Schema[c].name
            BY <2>4, <3>1, <3>2 DEF BulkSpecs, FieldNames
        <3> QED
            BY <2>2, <2>4, <3>2, <3>3
    <2> QED
        BY <2>3, <2>4
<1>5. ASSUME NEW f \in known
      PROVE  Rank(known, f) \in 1 .. Cardinality(known) /\ Fields[Rank(known, f)] = f
    <2>1. Rank(known, f) \in 1 .. Cardinality(known) /\ Nth(known, Rank(known, f)) = f
        BY <1>1, NthOfRank
    <2> QED
        BY <1>2, <2>1
<1>6. DOMAIN Fields = 1 .. Cardinality(known)
    BY <1>2
<1> QED
    BY <1>1, <1>3, <1>4, <1>5, <1>6

(* The last column of a name is fed by the last field of that name.        *)
LEMMA ColumnOfName ==
    ASSUME Place, Columned(bulk.cols, BulkSpecs),
           NEW name, InSchema(name)
    PROVE  LET fields == {f \in DOMAIN FieldNames : FieldNames[f] = name}
           IN  /\ HasColumn(bulk, name) <=> fields # {}
               /\ fields # {} =>
                    \E c \in DOMAIN bulk.cols :
                        /\ ColumnOf(bulk, name) = bulk.cols[c]
                        /\ Fields[c] = Sets!Max(fields)
                        /\ bulk.cols[c].type = TypeIn(Schema, name)
<1> DEFINE fields == {f \in DOMAIN FieldNames : FieldNames[f] = name}
           known == Known(FieldNames)
           named == Named(bulk.cols, name)
<1>1. /\ known \subseteq 1 .. Len(FieldNames) /\ Len(FieldNames) \in Nat
      /\ DOMAIN Fields = 1 .. Cardinality(known) /\ Cardinality(known) \in Nat
      /\ DOMAIN bulk.cols = DOMAIN Fields
    BY FieldsAreKnown DEF Columned
<1>2. ASSUME NEW c \in DOMAIN Fields
      PROVE  /\ Fields[c] \in known /\ Rank(known, Fields[c]) = c
             /\ bulk.cols[c].name = FieldNames[Fields[c]]
             /\ bulk.cols[c].type = BulkSpecs[c].type
    BY <1>1, FieldsAreKnown DEF Columned
<1>3. fields \subseteq known
    BY DEF Known
<1>4. ASSUME NEW f \in known PROVE Rank(known, f) \in DOMAIN Fields /\ Fields[Rank(known, f)] = f
    BY FieldsAreKnown
<1>5. ASSUME NEW c PROVE c \in named <=> c \in DOMAIN Fields /\ Fields[c] \in fields
    <2>1. c \in named <=> c \in DOMAIN Fields /\ FieldNames[Fields[c]] = name
        BY <1>1, <1>2 DEF Named
    <2>2. c \in DOMAIN Fields => Fields[c] \in DOMAIN FieldNames
        BY <1>2 DEF Known
    <2> QED
        BY <2>1, <2>2
<1>6. HasColumn(bulk, name) <=> fields # {}
    <2>1. ASSUME NEW f \in fields PROVE named # {}
        BY <1>3, <1>4, <1>5
    <2>2. ASSUME NEW c \in named PROVE fields # {}
        BY <1>5
    <2> QED
        BY <2>1, <2>2 DEF HasColumn
<1>7. ASSUME fields # {}
      PROVE  \E c \in DOMAIN bulk.cols :
                /\ ColumnOf(bulk, name) = bulk.cols[c]
                /\ Fields[c] = Sets!Max(fields)
                /\ bulk.cols[c].type = TypeIn(Schema, name)
    <2> DEFINE m == Sets!Max(fields)
               c == Sets!Max(named)
    <2>1. fields \subseteq 1 .. Len(FieldNames)
        BY <1>1, <1>3
    <2>2. m \in fields /\ \A f \in fields : m >= f
        BY <1>1, <1>7, <2>1, LastPosition
    <2>3. named \subseteq 1 .. Cardinality(known) /\ named # {}
        BY <1>1, <1>5, <1>6, <1>7 DEF HasColumn
    <2>4. c \in named /\ \A d \in named : c >= d
        BY <1>1, <2>3, LastPosition
    <2> HIDE DEF m, c
    <2>5. /\ c \in DOMAIN Fields /\ Fields[c] \in fields
          /\ Rank(known, Fields[c]) = c
        BY <1>2, <1>5, <2>4
    <2>6. Rank(known, m) \in named
        BY <1>3, <1>4, <1>5, <2>2
    <2>7. Fields[c] = m
        <3> SUFFICES ASSUME Fields[c] # m PROVE FALSE
            OBVIOUS
        <3>1. Fields[c] \in Nat /\ m \in Nat /\ Fields[c] < m /\ m \in known
            <4>1. \A f \in fields : f \in Nat
                BY <2>1
            <4> QED
                BY <1>3, <2>2, <2>5, <4>1
        <3>2. Rank(known, Fields[c]) < Rank(known, m)
            BY <1>1, <3>1, RankGrows
        <3>3. c < Rank(known, m) /\ c >= Rank(known, m)
            BY <2>4, <2>5, <2>6, <3>2
        <3>4. c \in Nat /\ Rank(known, m) \in Nat
            <4>1. \A d \in named : d \in Nat
                BY <1>1, <2>3
            <4> QED
                BY <2>4, <2>6, <4>1
        <3> QED
            BY <3>3, <3>4
    <2>8. FieldNames[m] = name
        BY <2>2
    <2>9. bulk.cols[c].type = TypeIn(Schema, name)
        <3>1. CASE hasHeader
            BY <1>2, <2>5, <2>7, <2>8, <3>1, FieldsAreKnown
        <3>2. CASE ~hasHeader
            <4>1. Fields[c] = c /\ BulkSpecs[c].type = Schema[c].type
                BY <2>5, <3>2, FieldsAreKnown
            <4>2. fields = Named(Schema, name)
                BY <3>2 DEF FieldNames, Named
            <4>3. TypeIn(Schema, name) = Schema[m].type
                BY <4>2 DEF TypeIn, m
            <4> QED
                BY <1>2, <2>5, <2>7, <4>1, <4>3
        <3> QED
            BY <3>1, <3>2
    <2>10. ColumnOf(bulk, name) = bulk.cols[c]
        BY DEF ColumnOf, c
    <2> QED
        BY <1>1, <2>5, <2>7, <2>9, <2>10 DEF m
<1> QED
    BY <1>6, <1>7

(* The lines that are to be kept are those that were read.                 *)
LEMMA KeptIsRead ==
    ASSUME LoadInv, TextInv, lpc = "done"
    PROVE  /\ Len(KeptLines) = row /\ row \in Nat
           /\ \A r \in 1 .. row : r \in DOMAIN ReadLines /\ KeptLines[r] = ReadLines[r]
<1> DEFINE all == Cardinality(KeptAt)
           most == IF limit = 0 THEN all ELSE Sets!Min({limit, all})
<1>1. /\ KeptAt \subseteq 1 .. Len(file) /\ Len(file) \in Nat /\ all \in Nat
      /\ limit \in Nat /\ DOMAIN ReadLines = 1 .. all
    BY KeptAreLines DEF LoadInv, Place
<1>2. /\ row = Rank(KeptAt, at)
      /\ \/ row = limit /\ limit # 0
         \/ at = Len(file) /\ (limit = 0 \/ row < limit)
    BY DEF TextInv, Reads, BulkSays
<1>3. row \in 0 .. all
    BY <1>1, <1>2, RankType
<1>4. at = Len(file) => row = all
    BY <1>1, <1>2, RankEnds
<1>5. Sets!Min({limit, all}) \in {limit, all} /\ Sets!Min({limit, all}) <= limit /\ Sets!Min({limit, all}) <= all
    BY <1>1, SmallerOfTwo
<1>6. KeptLines = [r \in 1 .. most |-> NextLine(file[Nth(KeptAt, r)])]
    BY DEF KeptLines
<1>7. ReadLines = [r \in 1 .. all |-> NextLine(file[Nth(KeptAt, r)])]
    BY DEF ReadLines
<1> HIDE DEF all
<1>8. most = row
    BY <1>1, <1>2, <1>3, <1>4, <1>5
<1> HIDE DEF most
<1>9. row \in Nat /\ \A r \in 1 .. row : r \in 1 .. all
    BY <1>1, <1>3
<1>10. Len(KeptLines) = row
    BY <1>6, <1>8, <1>9
<1>11. \A r \in 1 .. row : KeptLines[r] = ReadLines[r]
    BY <1>6, <1>7, <1>8, <1>9
<1> QED
    BY <1>1, <1>9, <1>10, <1>11

(* Table::from_csv loads what the file says: a row for each line it is to  *)
(* keep and, under each name of the schema that a field of the file has,   *)
(* what the last field of that name says in each row, whatever the order   *)
(* and number of the fields, however short a line and whatever the limit.  *)
THEOREM FileIsLoaded == Spec => []BulkIsFile
<1>1. LoadInv /\ TextInv => BulkIsFile
    <2> SUFFICES ASSUME LoadInv, TextInv, lpc = "done"
                 PROVE  /\ bulk.rows = Len(KeptLines)
                        /\ \A name \in {Schema[i].name : i \in DOMAIN Schema} :
                            LET fields == {f \in DOMAIN FieldNames : FieldNames[f] = name}
                            IN  /\ HasColumn(bulk, name) <=> fields # {}
                                /\ fields # {} => \A r \in 1 .. bulk.rows :
                                    Shown(ColumnOf(bulk, name), r) =
                                        Value(TypeIn(Schema, name),
                                              Text(KeptLines[r], Sets!Max(fields)))
        BY DEF BulkIsFile
    <2>1. /\ Len(KeptLines) = row
          /\ \A r \in 1 .. row : KeptLines[r] = ReadLines[r]
        BY KeptIsRead
    <2>2. bulk.rows = row
        BY DEF LoadInv, Tables
    <2>3. /\ Columned(bulk.cols, BulkSpecs)
          /\ Shows(bulk.cols, row, ReadLines, Fields)
        BY DEF TextInv, BulkSays
    <2>4. ASSUME NEW name \in {Schema[i].name : i \in DOMAIN Schema}
          PROVE  LET fields == {f \in DOMAIN FieldNames : FieldNames[f] = name}
                 IN  /\ HasColumn(bulk, name) <=> fields # {}
                     /\ fields # {} => \A r \in 1 .. bulk.rows :
                         Shown(ColumnOf(bulk, name), r) =
                             Value(TypeIn(Schema, name),
                                   Text(KeptLines[r], Sets!Max(fields)))
        <3> DEFINE fields == {f \in DOMAIN FieldNames : FieldNames[f] = name}
        <3>1. InSchema(name)
            BY DEF InSchema, Named
        <3>2. /\ HasColumn(bulk, name) <=> fields # {}
              /\ fields # {} =>
                    \E c \in DOMAIN bulk.cols :
                        /\ ColumnOf(bulk, name) = bulk.cols[c]
                        /\ Fields[c] = Sets!Max(fields)
                        /\ bulk.cols[c].type = TypeIn(Schema, name)
            BY <2>3, <3>1, ColumnOfName DEF LoadInv
        <3> HIDE DEF fields
        <3>3. ASSUME fields # {}, NEW r \in 1 .. bulk.rows
              PROVE  Shown(ColumnOf(bulk, name), r) =
                        Value(TypeIn(Schema, name), Text(KeptLines[r], Sets!Max(fields)))
            <4>1. PICK c \in DOMAIN bulk.cols :
                        /\ ColumnOf(bulk, name) = bulk.cols[c]
                        /\ Fields[c] = Sets!Max(fields)
                        /\ bulk.cols[c].type = TypeIn(Schema, name)
                BY <3>2, <3>3
            <4>2. Shown(bulk.cols[c], r) = Value(bulk.cols[c].type, Text(ReadLines[r], Fields[c]))
                BY <2>2, <2>3 DEF Shows
            <4>3. KeptLines[r] = ReadLines[r]
                BY <2>1, <2>2
            <4> QED
                BY <4>1, <4>2, <4>3
        <3> QED
            BY <3>2, <3>3 DEF fields
    <2> QED
        BY <2>1, <2>2, <2>4
<1> QED
    BY <1>1, LoadInvariant, TextInvariant, PTL

(* What there is to keep of a clean file, and to stream: the lines after   *)
(* the first, up to the limit.                                             *)
LEMMA CleanLines ==
    ASSUME LoadInv, TextInv, lpc = "done", Clean
    PROVE  /\ row = Len(Inserted) /\ row \in Nat
           /\ \A r \in 1 .. row : Inserted[r] = ReadLines[r]
<1> DEFINE n == Len(file)
           body == Tail(file)
<1>1. file \in Seq(Lines) /\ n \in Nat /\ limit \in Nat /\ file # <<>>
    BY LinesAreTokens DEF LoadInv, Place, Clean
<1>2. n \in Nat /\ n # 0 /\ limit \in Nat /\ DOMAIN file = 1 .. n
    BY <1>1
<1>3. hasHeader /\ \A i \in 1 .. n : NextLine(file[i]) = file[i] /\ file[i] # <<"">>
    BY <1>2 DEF Clean
<1>4. KeptAt = 2 .. n
    <2>2. ASSUME NEW i PROVE i \in KeptAt <=> i \in 1 .. n /\ i > 1
        BY <1>2, <1>3 DEF KeptAt
    <2>3. ASSUME NEW i PROVE i \in 2 .. n <=> i \in 1 .. n /\ i > 1
        BY <1>2
    <2> HIDE DEF n
    <2> QED
        BY <2>2, <2>3
<1>5. Cardinality(KeptAt) = n - 1
    <2>1. 2 \in Int /\ n \in Int /\ (IF 2 > n THEN 0 ELSE n - 2 + 1) = n - 1
        BY <1>2
    <2> HIDE DEF n
    <2> QED
        BY <1>4, <2>1, FS_Interval
<1>6. /\ body \in Seq(Lines) /\ Len(body) = n - 1
      /\ \A r \in 1 .. n - 1 : body[r] = file[r + 1]
    BY <1>1, <1>2
<1>7. Inserted = IF limit = 0 THEN body ELSE SubSeq(body, 1, Sets!Min({limit, n - 1}))
    BY <1>1, <1>6 DEF Inserted
<1> HIDE DEF body
<1>8. /\ Sets!Min({limit, n - 1}) \in {limit, n - 1}
      /\ Sets!Min({limit, n - 1}) <= limit /\ Sets!Min({limit, n - 1}) <= n - 1
    <2>1. n - 1 \in Nat
        BY <1>2
    <2> QED
        BY <1>2, <2>1, SmallerOfTwo
<1> DEFINE most == IF limit = 0 THEN n - 1 ELSE Sets!Min({limit, n - 1})
<1>9. most \in Nat /\ most <= n - 1
    BY <1>2, <1>8
<1>10. /\ Len(Inserted) = most
      /\ \A r \in 1 .. most : Inserted[r] = body[r]
    <2>1. CASE limit = 0
        BY <1>6, <1>7, <2>1
    <2>2. CASE limit # 0
        <3>1. Inserted = SubSeq(body, 1, most) /\ most <= Len(body)
            BY <1>6, <1>7, <1>9, <2>2
        <3> HIDE DEF most
        <3> QED
            BY <1>6, <1>9, <3>1
    <2> QED
        BY <2>1, <2>2
<1>11. row = most /\ row \in Nat
    <2>1. /\ Len(KeptLines) = row /\ row \in Nat
        BY KeptIsRead
    <2>2. KeptLines = [r \in 1 .. most |-> NextLine(file[Nth(KeptAt, r)])]
        BY <1>5 DEF KeptLines
    <2> HIDE DEF most
    <2>3. Len(KeptLines) = most
        BY <1>9, <2>2
    <2> QED
        BY <2>1, <2>3
<1> HIDE DEF most
<1>12. ASSUME NEW r \in 1 .. row PROVE Inserted[r] = ReadLines[r]
    <2>1. r \in 1 .. n - 1 /\ r \in Nat \ {0} /\ 2 + r - 1 = r + 1 /\ 2 + r - 1 <= n
          /\ r + 1 \in 1 .. n
        BY <1>2, <1>9, <1>11
    <2>2. Nth(2 .. n, r) = r + 1
        <3>1. n \in Nat /\ 2 \in Nat \ {0}
            BY <1>2
        <3> HIDE DEF n
        <3>2. Nth(2 .. n, r) = 2 + r - 1
            BY <2>1, <3>1, NthOfRun
        <3> QED
            BY <2>1, <3>2
    <2>3. ReadLines[r] = NextLine(file[r + 1])
        BY <1>4, <1>5, <2>1, <2>2 DEF ReadLines
    <2>4. ReadLines[r] = file[r + 1]
        BY <1>3, <2>1, <2>3
    <2> QED
        BY <1>6, <1>10, <1>11, <2>1, <2>4
<1> QED
    BY <1>10, <1>11, <1>12

(* Under a clean header column c is fed by field c and has its type.       *)
LEMMA CleanColumns ==
    ASSUME Place, Clean
    PROVE  /\ DOMAIN BulkSpecs = DOMAIN Schema
           /\ \A c \in DOMAIN Schema : Fields[c] = c /\ BulkSpecs[c].type = Schema[c].type
<1>1. FieldNames = SchemaNames /\ hasHeader
    <2>1. 1 \in DOMAIN file
        <3>1. file \in Seq(Lines) /\ file # <<>>
            BY LinesAreTokens DEF Clean
        <3> QED
            BY <3>1
    <2>2. NextLine(file[1]) = file[1]
        BY <2>1 DEF Clean
    <2> QED
        BY <2>2 DEF FieldNames, SchemaNames, Clean
<1>2. /\ DOMAIN Schema = 1 .. Len(Schema) /\ Len(Schema) \in Nat
      /\ Known(FieldNames) = 1 .. Len(Schema)
      /\ Cardinality(1 .. Len(Schema)) = Len(Schema)
      /\ \A f \in DOMAIN Schema : Rank(1 .. Len(Schema), f) = f
    BY <1>1, SchemaFields
<1>3. DOMAIN Fields = DOMAIN Schema /\ DOMAIN BulkSpecs = DOMAIN Schema
    BY <1>2, FieldsAreKnown
<1>4. ASSUME NEW c \in DOMAIN Schema PROVE Fields[c] = c /\ BulkSpecs[c].type = Schema[c].type
    <2>1. /\ Fields[c] \in Known(FieldNames) /\ Rank(Known(FieldNames), Fields[c]) = c
          /\ BulkSpecs[c].type = TypeIn(Schema, FieldNames[Fields[c]])
        BY <1>1, <1>3, FieldsAreKnown
    <2>2. Fields[c] = c
        BY <1>2, <2>1
    <2>3. FieldNames[c] = Schema[c].name
        BY <1>1 DEF SchemaNames
    <2> DEFINE named == Named(Schema, Schema[c].name)
    <2>4. Sets!Max(named) \in named
        <3>1. named \subseteq 1 .. Len(Schema) /\ c \in named
            BY <1>2 DEF Named
        <3> HIDE DEF named
        <3> QED
            BY <1>2, <3>1, LastPosition
    <2>5. Sets!Max(named) = c
        BY <2>4 DEF Clean, Named
    <2> QED
        BY <2>1, <2>2, <2>3, <2>5 DEF TypeIn
<1> QED
    BY <1>3, <1>4

(* A clean file, whatever its lines say and however long they are, gives   *)
(* the same table whether it is loaded or streamed, and in whatever        *)
(* batches apply_batch() gets it.                                          *)
THEOREM LoadersAgree == Spec => []CleanFilesAgree
<1>1. LoadInv /\ TextInv => CleanFilesAgree
    <2> SUFFICES ASSUME LoadInv, TextInv, Loaded, lpc = "done", Clean
                 PROVE  SameTables
        BY DEF CleanFilesAgree
    <2>1. /\ row = Len(Inserted) /\ row \in Nat
          /\ \A r \in 1 .. row : Inserted[r] = ReadLines[r]
        BY CleanLines
    <2>2. bulk.rows = row /\ streamed.rows = row /\ sent = row
        BY <2>1 DEF LoadInv, Tables, Progress, Loaded
    <2>3. /\ Columned(bulk.cols, BulkSpecs) /\ Columned(streamed.cols, Schema)
          /\ Shows(bulk.cols, row, ReadLines, Fields)
          /\ Shows(streamed.cols, row, Inserted, [c \in DOMAIN Schema |-> c])
        BY <2>2 DEF TextInv, BulkSays, StreamSays
    <2>4. /\ DOMAIN BulkSpecs = DOMAIN Schema
          /\ \A c \in DOMAIN Schema : Fields[c] = c /\ BulkSpecs[c].type = Schema[c].type
        BY CleanColumns DEF LoadInv
    <2>5. DOMAIN bulk.cols = DOMAIN Schema /\ DOMAIN streamed.cols = DOMAIN Schema
        BY <2>3, <2>4 DEF Columned
    <2>6. ASSUME NEW c \in DOMAIN Schema, NEW r \in 1 .. row
          PROVE  Shown(streamed.cols[c], r) = Shown(bulk.cols[c], r)
        <3>1. /\ Shown(bulk.cols[c], r) = Value(bulk.cols[c].type, Text(ReadLines[r], Fields[c]))
              /\ Shown(streamed.cols[c], r) = Value(streamed.cols[c].type, Text(Inserted[r], c))
            BY <2>3, <2>5 DEF Shows
        <3>2. bulk.cols[c].type = Schema[c].type /\ streamed.cols[c].type = Schema[c].type
            BY <2>3, <2>4, <2>5 DEF Columned
        <3> QED
            BY <2>1, <2>4, <3>1, <3>2
    <2>7. Sets!Min({row, row}) = row
        BY <2>1, SmallerOfTwo
    <2>8. TableHead(streamed, row) = TableHead(bulk, row)
        BY <2>2, <2>5, <2>6, <2>7 DEF TableHead
    <2> QED
        BY <2>2, <2>8 DEF SameTables
<1> QED
    BY <1>1, LoadInvariant, TextInvariant, PTL
=============================================================================
