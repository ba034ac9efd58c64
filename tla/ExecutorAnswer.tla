---------------------------- MODULE ExecutorAnswer ---------------------------
(***************************************************************************)
(* Theorems about the answer of a query of Executor, for every table,      *)
(* query, number of threads and order of the tasks: it is the aggregate of *)
(* the rows that satisfy all predicates, group by group.  The chain of     *)
(* lemmas: what the folds of Accumulate, Merge and SumOf compute; that an  *)
(* accumulator stands for a set of rows, and a merged one for the union;   *)
(* that the ranges of the tasks cover each row once; that the mask leaves  *)
(* the selected rows; that groups are labels; that emitting and sorting    *)
(* only arrange rows.                                                      *)
(***************************************************************************)
EXTENDS ExecutorProofs

-----------------------------------------------------------------------------
(* Folds.  What each of the operations computes is proved by induction on  *)
(* the number of entries; that there is something to prove it of at all is *)
(* the same for all of them.                                               *)

Scans(M, D, base, xs, n) ==
    \E f \in [0 .. n -> D] :
        f[0] = base /\ \A k \in 1 .. n : f[k] = M[<<f[k - 1], xs[k]>>]

LEMMA ScanExists ==
    ASSUME NEW n \in Nat, NEW D, NEW E, NEW M \in [D \X E -> D], NEW base \in D,
           NEW xs, \A k \in 1 .. n : xs[k] \in E
    PROVE  Scans(M, D, base, xs, n)
<1> DEFINE Good(m) == \E f \in [0 .. m -> D] :
                f[0] = base /\ \A k \in 1 .. m : f[k] = M[<<f[k - 1], xs[k]>>]
           Bad == {m \in 0 .. n : ~Good(m)}
<1>1. Good(0)
    <2> DEFINE f == [k \in 0 .. 0 |-> base]
    <2>1. f \in [0 .. 0 -> D] /\ f[0] = base
        OBVIOUS
    <2> HIDE DEF f
    <2>2. \A k \in 1 .. 0 : f[k] = M[<<f[k - 1], xs[k]>>]
        <3>1. 1 .. 0 = {}
            OBVIOUS
        <3> QED
            BY <3>1, Zenon
    <2> QED
        BY <2>1, <2>2
<1>2. ASSUME NEW m \in 1 .. n, Good(m - 1) PROVE Good(m)
    <2>1. PICK f \in [0 .. m - 1 -> D] :
            f[0] = base /\ \A k \in 1 .. m - 1 : f[k] = M[<<f[k - 1], xs[k]>>]
        BY <1>2
    <2> DEFINE g == [k \in 0 .. m |-> IF k = m THEN M[<<f[m - 1], xs[m]>>] ELSE f[k]]
    <2>2. M[<<f[m - 1], xs[m]>>] \in D
        <3>1. m - 1 \in 0 .. m - 1 /\ m \in 1 .. n
            OBVIOUS
        <3>2. f[m - 1] \in D /\ xs[m] \in E
            BY <3>1
        <3> QED
            BY <3>2
    <2>3. \A k \in 0 .. m : k # m => k \in 0 .. m - 1
        OBVIOUS
    <2>4. g \in [0 .. m -> D]
        BY <2>2, <2>3
    <2>5. g[0] = base /\ \A k \in 0 .. m - 1 : g[k] = f[k]
        BY <2>1
    <2>6. g[m] = M[<<g[m - 1], xs[m]>>]
        <3>1. m - 1 \in 0 .. m - 1 /\ m \in 0 .. m
            OBVIOUS
        <3>2. g[m - 1] = f[m - 1]
            BY <2>5, <3>1
        <3>3. g[m] = M[<<f[m - 1], xs[m]>>]
            BY <3>1, Zenon
        <3> QED
            BY <3>2, <3>3, Zenon
    <2> HIDE DEF g
    <2>7. ASSUME NEW k \in 1 .. m PROVE g[k] = M[<<g[k - 1], xs[k]>>]
        <3>1. CASE k = m
            BY <2>6, <3>1
        <3>2. CASE k # m
            <4>1. k \in 1 .. m - 1 /\ k \in 0 .. m - 1 /\ k - 1 \in 0 .. m - 1
                BY <3>2
            <4> QED
                BY <2>1, <2>5, <4>1
        <3> QED
            BY <3>1, <3>2
    <2> QED
        BY <2>4, <2>5, <2>7
<1> HIDE DEF Good
<1>3. Bad = {}
    <2> SUFFICES ASSUME Bad # {} PROVE FALSE
        OBVIOUS
    <2>1. Bad \subseteq Nat
        OBVIOUS
    <2> HIDE DEF Bad
    <2>2. PICK m \in Bad : \A j \in Bad : m <= j
        BY <2>1, LeastNumber
    <2>3. m \in 0 .. n /\ ~Good(m) /\ m # 0
        BY <1>1 DEF Bad
    <2>4. m \in 1 .. n /\ m - 1 \in 0 .. n /\ ~(m <= m - 1)
        BY <2>3
    <2>5. Good(m - 1)
        BY <2>2, <2>4 DEF Bad
    <2> QED
        BY <1>2, <2>3, <2>4, <2>5
<1>4. Good(n)
    BY <1>3
<1> QED
    BY <1>4 DEF Good, Scans

(* A property of the accumulator that every step keeps.                    *)
LEMMA ScanKeeps ==
    ASSUME NEW n \in Nat, NEW T, 0 \in T,
           \A k \in 1 .. n : k - 1 \in T => k \in T
    PROVE  \A k \in 0 .. n : k \in T
<1> DEFINE Bad == {k \in 0 .. n : k \notin T}
<1> SUFFICES ASSUME Bad # {} PROVE FALSE
    OBVIOUS
<1>1. Bad \subseteq Nat
    OBVIOUS
<1> HIDE DEF Bad
<1>2. PICK m \in Bad : \A j \in Bad : m <= j
    BY <1>1, LeastNumber
<1>3. m \in 1 .. n /\ m \notin T
    BY DEF Bad
<1>4. m - 1 \in 0 .. n /\ ~(m <= m - 1)
    BY <1>3
<1>5. m - 1 \in T
    BY <1>2, <1>4 DEF Bad
<1> QED
    BY <1>3, <1>5

LEMMA ScanTyped ==
    ASSUME NEW n \in Nat, NEW D, NEW g, g[0] \in D,
           \A k \in 1 .. n : g[k - 1] \in D => g[k] \in D
    PROVE  \A k \in 0 .. n : g[k] \in D
<1> DEFINE T == {k \in 0 .. n : g[k] \in D}
<1>1. 0 \in T
    OBVIOUS
<1>2. \A k \in 1 .. n : k - 1 \in T => k \in T
    OBVIOUS
<1> HIDE DEF T
<1>3. \A k \in 0 .. n : k \in T
    BY <1>1, <1>2, ScanKeeps
<1> QED
    BY <1>3 DEF T

LEMMA AddClosed == \A x, y \in Doubles : Add(x, y) \in Doubles
<1> SUFFICES ASSUME NEW x \in Doubles, NEW y \in Doubles PROVE Add(x, y) \in Doubles
    OBVIOUS
<1>1. \A z \in Doubles : Finite(z) <=> z \in Int
    BY ExecutorAssumption DEF Finite, Doubles
<1>2. CASE Finite(x) /\ Finite(y)
    <2>1. Add(x, y) = x + y
        BY <1>2 DEF Add
    <2> QED
        BY <1>1, <1>2, <2>1 DEF Doubles
<1>3. CASE Finite(x) /\ ~Finite(y)
    BY <1>3 DEF Add
<1>4. CASE ~Finite(x) /\ Finite(y)
    BY <1>4 DEF Add
<1>5. CASE ~Finite(x) /\ ~Finite(y)
    <2>1. Add(x, y) = IF x = y THEN x ELSE NaN
        BY <1>5 DEF Add
    <2> QED
        BY <2>1 DEF Doubles
<1> QED
    BY <1>2, <1>3, <1>4, <1>5

LEMMA LeastClosed == \A x, y \in Doubles : StdMin(x, y) \in Doubles /\ StdMax(x, y) \in Doubles
BY DEF StdMin, StdMax

LEMMA ZeroIsDouble == 0 \in Doubles /\ PosInf \in Doubles /\ NegInf \in Doubles
BY DEF Doubles

(* An accumulator as it is merged.                                         *)
Accs == [count : Int, sum : Doubles, mn : Doubles, mx : Doubles]

LEMMA MergeClosed == \A x, y \in Accs : Merge(x, y) \in Accs
<1> SUFFICES ASSUME NEW x \in Accs, NEW y \in Accs PROVE Merge(x, y) \in Accs
    OBVIOUS
<1>1. /\ x.count + y.count \in Int /\ Add(x.sum, y.sum) \in Doubles
      /\ StdMin(x.mn, y.mn) \in Doubles /\ StdMax(x.mx, y.mx) \in Doubles
    BY AddClosed, LeastClosed DEF Accs
<1> QED
    BY <1>1 DEF Merge, Accs

(* The folds that occur.                                                   *)
AddFold(xs, n) == Fold(Add, 0, xs, n)
PlusFold(xs, n) == Fold(+, 0, xs, n)
MinFold(xs, n) == Fold(StdMin, PosInf, xs, n)
MaxFold(xs, n) == Fold(StdMax, NegInf, xs, n)
MergeFold(base, xs, n) == Fold(Merge, base, xs, n)

AddScan(f, xs, n) ==
    /\ f[0] = 0 /\ \A k \in 0 .. n : f[k] \in Doubles
    /\ \A k \in 1 .. n : f[k] = Add(f[k - 1], xs[k])
    /\ AddFold(xs, n) = f[n]

LEMMA FoldAdd ==
    ASSUME NEW n \in Nat, NEW xs, \A k \in 1 .. n : xs[k] \in Doubles
    PROVE  \E f : AddScan(f, xs, n)
<1> DEFINE IsAcc(f) == f = [k \in 0 .. n |-> IF k = 0 THEN 0 ELSE Add(f[k - 1], xs[k])]
           acc == CHOOSE f : IsAcc(f)
<1>1. AddFold(xs, n) = acc[n]
    BY Zenon DEF Fold, AddFold
<1>2. \E f : IsAcc(f)
    <2> DEFINE M == [p \in Doubles \X Doubles |-> Add(p[1], p[2])]
    <2>1. M \in [Doubles \X Doubles -> Doubles] /\ 0 \in Doubles
        BY AddClosed, ZeroIsDouble
    <2>2. \A x \in Doubles, y \in Doubles : M[<<x, y>>] = Add(x, y)
        OBVIOUS
    <2> HIDE DEF M
    <2>3. PICK f \in [0 .. n -> Doubles] :
            f[0] = 0 /\ \A k \in 1 .. n : f[k] = M[<<f[k - 1], xs[k]>>]
        <3>1. Scans(M, Doubles, 0, xs, n)
            BY <2>1, ScanExists
        <3> QED
            BY <3>1 DEF Scans
    <2>4. ASSUME NEW k \in 0 .. n PROVE f[k] = IF k = 0 THEN 0 ELSE Add(f[k - 1], xs[k])
        <3>1. CASE k = 0
            BY <2>3, <3>1
        <3>2. CASE k # 0
            <4>1. k \in 1 .. n /\ k - 1 \in 0 .. n
                BY <3>2
            <4>2. f[k - 1] \in Doubles /\ xs[k] \in Doubles
                BY <4>1
            <4>3. f[k] = M[<<f[k - 1], xs[k]>>]
                BY <2>3, <4>1
            <4> QED
                BY <2>2, <3>2, <4>2, <4>3, Zenon
        <3> QED
            BY <3>1, <3>2
    <2>5. f = [k \in 0 .. n |-> f[k]]
        OBVIOUS
    <2> QED
        BY <2>4, <2>5, Zenon
<1>3. IsAcc(acc)
    BY <1>2, Zenon
<1> HIDE DEF acc
<1>4. \A k \in 0 .. n : acc[k] = IF k = 0 THEN 0 ELSE Add(acc[k - 1], xs[k])
    BY <1>3, Zenon
<1> HIDE DEF IsAcc
<1>5. acc[0] = 0 /\ \A k \in 1 .. n : acc[k] = Add(acc[k - 1], xs[k])
    <2>1. 0 \in 0 .. n /\ \A k \in 1 .. n : k \in 0 .. n /\ k # 0
        OBVIOUS
    <2> QED
        BY <1>4, <2>1, Zenon
<1>6. \A k \in 0 .. n : acc[k] \in Doubles
    <2>1. acc[0] \in Doubles
        BY <1>5, AddClosed, ZeroIsDouble
    <2>2. \A k \in 1 .. n : acc[k - 1] \in Doubles => acc[k] \in Doubles
        BY <1>5, AddClosed, ZeroIsDouble
    <2> QED
        BY <2>1, <2>2, ScanTyped
<1> QED
    BY <1>1, <1>5, <1>6 DEF AddScan

MinScan(f, xs, n) ==
    /\ f[0] = PosInf /\ \A k \in 0 .. n : f[k] \in Doubles
    /\ \A k \in 1 .. n : f[k] = StdMin(f[k - 1], xs[k])
    /\ MinFold(xs, n) = f[n]

LEMMA FoldMin ==
    ASSUME NEW n \in Nat, NEW xs, \A k \in 1 .. n : xs[k] \in Doubles
    PROVE  \E f : MinScan(f, xs, n)
<1> DEFINE IsAcc(f) == f = [k \in 0 .. n |-> IF k = 0 THEN PosInf ELSE StdMin(f[k - 1], xs[k])]
           acc == CHOOSE f : IsAcc(f)
<1>1. MinFold(xs, n) = acc[n]
    BY Zenon DEF Fold, MinFold
<1>2. \E f : IsAcc(f)
    <2> DEFINE M == [p \in Doubles \X Doubles |-> StdMin(p[1], p[2])]
    <2>1. M \in [Doubles \X Doubles -> Doubles] /\ PosInf \in Doubles
        BY LeastClosed, ZeroIsDouble
    <2>2. \A x \in Doubles, y \in Doubles : M[<<x, y>>] = StdMin(x, y)
        OBVIOUS
    <2> HIDE DEF M
    <2>3. PICK f \in [0 .. n -> Doubles] :
            f[0] = PosInf /\ \A k \in 1 .. n : f[k] = M[<<f[k - 1], xs[k]>>]
        <3>1. Scans(M, Doubles, PosInf, xs, n)
            BY <2>1, ScanExists
        <3> QED
            BY <3>1 DEF Scans
    <2>4. ASSUME NEW k \in 0 .. n PROVE f[k] = IF k = 0 THEN PosInf ELSE StdMin(f[k - 1], xs[k])
        <3>1. CASE k = 0
            BY <2>3, <3>1
        <3>2. CASE k # 0
            <4>1. k \in 1 .. n /\ k - 1 \in 0 .. n
                BY <3>2
            <4>2. f[k - 1] \in Doubles /\ xs[k] \in Doubles
                BY <4>1
            <4>3. f[k] = M[<<f[k - 1], xs[k]>>]
                BY <2>3, <4>1
            <4> QED
                BY <2>2, <3>2, <4>2, <4>3, Zenon
        <3> QED
            BY <3>1, <3>2
    <2>5. f = [k \in 0 .. n |-> f[k]]
        OBVIOUS
    <2> QED
        BY <2>4, <2>5, Zenon
<1>3. IsAcc(acc)
    BY <1>2, Zenon
<1> HIDE DEF acc
<1>4. \A k \in 0 .. n : acc[k] = IF k = 0 THEN PosInf ELSE StdMin(acc[k - 1], xs[k])
    BY <1>3, Zenon
<1> HIDE DEF IsAcc
<1>5. acc[0] = PosInf /\ \A k \in 1 .. n : acc[k] = StdMin(acc[k - 1], xs[k])
    <2>1. 0 \in 0 .. n /\ \A k \in 1 .. n : k \in 0 .. n /\ k # 0
        OBVIOUS
    <2> QED
        BY <1>4, <2>1, Zenon
<1>6. \A k \in 0 .. n : acc[k] \in Doubles
    <2>1. acc[0] \in Doubles
        BY <1>5, LeastClosed, ZeroIsDouble
    <2>2. \A k \in 1 .. n : acc[k - 1] \in Doubles => acc[k] \in Doubles
        BY <1>5, LeastClosed, ZeroIsDouble
    <2> QED
        BY <2>1, <2>2, ScanTyped
<1> QED
    BY <1>1, <1>5, <1>6 DEF MinScan

MaxScan(f, xs, n) ==
    /\ f[0] = NegInf /\ \A k \in 0 .. n : f[k] \in Doubles
    /\ \A k \in 1 .. n : f[k] = StdMax(f[k - 1], xs[k])
    /\ MaxFold(xs, n) = f[n]

LEMMA FoldMax ==
    ASSUME NEW n \in Nat, NEW xs, \A k \in 1 .. n : xs[k] \in Doubles
    PROVE  \E f : MaxScan(f, xs, n)
<1> DEFINE IsAcc(f) == f = [k \in 0 .. n |-> IF k = 0 THEN NegInf ELSE StdMax(f[k - 1], xs[k])]
           acc == CHOOSE f : IsAcc(f)
<1>1. MaxFold(xs, n) = acc[n]
    BY Zenon DEF Fold, MaxFold
<1>2. \E f : IsAcc(f)
    <2> DEFINE M == [p \in Doubles \X Doubles |-> StdMax(p[1], p[2])]
    <2>1. M \in [Doubles \X Doubles -> Doubles] /\ NegInf \in Doubles
        BY LeastClosed, ZeroIsDouble
    <2>2. \A x \in Doubles, y \in Doubles : M[<<x, y>>] = StdMax(x, y)
        OBVIOUS
    <2> HIDE DEF M
    <2>3. PICK f \in [0 .. n -> Doubles] :
            f[0] = NegInf /\ \A k \in 1 .. n : f[k] = M[<<f[k - 1], xs[k]>>]
        <3>1. Scans(M, Doubles, NegInf, xs, n)
            BY <2>1, ScanExists
        <3> QED
            BY <3>1 DEF Scans
    <2>4. ASSUME NEW k \in 0 .. n PROVE f[k] = IF k = 0 THEN NegInf ELSE StdMax(f[k - 1], xs[k])
        <3>1. CASE k = 0
            BY <2>3, <3>1
        <3>2. CASE k # 0
            <4>1. k \in 1 .. n /\ k - 1 \in 0 .. n
                BY <3>2
            <4>2. f[k - 1] \in Doubles /\ xs[k] \in Doubles
                BY <4>1
            <4>3. f[k] = M[<<f[k - 1], xs[k]>>]
                BY <2>3, <4>1
            <4> QED
                BY <2>2, <3>2, <4>2, <4>3, Zenon
        <3> QED
            BY <3>1, <3>2
    <2>5. f = [k \in 0 .. n |-> f[k]]
        OBVIOUS
    <2> QED
        BY <2>4, <2>5, Zenon
<1>3. IsAcc(acc)
    BY <1>2, Zenon
<1> HIDE DEF acc
<1>4. \A k \in 0 .. n : acc[k] = IF k = 0 THEN NegInf ELSE StdMax(acc[k - 1], xs[k])
    BY <1>3, Zenon
<1> HIDE DEF IsAcc
<1>5. acc[0] = NegInf /\ \A k \in 1 .. n : acc[k] = StdMax(acc[k - 1], xs[k])
    <2>1. 0 \in 0 .. n /\ \A k \in 1 .. n : k \in 0 .. n /\ k # 0
        OBVIOUS
    <2> QED
        BY <1>4, <2>1, Zenon
<1>6. \A k \in 0 .. n : acc[k] \in Doubles
    <2>1. acc[0] \in Doubles
        BY <1>5, LeastClosed, ZeroIsDouble
    <2>2. \A k \in 1 .. n : acc[k - 1] \in Doubles => acc[k] \in Doubles
        BY <1>5, LeastClosed, ZeroIsDouble
    <2> QED
        BY <2>1, <2>2, ScanTyped
<1> QED
    BY <1>1, <1>5, <1>6 DEF MaxScan

PlusScan(f, xs, n) ==
    /\ f[0] = 0 /\ \A k \in 0 .. n : f[k] \in Int
    /\ \A k \in 1 .. n : f[k] = f[k - 1] + xs[k]
    /\ PlusFold(xs, n) = f[n]

LEMMA FoldPlus ==
    ASSUME NEW n \in Nat, NEW xs, \A k \in 1 .. n : xs[k] \in Int
    PROVE  \E f : PlusScan(f, xs, n)
<1> DEFINE IsAcc(f) == f = [k \in 0 .. n |-> IF k = 0 THEN 0 ELSE f[k - 1] + xs[k]]
           acc == CHOOSE f : IsAcc(f)
<1>1. PlusFold(xs, n) = acc[n]
    BY Zenon DEF Fold, PlusFold
<1>2. \E f : IsAcc(f)
    <2> DEFINE M == [p \in Int \X Int |-> p[1] + p[2]]
    <2>1. M \in [Int \X Int -> Int] /\ 0 \in Int
        OBVIOUS
    <2>2. \A x \in Int, y \in Int : M[<<x, y>>] = x + y
        OBVIOUS
    <2> HIDE DEF M
    <2>3. PICK f \in [0 .. n -> Int] :
            f[0] = 0 /\ \A k \in 1 .. n : f[k] = M[<<f[k - 1], xs[k]>>]
        <3>1. Scans(M, Int, 0, xs, n)
            BY <2>1, ScanExists
        <3> QED
            BY <3>1 DEF Scans
    <2>4. ASSUME NEW k \in 0 .. n PROVE f[k] = IF k = 0 THEN 0 ELSE f[k - 1] + xs[k]
        <3>1. CASE k = 0
            BY <2>3, <3>1
        <3>2. CASE k # 0
            <4>1. k \in 1 .. n /\ k - 1 \in 0 .. n
                BY <3>2
            <4>2. f[k - 1] \in Int /\ xs[k] \in Int
                BY <4>1
            <4>3. f[k] = M[<<f[k - 1], xs[k]>>]
                BY <2>3, <4>1
            <4> QED
                BY <2>2, <3>2, <4>2, <4>3, Zenon
        <3> QED
            BY <3>1, <3>2
    <2>5. f = [k \in 0 .. n |-> f[k]]
        OBVIOUS
    <2> QED
        BY <2>4, <2>5, Zenon
<1>3. IsAcc(acc)
    BY <1>2, Zenon
<1> HIDE DEF acc
<1>4. \A k \in 0 .. n : acc[k] = IF k = 0 THEN 0 ELSE acc[k - 1] + xs[k]
    BY <1>3, Zenon
<1> HIDE DEF IsAcc
<1>5. acc[0] = 0 /\ \A k \in 1 .. n : acc[k] = acc[k - 1] + xs[k]
    <2>1. 0 \in 0 .. n /\ \A k \in 1 .. n : k \in 0 .. n /\ k # 0
        OBVIOUS
    <2> QED
        BY <1>4, <2>1, Zenon
<1>6. \A k \in 0 .. n : acc[k] \in Int
    <2>1. acc[0] \in Int
        BY <1>5
    <2>2. \A k \in 1 .. n : acc[k - 1] \in Int => acc[k] \in Int
        BY <1>5
    <2> QED
        BY <2>1, <2>2, ScanTyped
<1> QED
    BY <1>1, <1>5, <1>6 DEF PlusScan

MergeScan(f, base, xs, n) ==
    /\ f[0] = base /\ \A k \in 0 .. n : f[k] \in Accs
    /\ \A k \in 1 .. n : f[k] = Merge(f[k - 1], xs[k])
    /\ MergeFold(base, xs, n) = f[n]

LEMMA FoldMerge ==
    ASSUME NEW n \in Nat, NEW base \in Accs, NEW xs, \A k \in 1 .. n : xs[k] \in Accs
    PROVE  \E f : MergeScan(f, base, xs, n)
<1> DEFINE IsAcc(f) == f = [k \in 0 .. n |-> IF k = 0 THEN base ELSE Merge(f[k - 1], xs[k])]
           acc == CHOOSE f : IsAcc(f)
<1>1. MergeFold(base, xs, n) = acc[n]
    BY Zenon DEF Fold, MergeFold
<1>2. \E f : IsAcc(f)
    <2> DEFINE M == [p \in Accs \X Accs |-> Merge(p[1], p[2])]
    <2>1. M \in [Accs \X Accs -> Accs] /\ base \in Accs
        BY MergeClosed
    <2>2. \A x \in Accs, y \in Accs : M[<<x, y>>] = Merge(x, y)
        OBVIOUS
    <2> HIDE DEF M
    <2>3. PICK f \in [0 .. n -> Accs] :
            f[0] = base /\ \A k \in 1 .. n : f[k] = M[<<f[k - 1], xs[k]>>]
        <3>1. Scans(M, Accs, base, xs, n)
            BY <2>1, ScanExists
        <3> QED
            BY <3>1 DEF Scans
    <2>4. ASSUME NEW k \in 0 .. n PROVE f[k] = IF k = 0 THEN base ELSE Merge(f[k - 1], xs[k])
        <3>1. CASE k = 0
            BY <2>3, <3>1
        <3>2. CASE k # 0
            <4>1. k \in 1 .. n /\ k - 1 \in 0 .. n
                BY <3>2
            <4>2. f[k - 1] \in Accs /\ xs[k] \in Accs
                BY <4>1
            <4>3. f[k] = M[<<f[k - 1], xs[k]>>]
                BY <2>3, <4>1
            <4> QED
                BY <2>2, <3>2, <4>2, <4>3, Zenon
        <3> QED
            BY <3>1, <3>2
    <2>5. f = [k \in 0 .. n |-> f[k]]
        OBVIOUS
    <2> QED
        BY <2>4, <2>5, Zenon
<1>3. IsAcc(acc)
    BY <1>2, Zenon
<1> HIDE DEF acc
<1>4. \A k \in 0 .. n : acc[k] = IF k = 0 THEN base ELSE Merge(acc[k - 1], xs[k])
    BY <1>3, Zenon
<1> HIDE DEF IsAcc
<1>5. acc[0] = base /\ \A k \in 1 .. n : acc[k] = Merge(acc[k - 1], xs[k])
    <2>1. 0 \in 0 .. n /\ \A k \in 1 .. n : k \in 0 .. n /\ k # 0
        OBVIOUS
    <2> QED
        BY <1>4, <2>1, Zenon
<1>6. \A k \in 0 .. n : acc[k] \in Accs
    <2>1. acc[0] \in Accs
        BY <1>5, MergeClosed
    <2>2. \A k \in 1 .. n : acc[k - 1] \in Accs => acc[k] \in Accs
        BY <1>5, MergeClosed
    <2> QED
        BY <2>1, <2>2, ScanTyped
<1> QED
    BY <1>1, <1>5, <1>6 DEF MergeScan

-----------------------------------------------------------------------------
(* Doubles in order.  NaN is neither below nor above anything.             *)

LEMMA LessOrder ==
    ASSUME NEW x \in Doubles, NEW y \in Doubles, NEW z \in Doubles
    PROVE  /\ Less(x, y) => x # NaN /\ y # NaN /\ ~Less(y, x)
           /\ Less(x, y) /\ Less(y, z) => Less(x, z)
           /\ x # NaN /\ y # NaN => x = y \/ Less(x, y) \/ Less(y, x)
           /\ ~Less(x, x) /\ ~Less(PosInf, x) /\ ~Less(x, NegInf)
<1>1. \A d \in Doubles : d \in Int \/ d = PosInf \/ d = NegInf \/ d = NaN
    BY DEF Doubles
<1>2. \A d \in Doubles : Finite(d) <=> d \in Int
    BY ExecutorAssumption DEF Finite, Doubles
<1>3. /\ PosInf \notin Int /\ NegInf \notin Int /\ NaN \notin Int
      /\ PosInf # NegInf /\ NaN # PosInf /\ NaN # NegInf
      /\ PosInf \in Doubles /\ NegInf \in Doubles
    BY ExecutorAssumption DEF Doubles
<1>4. \A a, b \in Doubles :
        Less(a, b) <=> /\ a # NaN /\ b # NaN /\ a # b
                       /\ a = NegInf \/ b = PosInf \/ (a \in Int /\ b \in Int /\ a < b)
    BY <1>2 DEF Less
<1>5. Less(x, y) => x # NaN /\ y # NaN /\ ~Less(y, x)
    BY <1>1, <1>3, <1>4
<1>6. Less(x, y) /\ Less(y, z) => Less(x, z)
    BY <1>1, <1>3, <1>4
<1>7. x # NaN /\ y # NaN => x = y \/ Less(x, y) \/ Less(y, x)
    BY <1>1, <1>3, <1>4
<1>8. ~Less(x, x) /\ ~Less(PosInf, x) /\ ~Less(x, NegInf)
    BY <1>1, <1>3, <1>4
<1> QED
    BY <1>5, <1>6, <1>7, <1>8

(* m is the least of V, or what a minimum starts with: PosInf.             *)
IsLeast(m, V) == m \in (V \ {NaN}) \cup {PosInf} /\ \A y \in V : ~Less(y, m)
IsGreatest(m, V) == m \in (V \ {NaN}) \cup {NegInf} /\ \A y \in V : ~Less(m, y)

LEMMA LeastJoin ==
    ASSUME NEW V, NEW W, V \subseteq Doubles, W \subseteq Doubles, NEW a, NEW b,
           IsLeast(a, V), IsLeast(b, W)
    PROVE  IsLeast(StdMin(a, b), V \cup W)
<1>1. a \in Doubles /\ b \in Doubles /\ a # NaN /\ b # NaN
    BY ZeroIsDouble, ExecutorAssumption DEF IsLeast
<1>2. CASE Less(b, a)
    <2>1. StdMin(a, b) = b
        BY <1>2 DEF StdMin
    <2>2. ASSUME NEW y \in V PROVE ~Less(y, b)
        <3>1. y \in Doubles /\ ~Less(y, a)
            BY DEF IsLeast
        <3> QED
            BY <1>1, <1>2, <3>1, LessOrder
    <2>3. b # PosInf
        BY <1>1, <1>2, LessOrder
    <2> QED
        BY <2>1, <2>2, <2>3 DEF IsLeast
<1>3. CASE ~Less(b, a)
    <2>1. StdMin(a, b) = a
        BY <1>3 DEF StdMin
    <2>2. ASSUME NEW y \in W PROVE ~Less(y, a)
        <3>1. y \in Doubles /\ ~Less(y, b)
            BY DEF IsLeast
        <3>2. CASE a = b
            BY <3>1, <3>2
        <3>3. CASE Less(a, b)
            BY <1>1, <3>1, <3>3, LessOrder
        <3> QED
            BY <1>1, <1>3, <3>2, <3>3, LessOrder
    <2> QED
        BY <2>1, <2>2 DEF IsLeast
<1> QED
    BY <1>2, <1>3

LEMMA GreatestJoin ==
    ASSUME NEW V, NEW W, V \subseteq Doubles, W \subseteq Doubles, NEW a, NEW b,
           IsGreatest(a, V), IsGreatest(b, W)
    PROVE  IsGreatest(StdMax(a, b), V \cup W)
<1>1. a \in Doubles /\ b \in Doubles /\ a # NaN /\ b # NaN
    BY ZeroIsDouble, ExecutorAssumption DEF IsGreatest
<1>2. CASE Less(a, b)
    <2>1. StdMax(a, b) = b
        BY <1>2 DEF StdMax
    <2>2. ASSUME NEW y \in V PROVE ~Less(b, y)
        <3>1. y \in Doubles /\ ~Less(a, y)
            BY DEF IsGreatest
        <3> QED
            BY <1>1, <1>2, <3>1, LessOrder
    <2>3. b # NegInf
        BY <1>1, <1>2, LessOrder
    <2> QED
        BY <2>1, <2>2, <2>3 DEF IsGreatest
<1>3. CASE ~Less(a, b)
    <2>1. StdMax(a, b) = a
        BY <1>3 DEF StdMax
    <2>2. ASSUME NEW y \in W PROVE ~Less(a, y)
        <3>1. y \in Doubles /\ ~Less(b, y)
            BY DEF IsGreatest
        <3>2. CASE a = b
            BY <3>1, <3>2
        <3>3. CASE Less(b, a)
            BY <1>1, <3>1, <3>3, LessOrder
        <3> QED
            BY <1>1, <1>3, <3>2, <3>3, LessOrder
    <2> QED
        BY <2>1, <2>2 DEF IsGreatest
<1> QED
    BY <1>2, <1>3

(* One value more.                                                         *)
LEMMA LeastStep ==
    ASSUME NEW V, V \subseteq Doubles, NEW x \in Doubles, NEW a
    PROVE  /\ IsLeast(a, V) => IsLeast(StdMin(a, x), V \cup {x})
           /\ IsGreatest(a, V) => IsGreatest(StdMax(a, x), V \cup {x})
           /\ IsLeast(PosInf, {}) /\ IsGreatest(NegInf, {})
<1>1. CASE x # NaN
    <2>1. IsLeast(x, {x}) /\ IsGreatest(x, {x})
        BY <1>1, LessOrder DEF IsLeast, IsGreatest
    <2>2. {x} \subseteq Doubles
        OBVIOUS
    <2>3. IsLeast(a, V) => IsLeast(StdMin(a, x), V \cup {x})
        BY <2>1, <2>2, LeastJoin
    <2>4. IsGreatest(a, V) => IsGreatest(StdMax(a, x), V \cup {x})
        BY <2>1, <2>2, GreatestJoin
    <2>5. IsLeast(PosInf, {}) /\ IsGreatest(NegInf, {})
        BY DEF IsLeast, IsGreatest
    <2> QED
        BY <2>3, <2>4, <2>5
<1>2. CASE x = NaN
    <2>1. \A y : ~Less(x, y) /\ ~Less(y, x)
        BY <1>2 DEF Less
    <2> QED
        BY <1>2, <2>1 DEF StdMin, StdMax, IsLeast, IsGreatest
<1> QED
    BY <1>1, <1>2

LEMMA LeastIsOne ==
    ASSUME NEW V, V \subseteq Doubles, NEW a
    PROVE  /\ IsLeast(a, V) => LeastOf(V) = a
           /\ IsGreatest(a, V) => GreatestOf(V) = a
<1>1. ASSUME IsLeast(a, V), NEW b, IsLeast(b, V) PROVE b = a
    <2>1. a \in Doubles /\ b \in Doubles /\ a # NaN /\ b # NaN
        BY <1>1, ZeroIsDouble, ExecutorAssumption DEF IsLeast
    <2>2. ~Less(a, b)
        BY <1>1, <2>1, LessOrder DEF IsLeast
    <2>3. ~Less(b, a)
        BY <1>1, <2>1, LessOrder DEF IsLeast
    <2> QED
        BY <2>1, <2>2, <2>3, LessOrder
<1>2. ASSUME IsGreatest(a, V), NEW b, IsGreatest(b, V) PROVE b = a
    <2>1. a \in Doubles /\ b \in Doubles /\ a # NaN /\ b # NaN
        BY <1>2, ZeroIsDouble, ExecutorAssumption DEF IsGreatest
    <2>2. ~Less(a, b)
        BY <1>2, <2>1, LessOrder DEF IsGreatest
    <2>3. ~Less(b, a)
        BY <1>2, <2>1, LessOrder DEF IsGreatest
    <2> QED
        BY <2>1, <2>2, <2>3, LessOrder
<1>3. ASSUME IsLeast(a, V) PROVE LeastOf(V) = a
    <2>1. a \in (V \ {NaN}) \cup {PosInf} /\ \A y \in V : ~Less(y, a)
        BY <1>3 DEF IsLeast
    <2>2. /\ LeastOf(V) \in (V \ {NaN}) \cup {PosInf}
          /\ \A y \in V : ~Less(y, LeastOf(V))
        BY <2>1, Zenon DEF LeastOf
    <2>3. IsLeast(LeastOf(V), V)
        BY <2>2 DEF IsLeast
    <2> QED
        BY <1>1, <1>3, <2>3
<1>4. ASSUME IsGreatest(a, V) PROVE GreatestOf(V) = a
    <2>1. a \in (V \ {NaN}) \cup {NegInf} /\ \A y \in V : ~Less(a, y)
        BY <1>4 DEF IsGreatest
    <2>2. /\ GreatestOf(V) \in (V \ {NaN}) \cup {NegInf}
          /\ \A y \in V : ~Less(GreatestOf(V), y)
        BY <2>1, Zenon DEF GreatestOf
    <2>3. IsGreatest(GreatestOf(V), V)
        BY <2>2 DEF IsGreatest
    <2> QED
        BY <1>2, <1>4, <2>3
<1> QED
    BY <1>3, <1>4

-----------------------------------------------------------------------------
(* Sums over rows.  P[i] is the sum over those of the first i rows that    *)
(* are in R, what is not an integer left out.                              *)

Term(y, R, i) == IF i \in R /\ y[i] \in Int THEN y[i] ELSE 0

IsTotal(P, y, R, n) ==
    /\ P \in [0 .. n -> Int] /\ P[0] = 0
    /\ \A i \in 1 .. n : P[i] = P[i - 1] + Term(y, R, i)

RowSum(y, R, n) == (CHOOSE P : IsTotal(P, y, R, n))[n]

LEMMA TermIsInt == \A y, R, i : Term(y, R, i) \in Int
BY DEF Term

LEMMA TotalExists ==
    ASSUME NEW n \in Nat, NEW y, NEW R
    PROVE  \E P : IsTotal(P, y, R, n)
<1> DEFINE M == [p \in Int \X Int |-> p[1] + p[2]]
           xs == [i \in 1 .. n |-> Term(y, R, i)]
<1>1. M \in [Int \X Int -> Int] /\ \A a, b \in Int : M[<<a, b>>] = a + b
    OBVIOUS
<1>2. \A i \in 1 .. n : xs[i] = Term(y, R, i) /\ xs[i] \in Int
    BY TermIsInt
<1> HIDE DEF M, xs
<1>3. Scans(M, Int, 0, xs, n)
    <2>1. 0 \in Int
        OBVIOUS
    <2> QED
        BY <1>1, <1>2, <2>1, ScanExists
<1>4. PICK P \in [0 .. n -> Int] :
        P[0] = 0 /\ \A k \in 1 .. n : P[k] = M[<<P[k - 1], xs[k]>>]
    BY <1>3 DEF Scans
<1>5. ASSUME NEW i \in 1 .. n PROVE P[i] = P[i - 1] + Term(y, R, i)
    <2>1. i - 1 \in 0 .. n
        OBVIOUS
    <2>2. P[i - 1] \in Int
        BY <2>1
    <2> QED
        BY <1>1, <1>2, <1>4, <2>2
<1> QED
    BY <1>4, <1>5 DEF IsTotal

(* Totals are alike if their terms are.                                    *)
LEMMA TotalsAlike ==
    ASSUME NEW n \in Nat, NEW y, NEW z, NEW R, NEW S, NEW P, NEW Q,
           IsTotal(P, y, R, n), IsTotal(Q, z, S, n),
           \A i \in 1 .. n : Term(y, R, i) = Term(z, S, i)
    PROVE  P[n] = Q[n]
<1> DEFINE T == {i \in 0 .. n : P[i] = Q[i]}
<1>1. 0 \in T
    BY DEF IsTotal
<1>2. \A i \in 1 .. n : i - 1 \in T => i \in T
    BY DEF IsTotal
<1> HIDE DEF T
<1>3. n \in T
    BY <1>1, <1>2, ScanKeeps
<1> QED
    BY <1>3 DEF T

LEMMA RowSumIs ==
    ASSUME NEW n \in Nat, NEW y, NEW R
    PROVE  /\ RowSum(y, R, n) \in Int
           /\ \A P : IsTotal(P, y, R, n) => RowSum(y, R, n) = P[n]
<1> DEFINE Q == CHOOSE P : IsTotal(P, y, R, n)
<1>1. IsTotal(Q, y, R, n) /\ RowSum(y, R, n) = Q[n]
    BY TotalExists, Zenon DEF RowSum
<1> HIDE DEF Q
<1>2. Q[n] \in Int
    BY <1>1 DEF IsTotal
<1>3. \A P : IsTotal(P, y, R, n) => Q[n] = P[n]
    BY <1>1, TotalsAlike
<1> QED
    BY <1>1, <1>2, <1>3

LEMMA RowSumAlike ==
    ASSUME NEW n \in Nat, NEW y, NEW z, NEW R, NEW S,
           \A i \in 1 .. n : Term(y, R, i) = Term(z, S, i)
    PROVE  RowSum(y, R, n) = RowSum(z, S, n)
<1>1. PICK P : IsTotal(P, y, R, n)
    BY TotalExists
<1>2. PICK Q : IsTotal(Q, z, S, n)
    BY TotalExists
<1>3. P[n] = Q[n]
    BY <1>1, <1>2, TotalsAlike
<1> QED
    BY <1>1, <1>2, <1>3, RowSumIs

(* Rows that are apart add up.                                             *)
LEMMA RowSumJoin ==
    ASSUME NEW n \in Nat, NEW y, NEW A, NEW B, A \cap B = {}
    PROVE  RowSum(y, A \cup B, n) = RowSum(y, A, n) + RowSum(y, B, n)
<1>1. PICK P : IsTotal(P, y, A, n)
    BY TotalExists
<1>2. PICK Q : IsTotal(Q, y, B, n)
    BY TotalExists
<1> DEFINE S == [i \in 0 .. n |-> P[i] + Q[i]]
<1>3. \A i \in 0 .. n : S[i] = P[i] + Q[i] /\ P[i] \in Int /\ Q[i] \in Int
    BY <1>1, <1>2 DEF IsTotal
<1>4. S \in [0 .. n -> Int]
    BY <1>3
<1> HIDE DEF S
<1>5. S[0] = 0
    <2>1. P[0] = 0 /\ Q[0] = 0 /\ 0 \in 0 .. n
        BY <1>1, <1>2 DEF IsTotal
    <2>2. S[0] = P[0] + Q[0]
        BY <1>3, <2>1
    <2> QED
        BY <2>1, <2>2
<1>6. ASSUME NEW i \in 1 .. n PROVE S[i] = S[i - 1] + Term(y, A \cup B, i)
    <2>1. i \in 0 .. n /\ i - 1 \in 0 .. n
        OBVIOUS
    <2>2. P[i] = P[i - 1] + Term(y, A, i) /\ Q[i] = Q[i - 1] + Term(y, B, i)
        BY <1>1, <1>2 DEF IsTotal
    <2>3. Term(y, A \cup B, i) = Term(y, A, i) + Term(y, B, i)
        BY DEF Term
    <2>4. Term(y, A, i) \in Int /\ Term(y, B, i) \in Int
        BY TermIsInt
    <2> QED
        BY <1>3, <2>1, <2>2, <2>3, <2>4
<1>7. IsTotal(S, y, A \cup B, n)
    BY <1>4, <1>5, <1>6 DEF IsTotal
<1>8. S[n] = P[n] + Q[n]
    BY <1>3
<1> QED
    BY <1>1, <1>2, <1>7, <1>8, RowSumIs

LEMMA RowSumNone ==
    ASSUME NEW n \in Nat, NEW y
    PROVE  RowSum(y, {}, n) = 0
<1> DEFINE P == [i \in 0 .. n |-> 0]
<1>1. P \in [0 .. n -> Int] /\ \A i \in 0 .. n : P[i] = 0
    OBVIOUS
<1> HIDE DEF P
<1>2. \A i \in 1 .. n : P[i] = P[i - 1] + Term(y, {}, i)
    BY <1>1 DEF Term
<1>3. IsTotal(P, y, {}, n)
    <2>1. 0 \in 0 .. n
        OBVIOUS
    <2>2. P[0] = 0
        BY <1>1, <2>1
    <2> QED
        BY <1>1, <1>2, <2>2 DEF IsTotal
<1> QED
    BY <1>1, <1>3, RowSumIs

LEMMA RowSumOne ==
    ASSUME NEW n \in Nat, NEW y, NEW r \in 1 .. n, y[r] \in Int
    PROVE  RowSum(y, {r}, n) = y[r]
<1> DEFINE P == [i \in 0 .. n |-> IF i < r THEN 0 ELSE y[r]]
<1>1. P \in [0 .. n -> Int] /\ \A i \in 0 .. n : P[i] = IF i < r THEN 0 ELSE y[r]
    OBVIOUS
<1> HIDE DEF P
<1>2. ASSUME NEW i \in 1 .. n PROVE P[i] = P[i - 1] + Term(y, {r}, i)
    <2>1. i \in 0 .. n /\ i - 1 \in 0 .. n /\ r \in Int
        OBVIOUS
    <2>2. CASE i = r
        BY <1>1, <2>1, <2>2 DEF Term
    <2>3. CASE i # r
        BY <1>1, <2>1, <2>3 DEF Term
    <2> QED
        BY <2>2, <2>3
<1>3. IsTotal(P, y, {r}, n)
    <2>1. 0 \in 0 .. n /\ 0 < r
        OBVIOUS
    <2>2. P[0] = 0
        BY <1>1, <2>1
    <2> QED
        BY <1>1, <1>2, <2>2 DEF IsTotal
<1>4. P[n] = y[r]
    BY <1>1
<1> QED
    BY <1>3, <1>4, RowSumIs

(* A sum of doubles over the rows R: what is not finite decides.           *)
Entry(y, R) == {y[i] : i \in R}

IsSum(s, y, R, n) ==
    s = IF NaN \in Entry(y, R) \/ (PosInf \in Entry(y, R) /\ NegInf \in Entry(y, R))
        THEN NaN
        ELSE IF PosInf \in Entry(y, R) THEN PosInf
        ELSE IF NegInf \in Entry(y, R) THEN NegInf
        ELSE RowSum(y, R, n)

LEMMA SumJoin ==
    ASSUME NEW n \in Nat, NEW y, NEW A, NEW B, A \cap B = {}, NEW s, NEW t,
           IsSum(s, y, A, n), IsSum(t, y, B, n)
    PROVE  IsSum(Add(s, t), y, A \cup B, n)
<1>1. \A x : x \in Entry(y, A \cup B) <=> x \in Entry(y, A) \/ x \in Entry(y, B)
    BY DEF Entry
<1>2. /\ RowSum(y, A, n) \in Int /\ RowSum(y, B, n) \in Int
      /\ RowSum(y, A \cup B, n) = RowSum(y, A, n) + RowSum(y, B, n)
    BY RowSumIs, RowSumJoin
<1>3. /\ PosInf \notin Int /\ NegInf \notin Int /\ NaN \notin Int
      /\ PosInf # NegInf /\ NaN # PosInf /\ NaN # NegInf
    BY ExecutorAssumption
<1>4. \A x : (x \in Int => Finite(x)) /\ ~Finite(PosInf) /\ ~Finite(NegInf) /\ ~Finite(NaN)
    BY <1>3 DEF Finite
<1>5. \A u, v : Add(u, v) = IF Finite(u) /\ Finite(v) THEN u + v
                            ELSE IF Finite(u) THEN v
                            ELSE IF Finite(v) THEN u
                            ELSE IF u = v THEN u ELSE NaN
    BY DEF Add
<1> QED
    BY <1>1, <1>2, <1>3, <1>4, <1>5 DEF IsSum

LEMMA SumOne ==
    ASSUME NEW n \in Nat, NEW y, NEW r \in 1 .. n, y[r] \in Doubles
    PROVE  IsSum(y[r], y, {r}, n)
<1>1. Entry(y, {r}) = {y[r]}
    BY DEF Entry
<1>2. y[r] \in Int => RowSum(y, {r}, n) = y[r]
    BY RowSumOne
<1> QED
    BY <1>1, <1>2, ExecutorAssumption DEF IsSum, Doubles

LEMMA SumNone ==
    ASSUME NEW n \in Nat, NEW y
    PROVE  IsSum(0, y, {}, n)
<1>1. Entry(y, {}) = {}
    BY DEF Entry
<1> QED
    BY <1>1, RowSumNone DEF IsSum

-----------------------------------------------------------------------------
(* Folds along the rows of the table.                                      *)

First(R, k) == {Nth(R, j) : j \in 1 .. k}

LEMMA FirstRows ==
    ASSUME NEW n \in Nat, NEW R, R \subseteq 1 .. n
    PROVE  /\ Cardinality(R) \in Nat
           /\ First(R, 0) = {} /\ First(R, Cardinality(R)) = R
           /\ \A k \in 1 .. Cardinality(R) :
                /\ Nth(R, k) \in R /\ Nth(R, k) \notin First(R, k - 1)
                /\ First(R, k) = First(R, k - 1) \cup {Nth(R, k)}
<1>1. Cardinality(R) \in Nat
    BY RankType
<1>2. \A k \in 1 .. Cardinality(R) : Nth(R, k) \in R /\ Rank(R, Nth(R, k)) = k
    BY NthExists
<1>3. \A x \in R : Rank(R, x) \in 1 .. Cardinality(R) /\ Nth(R, Rank(R, x)) = x
    BY NthOfRank
<1>4. First(R, 0) = {}
    <2>1. 1 .. 0 = {}
        OBVIOUS
    <2> QED
        BY <2>1, Zenon DEF First
<1>5. First(R, Cardinality(R)) = R
    <2>1. First(R, Cardinality(R)) \subseteq R
        BY <1>2, Zenon DEF First
    <2>2. R \subseteq First(R, Cardinality(R))
        BY <1>3, Zenon DEF First
    <2> QED
        BY <2>1, <2>2
<1>6. ASSUME NEW k \in 1 .. Cardinality(R)
      PROVE  /\ Nth(R, k) \notin First(R, k - 1)
             /\ First(R, k) = First(R, k - 1) \cup {Nth(R, k)}
    <2>1. \A j : j \in 1 .. k <=> j \in 1 .. k - 1 \/ j = k
        BY <1>1
    <2>2. First(R, k) = First(R, k - 1) \cup {Nth(R, k)}
        BY <2>1, Zenon DEF First
    <2>3. ASSUME NEW j \in 1 .. k - 1 PROVE Nth(R, j) # Nth(R, k)
        <3>1. j \in 1 .. Cardinality(R) /\ j # k
            BY <1>1
        <3> QED
            BY <1>2, <3>1
    <2> QED
        BY <2>2, <2>3, Zenon DEF First
<1> QED
    BY <1>1, <1>2, <1>4, <1>5, <1>6

(* What a fold has seen so far.                                            *)
LEMMA AlongRows ==
    ASSUME NEW n \in Nat, NEW R, R \subseteq 1 .. n, NEW y
    PROVE  /\ Cardinality(R) \in Nat
           /\ DOMAIN Along(R, y) = 1 .. Cardinality(R)
           /\ \A k \in 1 .. Cardinality(R) :
                Along(R, y)[k] = y[Nth(R, k)] /\ Nth(R, k) \in R
           /\ Seqs!ToSet(Along(R, y)) = Entry(y, R)
<1>1. Cardinality(R) \in Nat /\ \A k \in 1 .. Cardinality(R) : Nth(R, k) \in R
    BY FirstRows
<1>2. /\ DOMAIN Along(R, y) = 1 .. Cardinality(R)
      /\ \A k \in 1 .. Cardinality(R) : Along(R, y)[k] = y[Nth(R, k)]
    BY Zenon DEF Along
<1>3. \A x \in R : Rank(R, x) \in 1 .. Cardinality(R) /\ Nth(R, Rank(R, x)) = x
    BY NthOfRank
<1>4. Seqs!ToSet(Along(R, y)) = Entry(y, R)
    <2>1. \A v : v \in Seqs!ToSet(Along(R, y))
                    <=> \E k \in 1 .. Cardinality(R) : v = y[Nth(R, k)]
        BY <1>2, Zenon DEF Seqs!ToSet
    <2>2. \A v : v \in Entry(y, R) <=> \E i \in R : v = y[i]
        BY Zenon DEF Entry
    <2>3. \A v : v \in Seqs!ToSet(Along(R, y)) <=> v \in Entry(y, R)
        BY <1>1, <1>3, <2>1, <2>2, Zenon
    <2> QED
        BY <2>3
<1> QED
    BY <1>1, <1>2, <1>4

LEMMA EntryNext == \A y, S, r : Entry(y, S \cup {r}) = Entry(y, S) \cup {y[r]} /\ Entry(y, {}) = {}
BY DEF Entry

LEMMA SumAlong ==
    ASSUME NEW n \in Nat, NEW R, R \subseteq 1 .. n, NEW y, \A i \in R : y[i] \in Doubles
    PROVE  IsSum(AddFold(Along(R, y), Cardinality(R)), y, R, n)
<1> DEFINE m == Cardinality(R)
           xs == Along(R, y)
<1>1. m \in Nat /\ \A k \in 1 .. m : xs[k] = y[Nth(R, k)] /\ Nth(R, k) \in R
    BY AlongRows
<1>2. /\ First(R, 0) = {} /\ First(R, m) = R
      /\ \A k \in 1 .. m : /\ Nth(R, k) \notin First(R, k - 1)
                           /\ First(R, k) = First(R, k - 1) \cup {Nth(R, k)}
    BY FirstRows
<1> HIDE DEF m, xs
<1>3. \A k \in 1 .. m : xs[k] \in Doubles
    BY <1>1
<1>3a. PICK f : AddScan(f, xs, m)
    BY <1>1, <1>3, FoldAdd
<1>4. /\ f[0] = 0 /\ \A k \in 0 .. m : f[k] \in Doubles
      /\ \A k \in 1 .. m : f[k] = Add(f[k - 1], xs[k])
      /\ AddFold(xs, m) = f[m]
    BY <1>3a DEF AddScan
<1> DEFINE T == {k \in 0 .. m : IsSum(f[k], y, First(R, k), n)}
<1>5. 0 \in T
    BY <1>1, <1>2, <1>4, SumNone
<1>6. ASSUME NEW k \in 1 .. m, k - 1 \in T PROVE k \in T
    <2> DEFINE r == Nth(R, k)
               S == First(R, k - 1)
    <2>1. r \in 1 .. n /\ y[r] \in Doubles /\ xs[k] = y[r] /\ r \notin S
        BY <1>1, <1>2
    <2>2. First(R, k) = S \cup {r} /\ S \cap {r} = {}
        BY <1>2, <2>1
    <2>3. IsSum(f[k - 1], y, S, n)
        BY <1>6
    <2> HIDE DEF r, S, T
    <2>4. IsSum(y[r], y, {r}, n)
        BY <2>1, SumOne
    <2>5. IsSum(Add(f[k - 1], y[r]), y, S \cup {r}, n)
        BY <2>2, <2>3, <2>4, SumJoin
    <2>6. IsSum(f[k], y, First(R, k), n)
        BY <1>4, <2>1, <2>2, <2>5
    <2> QED
        BY <1>1, <2>6 DEF T
<1> HIDE DEF T
<1>7. m \in T
    BY <1>1, <1>5, <1>6, ScanKeeps
<1> QED
    BY <1>2, <1>4, <1>7 DEF T, m, xs

LEMMA PlusAlong ==
    ASSUME NEW n \in Nat, NEW R, R \subseteq 1 .. n, NEW y, \A i \in R : y[i] \in Int
    PROVE  PlusFold(Along(R, y), Cardinality(R)) = RowSum(y, R, n)
<1> DEFINE m == Cardinality(R)
           xs == Along(R, y)
<1>1. m \in Nat /\ \A k \in 1 .. m : xs[k] = y[Nth(R, k)] /\ Nth(R, k) \in R
    BY AlongRows
<1>2. /\ First(R, 0) = {} /\ First(R, m) = R
      /\ \A k \in 1 .. m : /\ Nth(R, k) \notin First(R, k - 1)
                           /\ First(R, k) = First(R, k - 1) \cup {Nth(R, k)}
    BY FirstRows
<1> HIDE DEF m, xs
<1>3. \A k \in 1 .. m : xs[k] \in Int
    BY <1>1
<1>3a. PICK f : PlusScan(f, xs, m)
    BY <1>1, <1>3, FoldPlus
<1>4. /\ f[0] = 0 /\ \A k \in 0 .. m : f[k] \in Int
      /\ \A k \in 1 .. m : f[k] = f[k - 1] + xs[k]
      /\ PlusFold(xs, m) = f[m]
    BY <1>3a DEF PlusScan
<1> DEFINE T == {k \in 0 .. m : f[k] = RowSum(y, First(R, k), n)}
<1>5. 0 \in T
    <2>1. 0 \in 0 .. m /\ RowSum(y, {}, n) = 0
        BY <1>1, RowSumNone
    <2> QED
        BY <1>2, <1>4, <2>1
<1>6. ASSUME NEW k \in 1 .. m, k - 1 \in T PROVE k \in T
    <2> DEFINE r == Nth(R, k)
               S == First(R, k - 1)
    <2>1. r \in 1 .. n /\ y[r] \in Int /\ xs[k] = y[r] /\ r \notin S
        BY <1>1, <1>2
    <2>2. First(R, k) = S \cup {r} /\ S \cap {r} = {}
        BY <1>2, <2>1
    <2>3. f[k - 1] = RowSum(y, S, n)
        BY <1>6
    <2> HIDE DEF r, S, T
    <2>4. RowSum(y, {r}, n) = y[r]
        BY <2>1, RowSumOne
    <2>5. RowSum(y, S \cup {r}, n) = RowSum(y, S, n) + RowSum(y, {r}, n)
        BY <2>2, RowSumJoin
    <2>6. f[k] = RowSum(y, First(R, k), n)
        BY <1>4, <2>1, <2>2, <2>3, <2>4, <2>5
    <2> QED
        BY <1>1, <2>6 DEF T
<1> HIDE DEF T
<1>7. m \in T
    BY <1>1, <1>5, <1>6, ScanKeeps
<1> QED
    BY <1>2, <1>4, <1>7 DEF T, m, xs

LEMMA ExtremesAlong ==
    ASSUME NEW n \in Nat, NEW R, R \subseteq 1 .. n, NEW y, \A i \in R : y[i] \in Doubles
    PROVE  /\ IsLeast(MinFold(Along(R, y), Cardinality(R)), Entry(y, R))
           /\ IsGreatest(MaxFold(Along(R, y), Cardinality(R)), Entry(y, R))
<1> DEFINE m == Cardinality(R)
           xs == Along(R, y)
<1>1. m \in Nat /\ \A k \in 1 .. m : xs[k] = y[Nth(R, k)] /\ Nth(R, k) \in R
    BY AlongRows
<1>2. /\ First(R, 0) = {} /\ First(R, m) = R
      /\ \A k \in 1 .. m : First(R, k) = First(R, k - 1) \cup {Nth(R, k)}
    BY FirstRows
<1> HIDE DEF m, xs
<1>3. \A k \in 1 .. m : xs[k] \in Doubles
    BY <1>1
<1>3a. PICK f : MinScan(f, xs, m)
    BY <1>1, <1>3, FoldMin
<1>4. /\ f[0] = PosInf /\ \A k \in 0 .. m : f[k] \in Doubles
      /\ \A k \in 1 .. m : f[k] = StdMin(f[k - 1], xs[k])
      /\ MinFold(xs, m) = f[m]
    BY <1>3a DEF MinScan
<1>4a. PICK g : MaxScan(g, xs, m)
    BY <1>1, <1>3, FoldMax
<1>5. /\ g[0] = NegInf /\ \A k \in 0 .. m : g[k] \in Doubles
      /\ \A k \in 1 .. m : g[k] = StdMax(g[k - 1], xs[k])
      /\ MaxFold(xs, m) = g[m]
    BY <1>4a DEF MaxScan
<1> DEFINE V(k) == Entry(y, First(R, k))
           T == {k \in 0 .. m : V(k) \subseteq Doubles /\ IsLeast(f[k], V(k)) /\ IsGreatest(g[k], V(k))}
<1>6. 0 \in T
    <2>1. V(0) = {}
        BY <1>2, EntryNext, Zenon
    <2>2. 0 \in 0 .. m
        BY <1>1
    <2>3. IsLeast(PosInf, {}) /\ IsGreatest(NegInf, {})
        BY DEF IsLeast, IsGreatest
    <2> QED
        BY <1>4, <1>5, <2>1, <2>2, <2>3
<1>7. ASSUME NEW k \in 1 .. m, k - 1 \in T PROVE k \in T
    <2>1. V(k) = V(k - 1) \cup {xs[k]}
        <3>1. First(R, k) = First(R, k - 1) \cup {Nth(R, k)} /\ xs[k] = y[Nth(R, k)]
            BY <1>1, <1>2
        <3>2. Entry(y, First(R, k - 1) \cup {Nth(R, k)})
                = Entry(y, First(R, k - 1)) \cup {y[Nth(R, k)]}
            BY EntryNext
        <3> QED
            BY <3>1, <3>2
    <2>2. /\ V(k - 1) \subseteq Doubles
          /\ IsLeast(f[k - 1], V(k - 1)) /\ IsGreatest(g[k - 1], V(k - 1))
        BY <1>7
    <2> HIDE DEF V, T
    <2>3. /\ IsLeast(StdMin(f[k - 1], xs[k]), V(k - 1) \cup {xs[k]})
          /\ IsGreatest(StdMax(g[k - 1], xs[k]), V(k - 1) \cup {xs[k]})
        BY <1>3, <2>2, LeastStep
    <2>4. IsLeast(f[k], V(k)) /\ IsGreatest(g[k], V(k)) /\ V(k) \subseteq Doubles
        BY <1>3, <1>4, <1>5, <2>1, <2>2, <2>3
    <2> QED
        BY <1>1, <2>4 DEF T
<1> HIDE DEF T
<1>8. m \in T
    BY <1>1, <1>6, <1>7, ScanKeeps
<1> QED
    BY <1>2, <1>4, <1>5, <1>8 DEF T, m, xs

(* The reference sum of the terms of some rows is their sum.               *)
LEMMA SumOfAlong ==
    ASSUME NEW n \in Nat, NEW R, R \subseteq 1 .. n, NEW y, \A i \in R : y[i] \in Doubles,
           NEW s, IsSum(s, y, R, n)
    PROVE  SumOf(Along(R, y)) = s
<1>1. /\ Cardinality(R) \in Nat /\ DOMAIN Along(R, y) = 1 .. Cardinality(R)
      /\ Seqs!ToSet(Along(R, y)) = Entry(y, R)
    BY AlongRows
<1>2. Len(Along(R, y)) = Cardinality(R)
    <2>1. Vector(Along(R, y), Cardinality(R))
        BY <1>1, Zenon DEF Vector, Along
    <2> QED
        BY <1>1, <2>1, VectorLength
<1>3. SumOf(Along(R, y)) =
        IF NaN \in Entry(y, R) \/ {PosInf, NegInf} \subseteq Entry(y, R) THEN NaN
        ELSE IF Entry(y, R) \cap {PosInf, NegInf} # {}
        THEN CHOOSE x \in {PosInf, NegInf} : x \in Entry(y, R)
        ELSE PlusFold(Along(R, y), Cardinality(R))
    BY <1>1, <1>2, Zenon DEF SumOf, PlusFold
<1>4. CASE NaN \in Entry(y, R) \/ {PosInf, NegInf} \subseteq Entry(y, R)
    BY <1>3, <1>4 DEF IsSum
<1>5. CASE /\ ~(NaN \in Entry(y, R) \/ {PosInf, NegInf} \subseteq Entry(y, R))
           /\ Entry(y, R) \cap {PosInf, NegInf} # {}
    <2> DEFINE x == CHOOSE x \in {PosInf, NegInf} : x \in Entry(y, R)
    <2>1. \E z \in {PosInf, NegInf} : z \in Entry(y, R)
        BY <1>5
    <2>2. x \in {PosInf, NegInf} /\ x \in Entry(y, R)
        BY <2>1, Zenon
    <2>3. SumOf(Along(R, y)) = x
        BY <1>3, <1>5
    <2> HIDE DEF x
    <2> QED
        BY <1>5, <2>2, <2>3 DEF IsSum
<1>6. CASE /\ ~(NaN \in Entry(y, R) \/ {PosInf, NegInf} \subseteq Entry(y, R))
           /\ Entry(y, R) \cap {PosInf, NegInf} = {}
    <2>1. \A i \in R : y[i] \in Entry(y, R)
        BY DEF Entry
    <2>2. \A i \in R : y[i] \in Int
        BY <1>6, <2>1 DEF Doubles
    <2>3. PlusFold(Along(R, y), Cardinality(R)) = RowSum(y, R, n)
        BY <2>2, PlusAlong
    <2>4. s = RowSum(y, R, n)
        BY <1>6 DEF IsSum
    <2> QED
        BY <1>3, <1>6, <2>3, <2>4
<1> QED
    BY <1>4, <1>5, <1>6

-----------------------------------------------------------------------------
(* What an accumulator stands for: the terms y of the rows R.              *)

Accumulates(a, y, R) ==
    /\ a \in Accs
    /\ agg \in {"Sum", "Avg"} => IsSum(a.sum, y, R, NumRows)
    /\ agg = "Min" => IsLeast(a.mn, Entry(y, R))
    /\ agg = "Max" => IsGreatest(a.mx, Entry(y, R))

LEMMA FoldTyped ==
    ASSUME NEW n \in Nat, NEW xs, \A k \in 1 .. n : xs[k] \in Doubles
    PROVE  AddFold(xs, n) \in Doubles /\ MinFold(xs, n) \in Doubles /\ MaxFold(xs, n) \in Doubles
<1>1. n \in 0 .. n
    OBVIOUS
<1>2. AddFold(xs, n) \in Doubles
    <2>1. PICK f : AddScan(f, xs, n)
        BY FoldAdd
    <2> QED
        BY <1>1, <2>1 DEF AddScan
<1>3. MinFold(xs, n) \in Doubles
    <2>1. PICK f : MinScan(f, xs, n)
        BY FoldMin
    <2> QED
        BY <1>1, <2>1 DEF MinScan
<1>4. MaxFold(xs, n) \in Doubles
    <2>1. PICK f : MaxScan(f, xs, n)
        BY FoldMax
    <2> QED
        BY <1>1, <2>1 DEF MaxScan
<1> QED
    BY <1>2, <1>3, <1>4

(* Accumulate, with its folds named.                                       *)
Folds(a, count, xs, n) ==
    /\ a.count = count
    /\ a.sum = IF agg \in {"Sum", "Avg"} THEN AddFold(xs, n) ELSE 0
    /\ a.mn = IF agg = "Min" THEN MinFold(xs, n) ELSE PosInf
    /\ a.mx = IF agg = "Max" THEN MaxFold(xs, n) ELSE NegInf
    /\ a = [count |-> a.count, sum |-> a.sum, mn |-> a.mn, mx |-> a.mx]

LEMMA AccumulateFolds ==
    ASSUME NEW count, NEW R, NEW term
    PROVE  Folds(Accumulate(count, R, term), count, Along(R, term), Cardinality(R))
<1> DEFINE xs == Along(R, term)
           n == Cardinality(R)
           s == IF agg \in {"Sum", "Avg"} THEN AddFold(xs, n) ELSE 0
           l == IF agg = "Min" THEN MinFold(xs, n) ELSE PosInf
           g == IF agg = "Max" THEN MaxFold(xs, n) ELSE NegInf
           a == Accumulate(count, R, term)
<1>1. a = [count |-> count, sum |-> s, mn |-> l, mx |-> g]
    BY Zenon DEF Accumulate, AddFold, MinFold, MaxFold
<1> HIDE DEF s, l, g, a
<1>2. /\ a.count = count /\ a.sum = s /\ a.mn = l /\ a.mx = g
      /\ a = [count |-> a.count, sum |-> a.sum, mn |-> a.mn, mx |-> a.mx]
    BY <1>1
<1>3. Folds(a, count, xs, n)
    BY <1>2, Zenon DEF s, l, g, Folds
<1> QED
    BY <1>3 DEF a

LEMMA AlongAlike ==
    ASSUME NumRows \in Nat, NEW R, R \subseteq Rows, NEW y, NEW z, \A i \in R : z[i] = y[i]
    PROVE  Along(R, z) = Along(R, y)
<1>1. \A j \in 1 .. Cardinality(R) : Nth(R, j) \in R
    BY AlongRows DEF Rows
<1> QED
    BY <1>1 DEF Along

LEMMA AccumulatePart ==
    ASSUME NumRows \in Nat, NEW R, R \subseteq Rows, NEW count \in Int, NEW y, NEW term,
           \A i \in R : term[i] = y[i] /\ y[i] \in Doubles
    PROVE  LET a == Accumulate(count, R, term)
           IN  Accumulates(a, y, R) /\ a.count = count
<1> DEFINE a == Accumulate(count, R, term)
           xs == Along(R, y)
           n == Cardinality(R)
<1>1. /\ n \in Nat /\ \A k \in 1 .. n : xs[k] = y[Nth(R, k)] /\ Nth(R, k) \in R
    BY AlongRows DEF Rows
<1>2. Along(R, term) = xs
    BY AlongAlike
<1>3. /\ a.count = count
      /\ a.sum = IF agg \in {"Sum", "Avg"} THEN AddFold(xs, n) ELSE 0
      /\ a.mn = IF agg = "Min" THEN MinFold(xs, n) ELSE PosInf
      /\ a.mx = IF agg = "Max" THEN MaxFold(xs, n) ELSE NegInf
      /\ a = [count |-> a.count, sum |-> a.sum, mn |-> a.mn, mx |-> a.mx]
    <2>1. Folds(a, count, Along(R, term), n)
        BY AccumulateFolds
    <2> HIDE DEF a, xs, n
    <2> QED
        BY <1>2, <2>1 DEF Folds
<1>4. IsSum(AddFold(xs, n), y, R, NumRows)
    BY SumAlong DEF Rows
<1>5. IsLeast(MinFold(xs, n), Entry(y, R)) /\ IsGreatest(MaxFold(xs, n), Entry(y, R))
    BY ExtremesAlong DEF Rows
<1> HIDE DEF a, xs, n
<1>6. \A k \in 1 .. n : xs[k] \in Doubles
    BY <1>1
<1>7. AddFold(xs, n) \in Doubles /\ MinFold(xs, n) \in Doubles /\ MaxFold(xs, n) \in Doubles
    BY <1>1, <1>6, FoldTyped
<1>8. a \in Accs
    <2>1. a.sum \in Doubles /\ a.mn \in Doubles /\ a.mx \in Doubles /\ a.count \in Int
        BY <1>3, <1>7, ZeroIsDouble
    <2> QED
        BY <1>3, <2>1 DEF Accs
<1>9. Accumulates(a, y, R)
    BY <1>3, <1>4, <1>5, <1>8 DEF Accumulates
<1> QED
    BY <1>3, <1>9 DEF a

LEMMA EntryJoin == \A y, A, B : Entry(y, A \cup B) = Entry(y, A) \cup Entry(y, B)
BY DEF Entry

LEMMA MergePart ==
    ASSUME NumRows \in Nat, NEW y, NEW A, NEW B, A \cap B = {},
           \A i \in A \cup B : y[i] \in Doubles,
           NEW a, NEW b, Accumulates(a, y, A), Accumulates(b, y, B)
    PROVE  Accumulates(Merge(a, b), y, A \cup B) /\ Merge(a, b).count = a.count + b.count
<1>1. a \in Accs /\ b \in Accs
    BY DEF Accumulates
<1>2. Merge(a, b) \in Accs
    BY <1>1, MergeClosed
<1>3. /\ Merge(a, b).count = a.count + b.count /\ Merge(a, b).sum = Add(a.sum, b.sum)
      /\ Merge(a, b).mn = StdMin(a.mn, b.mn) /\ Merge(a, b).mx = StdMax(a.mx, b.mx)
    BY DEF Merge
<1>4. Entry(y, A) \subseteq Doubles /\ Entry(y, B) \subseteq Doubles
    BY DEF Entry
<1>5. agg \in {"Sum", "Avg"} => IsSum(Add(a.sum, b.sum), y, A \cup B, NumRows)
    BY SumJoin DEF Accumulates
<1>6. Entry(y, A \cup B) = Entry(y, A) \cup Entry(y, B)
    BY EntryJoin
<1>7. agg = "Min" => IsLeast(StdMin(a.mn, b.mn), Entry(y, A \cup B))
    <2> SUFFICES ASSUME agg = "Min"
                 PROVE  IsLeast(StdMin(a.mn, b.mn), Entry(y, A) \cup Entry(y, B))
        BY <1>6
    <2>1. IsLeast(a.mn, Entry(y, A)) /\ IsLeast(b.mn, Entry(y, B))
        BY DEF Accumulates
    <2> QED
        BY <1>4, <2>1, LeastJoin
<1>8. agg = "Max" => IsGreatest(StdMax(a.mx, b.mx), Entry(y, A \cup B))
    <2> SUFFICES ASSUME agg = "Max"
                 PROVE  IsGreatest(StdMax(a.mx, b.mx), Entry(y, A) \cup Entry(y, B))
        BY <1>6
    <2>1. IsGreatest(a.mx, Entry(y, A)) /\ IsGreatest(b.mx, Entry(y, B))
        BY DEF Accumulates
    <2> QED
        BY <1>4, <2>1, GreatestJoin
<1> QED
    BY <1>2, <1>3, <1>5, <1>7, <1>8 DEF Accumulates

(* The rows of G that the first j tasks have.                              *)
RowsUpto(G, b, j) == G \cap (1 .. b[j])

Joins(G, tasks, k, b) ==
    /\ k \in Nat /\ RowsUpto(G, b, 1) = G \cap RowsOf(tasks[1]) /\ RowsUpto(G, b, k) = G
    /\ \A j \in 1 .. k - 1 :
        LET part == G \cap RowsOf(tasks[j + 1])
        IN  /\ RowsUpto(G, b, j + 1) = RowsUpto(G, b, j) \cup part
            /\ RowsUpto(G, b, j) \cap part = {}
            /\ Cardinality(RowsUpto(G, b, j + 1)) = Cardinality(RowsUpto(G, b, j)) + Cardinality(part)

LEMMA TilesNext ==
    ASSUME NumRows \in Nat, NEW tasks, NEW k, NEW b, Tiles(tasks, k, b), k >= 1,
           NEW G, G \subseteq Rows
    PROVE  Joins(G, tasks, k, b)
<1>1. /\ k \in Nat /\ b \in [0 .. k -> 0 .. NumRows] /\ b[0] = 0 /\ b[k] = NumRows
      /\ \A t \in 1 .. k : b[t - 1] <= b[t] /\ RowsOf(tasks[t]) = b[t - 1] + 1 .. b[t]
    BY DEF Tiles
<1>2. RowsUpto(G, b, 1) = G \cap RowsOf(tasks[1])
    <2>1. 1 \in 1 .. k /\ 1 - 1 = 0 /\ 0 + 1 = 1
        BY <1>1
    <2>2. RowsOf(tasks[1]) = 1 .. b[1]
        BY <1>1, <2>1
    <2> QED
        BY <2>2 DEF RowsUpto
<1>3. RowsUpto(G, b, k) = G
    BY <1>1 DEF Rows, RowsUpto
<1>4. ASSUME NEW j \in 1 .. k - 1
      PROVE  LET part == G \cap RowsOf(tasks[j + 1])
             IN  /\ RowsUpto(G, b, j + 1) = RowsUpto(G, b, j) \cup part
                 /\ RowsUpto(G, b, j) \cap part = {}
                 /\ Cardinality(RowsUpto(G, b, j + 1))
                        = Cardinality(RowsUpto(G, b, j)) + Cardinality(part)
    <2> DEFINE part == G \cap RowsOf(tasks[j + 1])
               old == RowsUpto(G, b, j)
    <2>1. j + 1 \in 1 .. k /\ j + 1 - 1 = j /\ j \in 0 .. k /\ j + 1 \in 0 .. k
        BY <1>1
    <2>2. /\ b[j] \in 0 .. NumRows /\ b[j + 1] \in 0 .. NumRows /\ b[j] <= b[j + 1]
          /\ RowsOf(tasks[j + 1]) = b[j] + 1 .. b[j + 1]
        BY <1>1, <2>1
    <2>3. /\ 1 .. b[j + 1] = (1 .. b[j]) \cup (b[j] + 1 .. b[j + 1])
          /\ (1 .. b[j]) \cap (b[j] + 1 .. b[j + 1]) = {}
        BY <2>2
    <2>4. RowsUpto(G, b, j + 1) = old \cup part /\ old \cap part = {}
        BY <2>2, <2>3 DEF RowsUpto
    <2>5. IsFiniteSet(old) /\ IsFiniteSet(part)
        <3>1. 1 \in Int /\ b[j] \in Int /\ b[j] + 1 \in Int /\ b[j + 1] \in Int
            BY <2>2
        <3>2. IsFiniteSet(1 .. b[j]) /\ IsFiniteSet(b[j] + 1 .. b[j + 1])
            BY <3>1, FS_Interval
        <3>3. old \subseteq 1 .. b[j] /\ part \subseteq b[j] + 1 .. b[j + 1]
            BY <2>2 DEF RowsUpto
        <3> QED
            BY <3>2, <3>3, FS_Subset
    <2> HIDE DEF old, part
    <2>6. Cardinality(RowsUpto(G, b, j + 1)) = Cardinality(old) + Cardinality(part)
        <3>1. /\ Cardinality(old \cup part)
                    = Cardinality(old) + Cardinality(part) - Cardinality(old \cap part)
              /\ Cardinality(old) \in Nat /\ Cardinality(part) \in Nat
            BY <2>5, FS_Union, FS_CardinalityType
        <3>2. Cardinality(old \cap part) = 0
            BY <2>4, FS_EmptySet
        <3>3. Cardinality(RowsUpto(G, b, j + 1)) = Cardinality(old \cup part)
            BY <2>4
        <3> QED
            BY <3>1, <3>2, <3>3
    <2> QED
        BY <2>4, <2>6 DEF old, part
<1> QED
    BY <1>1, <1>2, <1>3, <1>4 DEF Joins

(* s[t] stands for the rows of G that task t has, a for all of them; the   *)
(* counts are those of the rows H.                                         *)
PartsOf(s, y, G, tasks, k) ==
    \A t \in 1 .. k : Accumulates(s[t], y, G \cap RowsOf(tasks[t]))
CountsOf(s, H, tasks, k) ==
    \A t \in 1 .. k : s[t].count = Cardinality(H \cap RowsOf(tasks[t]))
Merges(a, y, G, H, s, tasks, k) ==
    Accumulates(a, y, G) /\ (CountsOf(s, H, tasks, k) => a.count = Cardinality(H))

(* The parts of the rows G that the tasks have, merged in the order of the *)
(* tasks, stand for all of G; the counts are those of some rows H.         *)
LEMMA PartsJoin ==
    ASSUME NumRows \in Nat, NEW tasks, NEW k, NEW b, Tiles(tasks, k, b), k >= 1,
           NEW G, G \subseteq Rows, NEW H, H \subseteq Rows,
           NEW y, \A i \in G : y[i] \in Doubles, NEW s,
           PartsOf(s, y, G, tasks, k), NEW xs, \A j \in 1 .. k - 1 : xs[j] = s[j + 1]
    PROVE  Merges(MergeFold(s[1], xs, k - 1), y, G, H, s, tasks, k)
<1> DEFINE n == k - 1
           a == MergeFold(s[1], xs, n)
           part(t) == G \cap RowsOf(tasks[t])
           size(t) == Cardinality(H \cap RowsOf(tasks[t]))
           Counted == CountsOf(s, H, tasks, k)
<1>1. /\ k \in Nat /\ RowsUpto(G, b, 1) = part(1) /\ RowsUpto(G, b, k) = G
      /\ \A j \in 1 .. n : /\ RowsUpto(G, b, j + 1) = RowsUpto(G, b, j) \cup part(j + 1)
                           /\ RowsUpto(G, b, j) \cap part(j + 1) = {}
    <2>1. Joins(G, tasks, k, b)
        BY TilesNext
    <2> QED
        BY <2>1 DEF Joins
<1>2. /\ Cardinality(RowsUpto(H, b, 1)) = size(1) /\ RowsUpto(H, b, k) = H
      /\ \A j \in 1 .. n :
            Cardinality(RowsUpto(H, b, j + 1)) = Cardinality(RowsUpto(H, b, j)) + size(j + 1)
    <2>1. Joins(H, tasks, k, b)
        BY TilesNext
    <2> QED
        BY <2>1 DEF Joins
<1>3. n \in Nat /\ n + 1 = k /\ \A j \in 1 .. n : xs[j] = s[j + 1]
    BY <1>1
<1>4. \A t \in 1 .. k : Accumulates(s[t], y, part(t)) /\ s[t] \in Accs
    BY DEF Accumulates, PartsOf
<1>5. \A j : RowsUpto(G, b, j) \subseteq G
    BY DEF RowsUpto
<1>6. \A t : part(t) \subseteq G
    OBVIOUS
<1>6a. Counted => \A t \in 1 .. k : s[t].count = size(t)
    BY DEF CountsOf
<1> HIDE DEF n, part, size
<1>7. s[1] \in Accs /\ \A j \in 1 .. n : xs[j] \in Accs
    <2>1. 1 \in 1 .. k /\ \A j \in 1 .. n : j + 1 \in 1 .. k
        BY <1>1, <1>3
    <2> QED
        BY <1>3, <1>4, <2>1
<1>8. PICK f : MergeScan(f, s[1], xs, n)
    BY <1>3, <1>7, FoldMerge
<1>9. /\ f[0] = s[1] /\ a = f[n]
      /\ \A j \in 1 .. n : f[j] = Merge(f[j - 1], xs[j])
    BY <1>8 DEF MergeScan
<1> HIDE DEF a, Counted
<1> DEFINE T == {j \in 0 .. n :
                    /\ Accumulates(f[j], y, RowsUpto(G, b, j + 1))
                    /\ Counted => f[j].count = Cardinality(RowsUpto(H, b, j + 1))}
<1>10. 0 \in T
    <2>1. 0 \in 0 .. n /\ 1 \in 1 .. k /\ 0 + 1 = 1
        BY <1>1, <1>3
    <2>2. Counted => s[1].count = size(1)
        BY <1>6a, <2>1
    <2> QED
        BY <1>1, <1>2, <1>4, <1>9, <2>1, <2>2
<1>11. ASSUME NEW j \in 1 .. n, j - 1 \in T PROVE j \in T
    <2>1. j + 1 \in 1 .. k /\ j \in 0 .. n /\ j - 1 \in 0 .. n /\ j - 1 + 1 = j
        BY <1>1, <1>3
    <2>2. /\ Accumulates(f[j - 1], y, RowsUpto(G, b, j))
          /\ Counted => f[j - 1].count = Cardinality(RowsUpto(H, b, j))
        BY <1>11, <2>1
    <2>3. Accumulates(xs[j], y, part(j + 1)) /\ xs[j] = s[j + 1]
        BY <1>3, <1>4, <2>1
    <2>4. \A i \in RowsUpto(G, b, j) \cup part(j + 1) : y[i] \in Doubles
        BY <1>5, <1>6
    <2> HIDE DEF T
    <2>5. /\ Accumulates(Merge(f[j - 1], xs[j]), y, RowsUpto(G, b, j) \cup part(j + 1))
          /\ Merge(f[j - 1], xs[j]).count = f[j - 1].count + xs[j].count
        BY <1>1, <2>2, <2>3, <2>4, MergePart
    <2>6. Counted => f[j].count = Cardinality(RowsUpto(H, b, j + 1))
        <3>1. Counted => s[j + 1].count = size(j + 1)
            BY <1>6a, <2>1
        <3> QED
            BY <1>2, <1>9, <2>2, <2>3, <2>5, <3>1
    <2>7. Accumulates(f[j], y, RowsUpto(G, b, j + 1))
        BY <1>1, <1>9, <2>5
    <2> QED
        BY <2>1, <2>6, <2>7 DEF T
<1> HIDE DEF T
<1>12. n \in T
    <2>1. n \in 0 .. n
        BY <1>3
    <2> QED
        BY <1>3, <1>10, <1>11, <2>1, ScanKeeps
<1>13. Accumulates(a, y, G) /\ (Counted => a.count = Cardinality(H))
    BY <1>1, <1>2, <1>3, <1>9, <1>12 DEF T
<1> QED
    BY <1>13 DEF Counted, a, n, Merges

-----------------------------------------------------------------------------
(* From the partial results of the tasks to those of all rows.             *)

Terms == Measure(Rows)

Reducing == RunInv /\ qpc = "reduce" /\ todo = {}

LEMMA TermsTyped ==
    ASSUME Reducing
    PROVE  /\ NumRows \in Nat /\ threads \in Nat
           /\ agg \in {"Count", "Sum", "Avg", "Min", "Max"}
           /\ \A i \in Rows : Terms[i] \in Doubles
           /\ agg # "Count" => \A i \in Rows : Terms[i] = Number(ColumnOf(table, metric), i)
           /\ \A R : R \subseteq Rows => \A i \in R : Measure(R)[i] = Terms[i]
<1>1. /\ NumRows \in Nat /\ threads \in Nat /\ Rows = 1 .. table.rows /\ TypedTable(table)
      /\ agg \in {"Count", "Sum", "Avg", "Min", "Max"}
      /\ agg = "Count" \/ (HasColumn(table, metric) /\ ColumnOf(table, metric).type # "Dict")
    BY ExecutorAssumption DEF Reducing, RunInv, BuiltWell, TypedTable, NumRows, Rows, IsDict
<1>2. \A i \in Rows :
        Terms[i] = IF agg = "Count" THEN 0 ELSE Number(ColumnOf(table, metric), i)
    BY DEF Terms, Measure
<1>3. \A R : R \subseteq Rows => \A i \in R : Measure(R)[i] = Terms[i]
    BY <1>2 DEF Measure
<1>4. ASSUME NEW i \in Rows PROVE Terms[i] \in Doubles
    <2>1. CASE agg = "Count"
        BY <1>2, <2>1 DEF Doubles
    <2>2. CASE agg # "Count"
        <3> DEFINE c == ColumnOf(table, metric)
        <3>1. /\ c.type = "Int64" => c.data[i] \in Int
              /\ c.type = "Float64" => c.data[i] \in Doubles
              /\ c.type \in {"Int64", "Float64"}
            BY <1>1, <2>2, FoundColumn DEF ColumnRecords, Types
        <3>2. Terms[i] = IF c.type = "Int64" THEN One * c.data[i] ELSE c.data[i]
            BY <1>2, <2>2 DEF Number
        <3> HIDE DEF c
        <3>3. One \in Int
            BY ExecutorAssumption
        <3>4. c.type = "Int64" => One * c.data[i] \in Int
            BY <3>1, <3>3
        <3> QED
            BY <3>1, <3>2, <3>4 DEF Doubles
    <2> QED
        BY <2>1, <2>2
<1> QED
    BY <1>1, <1>2, <1>3, <1>4

(* The value shown for what has been accumulated is the one expected.      *)
LEMMA ValueIs ==
    ASSUME Reducing, NEW R, R \subseteq Rows, NEW a, Accumulates(a, Terms, R),
           agg = "Sum" \/ a.count = Cardinality(R)
    PROVE  AggValue(a) = Expected(R)
<1> DEFINE xs == Along(R, Terms)
           x == Along(R, [i \in R |-> Number(ColumnOf(table, metric), i)])
<1>1. /\ NumRows \in Nat /\ Rows = 1 .. NumRows
      /\ agg \in {"Count", "Sum", "Avg", "Min", "Max"}
      /\ \A i \in R : Terms[i] \in Doubles
      /\ agg # "Count" => \A i \in R : Terms[i] = Number(ColumnOf(table, metric), i)
    BY TermsTyped DEF Rows
<1>2. agg # "Count" => x = xs
    BY <1>1, AlongAlike
<1>3. Expected(R) =
        CASE agg = "Count" -> One * Cardinality(R)
          [] agg = "Sum" -> SumOf(x)
          [] agg # "Count" /\ agg # "Sum" /\ R = {} -> 0
          [] agg = "Avg" /\ R # {} -> Over(SumOf(x), Cardinality(R))
          [] agg = "Min" /\ R # {} -> LeastOf(Seqs!ToSet(x))
          [] agg = "Max" /\ R # {} -> GreatestOf(Seqs!ToSet(x))
    BY Zenon DEF Expected
<1>4. agg \in {"Sum", "Avg"} => SumOf(xs) = a.sum
    BY <1>1, SumOfAlong DEF Accumulates
<1>5. Seqs!ToSet(xs) = Entry(Terms, R) /\ Entry(Terms, R) \subseteq Doubles
    <2>1. Seqs!ToSet(xs) = Entry(Terms, R)
        BY <1>1, AlongRows
    <2> QED
        BY <1>1, <2>1 DEF Entry
<1>6. agg = "Min" => LeastOf(Seqs!ToSet(xs)) = a.mn
    BY <1>5, LeastIsOne DEF Accumulates
<1>7. agg = "Max" => GreatestOf(Seqs!ToSet(xs)) = a.mx
    BY <1>5, LeastIsOne DEF Accumulates
<1>8. R = {} <=> Cardinality(R) = 0
    <2>1. IsFiniteSet(R)
        <3>1. 1 \in Int /\ NumRows \in Int
            BY <1>1
        <3>2. IsFiniteSet(1 .. NumRows)
            BY <3>1, FS_Interval
        <3> QED
            BY <1>1, <3>2, FS_Subset
    <2> QED
        BY <2>1, FS_EmptySet
<1> HIDE DEF xs, x
<1>9. CASE agg = "Count"
    BY <1>3, <1>9 DEF AggValue
<1>10. CASE agg = "Sum"
    BY <1>2, <1>3, <1>4, <1>10 DEF AggValue
<1>11. CASE agg \in {"Avg", "Min", "Max"} /\ R = {}
    <2>1. a.count = 0
        BY <1>8, <1>11
    <2>2. Expected(R) = 0
        BY <1>3, <1>11
    <2>3. AggValue(a) = 0
        BY <1>11, <2>1 DEF AggValue
    <2> QED
        BY <2>2, <2>3
<1>12. CASE agg = "Avg" /\ R # {}
    <2>1. a.count # 0 /\ a.count = Cardinality(R)
        BY <1>8, <1>12
    <2>2. Expected(R) = Over(a.sum, Cardinality(R))
        BY <1>2, <1>3, <1>4, <1>12
    <2>3. AggValue(a) = Over(a.sum, a.count)
        BY <1>12, <2>1 DEF AggValue
    <2> QED
        BY <2>1, <2>2, <2>3
<1>13. CASE agg = "Min" /\ R # {}
    <2>1. a.count # 0
        BY <1>8, <1>13
    <2>2. Expected(R) = a.mn
        BY <1>2, <1>3, <1>6, <1>13
    <2>3. AggValue(a) = a.mn
        BY <1>13, <2>1 DEF AggValue
    <2> QED
        BY <2>2, <2>3
<1>14. CASE agg = "Max" /\ R # {}
    <2>1. a.count # 0
        BY <1>8, <1>14
    <2>2. Expected(R) = a.mx
        BY <1>2, <1>3, <1>7, <1>14
    <2>3. AggValue(a) = a.mx
        BY <1>14, <2>1 DEF AggValue
    <2> QED
        BY <2>2, <2>3
<1> QED
    BY <1>1, <1>9, <1>10, <1>11, <1>12, <1>13, <1>14

(* What has been merged of a group, from what its tasks have accumulated.  *)
LEMMA MergedJoins ==
    ASSUME Reducing, NEW g \in DOMAIN Merged, NEW G, G \subseteq Rows, NEW H, H \subseteq Rows,
           NEW y, \A i \in G : y[i] \in Doubles,
           \A t \in DOMAIN ReduceTasks :
                Accumulates(Part(t)[g], y, G \cap RowsOf(ReduceTasks[t]))
    PROVE  /\ Accumulates(Merged[g], y, G)
           /\ (\A t \in DOMAIN ReduceTasks :
                    Part(t)[g].count = Cardinality(H \cap RowsOf(ReduceTasks[t])))
                => Merged[g].count = Cardinality(H)
<1>1. NumRows \in Nat /\ threads \in Nat
    BY TermsTyped
<1>2. PICK k, b : Tiles(ReduceTasks, k, b) /\ k >= 1
    BY <1>1, TasksTile
<1>3. k \in Nat /\ DOMAIN ReduceTasks = 1 .. k
    BY <1>2 DEF Tiles
<1>4. Vector(slots, k) /\ \A t \in 1 .. k : slots[t] = Part(t)
    BY <1>3 DEF Reducing, RunInv, Reduced, Vector
<1>5. Len(slots) = k
    BY <1>3, <1>4, VectorLength
<1> DEFINE s == [t \in 1 .. k |-> slots[t][g]]
           xs == [t \in 1 .. k - 1 |-> slots[t + 1][g]]
           a == MergeFold(s[1], xs, k - 1)
<1>6. /\ DOMAIN Merged = DOMAIN slots[1]
      /\ Merged[g] = MergeFold(slots[1][g], xs, k - 1)
    <2> DEFINE more == Len(slots) - 1
               m(h) == MergeFold(slots[1][h], [t \in 1 .. more |-> slots[t + 1][h]], more)
    <2>1. Merged = [h \in DOMAIN slots[1] |-> m(h)]
        BY Zenon DEF Merged, MergeFold
    <2> HIDE DEF m
    <2>2. DOMAIN Merged = DOMAIN slots[1] /\ Merged[g] = m(g)
        BY <2>1
    <2>3. m(g) = MergeFold(slots[1][g], xs, k - 1)
        BY <1>5, Zenon DEF m
    <2> QED
        BY <2>2, <2>3
<1>7. s[1] = slots[1][g] /\ \A t \in 1 .. k : s[t] = Part(t)[g]
    BY <1>2, <1>3, <1>4
<1>8. \A j \in 1 .. k - 1 : xs[j] = s[j + 1]
    BY <1>3
<1>9. Merged[g] = a
    BY <1>6, <1>7
<1> HIDE DEF s, xs
<1>10. PartsOf(s, y, G, ReduceTasks, k)
    BY <1>3, <1>7 DEF PartsOf
<1>11. Merges(a, y, G, H, s, ReduceTasks, k)
    BY <1>1, <1>2, <1>8, <1>10, PartsJoin
<1> HIDE DEF a
<1> QED
    BY <1>3, <1>7, <1>9, <1>11 DEF Merges, CountsOf

-----------------------------------------------------------------------------
(* The rows that satisfy the predicates.                                   *)

LEMMA CompareEqual ==
    ASSUME NEW x, NEW y, NEW cmp \in {"Eq", "Ne"}
    PROVE  Compare(cmp, x, y) = IF cmp = "Eq" THEN Equal(x, y) ELSE ~Equal(x, y)
<1> DEFINE a == Equal(x, y)
           b == ~Equal(x, y)
           c == Less(x, y)
           d == Less(x, y) \/ Equal(x, y)
           e == Less(y, x)
           f == Less(y, x) \/ Equal(x, y)
           all == [Eq |-> a, Ne |-> b, Lt |-> c, Le |-> d, Gt |-> e, Ge |-> f]
<1>1. Compare(cmp, x, y) = all[cmp]
    BY Zenon DEF Compare
<1> HIDE DEF a, b, c, d, e, f
<1>2. all[cmp] = IF cmp = "Eq" THEN a ELSE b
    OBVIOUS
<1>3. Compare(cmp, x, y) = IF cmp = "Eq" THEN a ELSE b
    BY <1>1, <1>2
<1> QED
    BY <1>3, Zenon DEF a, b

(* Comparing codes compares strings: each string has one code, and -1, the *)
(* code of a string that is not there, is none.                            *)
LEMMA MatchesHolds ==
    ASSUME TypedTable(table), NEW p, HasColumn(table, p.column), NEW i \in Rows
    PROVE  Matches(p, i) <=> Holds(p, i)
<1> DEFINE c == ColumnOf(table, p.column)
<1>1. Matches(p, i) <=>
        IF c.type = "Dict" /\ p.isStr /\ p.cmp \in {"Eq", "Ne"}
        THEN (Shown(c, i) = p.str) = (p.cmp = "Eq")
        ELSE Holds(p, i)
    BY Zenon DEF Matches
<1>2. c \in ColumnRecords /\ SoundColumn(c, table.rows) /\ i \in 1 .. table.rows
    BY FoundColumn DEF Rows, NumRows
<1>3. Holds(p, i) <=>
        IF c.type = "Dict"
        THEN Compare(p.cmp, c.data[i], IF p.isStr THEN Lookup(c.dict, p.str)
                                       ELSE Quotient(p.value, One))
        ELSE Compare(p.cmp, Number(c, i), p.value)
    BY Zenon DEF Holds
<1> HIDE DEF c
<1>4. CASE c.type = "Dict" /\ p.isStr /\ p.cmp \in {"Eq", "Ne"}
    <2> DEFINE d == c.dict
               v == c.data[i]
               l == Lookup(d, p.str)
    <2>1. /\ c.data \in Seq(Entries) /\ d \in Seq(Tokens) /\ Len(c.data) = table.rows
          /\ \A j, k \in DOMAIN d : d[j] = d[k] => j = k
          /\ Seqs!ToSet(c.data) = {j - 1 : j \in DOMAIN d}
        BY <1>2, <1>4 DEF ColumnRecords, SoundColumn
    <2>2. \E j \in DOMAIN d : v = j - 1
        <3>1. v \in Seqs!ToSet(c.data)
            BY <1>2, <2>1 DEF Seqs!ToSet
        <3> QED
            BY <2>1, <3>1
    <2>3. PICK j \in DOMAIN d : v = j - 1
        BY <2>2
    <2>4. DOMAIN d = 1 .. Len(d) /\ Len(d) \in Nat /\ j \in Int
        BY <2>1
    <2>5. Shown(c, i) = d[j]
        BY <1>4, <2>3, <2>4 DEF Shown, Decode
    <2>6. v = l <=> d[j] = p.str
        <3>1. CASE p.str \in Seqs!ToSet(d)
            <4> DEFINE k == CHOOSE k \in DOMAIN d : d[k] = p.str
            <4>1. \E m \in DOMAIN d : d[m] = p.str
                BY <3>1, Zenon DEF Seqs!ToSet
            <4>2. k \in DOMAIN d /\ d[k] = p.str
                BY <4>1, Zenon
            <4>3. l = k - 1
                BY <3>1, Zenon DEF Lookup
            <4> HIDE DEF k, l
            <4>4. v = l <=> j = k
                BY <2>3, <2>4, <4>2, <4>3
            <4> QED
                BY <2>1, <4>2, <4>4
        <3>2. CASE p.str \notin Seqs!ToSet(d)
            <4>1. l = -1
                BY <3>2, Zenon DEF Lookup
            <4>2. d[j] # p.str
                BY <3>2, Zenon DEF Seqs!ToSet
            <4> HIDE DEF l
            <4> QED
                BY <2>3, <2>4, <4>1, <4>2
        <3> QED
            BY <3>1, <3>2
    <2>7. Compare(p.cmp, v, l) <=> IF p.cmp = "Eq" THEN Equal(v, l) ELSE ~Equal(v, l)
        BY <1>4, CompareEqual
    <2>8. v # NaN
        BY <2>3, <2>4, ExecutorAssumption
    <2> HIDE DEF v, l, d
    <2>9. Equal(v, l) <=> v = l
        BY <2>8 DEF Equal
    <2>10. Holds(p, i) <=> Compare(p.cmp, v, l)
        BY <1>3, <1>4 DEF v, l, d
    <2>11. Matches(p, i) <=> (d[j] = p.str) = (p.cmp = "Eq")
        BY <1>1, <1>4, <2>5
    <2>12. CASE p.cmp = "Eq"
        BY <2>6, <2>7, <2>9, <2>10, <2>11, <2>12
    <2>13. CASE p.cmp = "Ne"
        BY <2>6, <2>7, <2>9, <2>10, <2>11, <2>13
    <2> QED
        BY <1>4, <2>12, <2>13
<1>5. CASE ~(c.type = "Dict" /\ p.isStr /\ p.cmp \in {"Eq", "Ne"})
    BY <1>1, <1>5
<1> QED
    BY <1>4, <1>5

LEMMA SelectedIsKept ==
    ASSUME Reducing
    PROVE  /\ Selected \subseteq Rows
           /\ \A R : R \subseteq Rows => Kept(R) = Selected \cap R
           /\ preds = <<>> => Selected = Rows
           /\ preds # <<>> =>
                \A i \in Rows : mask[i] = IF i \in Selected THEN 1 ELSE 0
<1>1. Selected \subseteq Rows
    BY DEF Selected
<1>2. CASE preds = <<>>
    <2>1. DOMAIN preds = {}
        BY <1>2
    <2>2. Selected = Rows
        BY <2>1 DEF Selected
    <2> QED
        BY <1>2, <2>2 DEF Kept
<1>3. CASE preds # <<>>
    <2>1. ASSUME NEW i \in Rows PROVE mask[i] = IF i \in Selected THEN 1 ELSE 0
        <3>1. PredsKnown /\ mask[i] = Bit(i) /\ TypedTable(table)
            BY <1>3 DEF Reducing, RunInv, Masked, BuiltWell
        <3>2. \A j \in DOMAIN preds : Matches(preds[j], i) <=> Holds(preds[j], i)
            BY <3>1, MatchesHolds DEF PredsKnown
        <3>3. i \in Selected <=> \A j \in DOMAIN preds : Holds(preds[j], i)
            BY <3>2 DEF Selected
        <3> QED
            BY <3>1, <3>3, Zenon DEF Bit
    <2>2. \A R : R \subseteq Rows => Kept(R) = Selected \cap R
        BY <1>3, <2>1 DEF Kept
    <2> QED
        BY <1>1, <1>3, <2>1, <2>2
<1> QED
    BY <1>2, <1>3

(* The ends of the ranges that are reduced.                                *)
LEMMA RangeTypes ==
    ASSUME NumRows \in Nat, threads \in Nat, NEW t \in DOMAIN ReduceTasks
    PROVE  /\ ReduceTasks[t][1] \in Nat /\ ReduceTasks[t][2] \in Nat
           /\ ReduceTasks[t][1] <= ReduceTasks[t][2] =>
                Cardinality(RowsOf(ReduceTasks[t])) = ReduceTasks[t][2] - ReduceTasks[t][1]
<1>1. ReduceTasks[t][1] \in Nat /\ ReduceTasks[t][2] \in Nat
    <2> DEFINE range == <<0, NumRows>>
    <2>1. range[1] = 0 /\ range[2] = NumRows
        OBVIOUS
    <2> HIDE DEF range
    <2>2. CASE ReduceTasks = <<range>>
        <3>1. ReduceTasks[t] = range
            BY <2>2
        <3> QED
            BY <2>1, <3>1
    <2>3. CASE ReduceTasks # <<range>>
        <3>1. Pooled /\ NumRows # 0
            BY <2>3 DEF ReduceTasks, MapRanges, range
        <3> DEFINE parts == Partitions
                   c == ChunkSize(NumRows, parts)
        <3>2. NumRows >= 1 /\ parts \in Nat /\ parts >= 1
            BY <3>1 DEF Partitions, Parts, Smaller, Pooled
        <3> HIDE DEF parts
        <3>3. c \in Nat
            BY <3>2, ChunkFacts
        <3>4. ReduceTasks = [i \in 1 .. parts |-> MapRange(NumRows, parts, i)]
            BY <3>1, Zenon DEF ReduceTasks, MapRanges, parts
        <3>5. t \in 1 .. parts
            BY <3>4
        <3>6. ReduceTasks[t] = <<(t - 1) * c, Smaller(NumRows, t * c)>>
            BY <3>4, <3>5 DEF MapRange
        <3> HIDE DEF c
        <3>7. t - 1 \in Nat /\ t \in Nat
            BY <3>2, <3>5
        <3>8. (t - 1) * c \in Nat /\ t * c \in Nat
            BY <3>3, <3>7, ProductType
        <3> QED
            BY <3>6, <3>8 DEF Smaller
    <2> QED
        BY <2>2, <2>3
<1>2. ASSUME ReduceTasks[t][1] <= ReduceTasks[t][2]
      PROVE  Cardinality(RowsOf(ReduceTasks[t])) = ReduceTasks[t][2] - ReduceTasks[t][1]
    <2> DEFINE lo == ReduceTasks[t][1]
               hi == ReduceTasks[t][2]
    <2> HIDE DEF lo, hi
    <2>1. lo \in Nat /\ hi \in Nat /\ lo <= hi
        BY <1>1, <1>2 DEF lo, hi
    <2>2. lo + 1 \in Int /\ hi \in Int
        BY <2>1
    <2>3. Cardinality(lo + 1 .. hi) = IF lo + 1 > hi THEN 0 ELSE hi - (lo + 1) + 1
        BY <2>2, FS_Interval
    <2>4. Cardinality(lo + 1 .. hi) = hi - lo
        BY <2>1, <2>3
    <2> QED
        BY <2>4 DEF lo, hi, RowsOf
<1> QED
    BY <1>1, <1>2

-----------------------------------------------------------------------------
(* An ungrouped query.                                                     *)

(* The terms a filtered sum adds up: those of all rows, gated.             *)
Gated == [i \in Rows |-> Gate(IF i \in Selected THEN 1 ELSE 0, Terms[i])]

LEMMA GateIsDouble == \A bit, x : x \in Doubles => Gate(bit, x) \in Doubles
BY ExecutorAssumption DEF Gate, Doubles

(* If the terms of the rows that are left out are finite, gating them      *)
(* leaves them out.                                                        *)
LEMMA GatedSum ==
    ASSUME Reducing, \A i \in Rows \ Selected : Finite(Terms[i]),
           NEW s, IsSum(s, Gated, Rows, NumRows)
    PROVE  IsSum(s, Terms, Selected, NumRows)
<1>1. /\ NumRows \in Nat /\ Rows = 1 .. NumRows /\ Selected \subseteq Rows
      /\ \A i \in Rows : Terms[i] \in Doubles
    BY TermsTyped DEF Rows, Selected
<1>2. \A i \in Rows : Gated[i] = IF i \in Selected THEN Terms[i] ELSE 0
    BY DEF Gated, Gate
<1>3. 0 # NaN /\ 0 # PosInf /\ 0 # NegInf
    BY ExecutorAssumption
<1>4. ASSUME NEW v \in {NaN, PosInf, NegInf}
      PROVE  v \in Entry(Gated, Rows) <=> v \in Entry(Terms, Selected)
    <2>1. v # 0
        BY <1>3
    <2> QED
        BY <1>1, <1>2, <2>1 DEF Entry
<1>5. RowSum(Gated, Rows, NumRows) = RowSum(Terms, Selected, NumRows)
    <2>1. \A i \in 1 .. NumRows : Term(Gated, Rows, i) = Term(Terms, Selected, i)
        BY <1>1, <1>2 DEF Term
    <2> QED
        BY <1>1, <2>1, RowSumAlike
<1>6. /\ NaN \in Entry(Gated, Rows) <=> NaN \in Entry(Terms, Selected)
      /\ PosInf \in Entry(Gated, Rows) <=> PosInf \in Entry(Terms, Selected)
      /\ NegInf \in Entry(Gated, Rows) <=> NegInf \in Entry(Terms, Selected)
    BY <1>4
<1> QED
    BY <1>5, <1>6 DEF IsSum

(* Else the sum is not a number.                                           *)
LEMMA GatedNaN ==
    ASSUME Reducing, NEW j \in Rows \ Selected, ~Finite(Terms[j]),
           NEW s, IsSum(s, Gated, Rows, NumRows)
    PROVE  s = NaN
<1>1. Gated[j] = NaN
    BY DEF Gated, Gate
<1>2. NaN \in Entry(Gated, Rows)
    BY <1>1 DEF Entry
<1> QED
    BY <1>2 DEF IsSum

(* What a task makes of its range.                                         *)
LEMMA GlobalPart ==
    ASSUME Reducing, ~Grouped, NEW t \in DOMAIN ReduceTasks
    PROVE  LET a == Part(t)[1]
               rows == RowsOf(ReduceTasks[t])
           IN  /\ rows \subseteq Rows
               /\ preds = <<>> \/ agg \notin {"Sum", "Avg"} =>
                    Accumulates(a, Terms, Selected \cap rows)
               /\ preds # <<>> /\ agg \in {"Sum", "Avg"} => Accumulates(a, Gated, Rows \cap rows)
               /\ ~MiscountsRows => a.count = Cardinality(Selected \cap rows)
<1> DEFINE range == ReduceTasks[t]
           rows == RowsOf(range)
           kept == Kept(rows)
           all == Measure(rows)
           a == Part(t)[1]
           gated == [i \in rows |-> Gate(mask[i], all[i])]
<1>1. NumRows \in Nat /\ threads \in Nat /\ Rows = 1 .. NumRows
    BY TermsTyped DEF Rows
<1>2. rows \subseteq Rows
    <2>1. PICK k, b : Tiles(ReduceTasks, k, b)
        BY <1>1, TasksTile
    <2> QED
        BY <1>1, <2>1, TilesCover
<1>3. /\ \A i \in rows : all[i] = Terms[i]
      /\ \A i \in Rows : Terms[i] \in Doubles
    BY <1>2, TermsTyped
<1>4. /\ Selected \subseteq Rows /\ kept = Selected \cap rows
      /\ preds = <<>> => Selected = Rows
      /\ preds # <<>> => \A i \in Rows : mask[i] = IF i \in Selected THEN 1 ELSE 0
    BY <1>2, SelectedIsKept
<1>5. a = IF preds = <<>> THEN Accumulate(range[2] - range[1], rows, all)
          ELSE IF agg \in {"Sum", "Avg"}
          THEN Accumulate(Cardinality(kept), rows, gated)
          ELSE Accumulate(Cardinality(kept), kept, all)
    <2>1. Part(t) = <<ReduceGlobal(range)>>
        BY Zenon DEF Part
    <2>2. a = ReduceGlobal(range)
        BY <2>1
    <2> QED
        BY <2>2, Zenon DEF ReduceGlobal
<1>6. /\ range[1] \in Nat /\ range[2] \in Nat
      /\ range[1] <= range[2] => Cardinality(rows) = range[2] - range[1]
    BY <1>1, RangeTypes
<1>7. Cardinality(kept) \in Int
    <2>1. kept \subseteq 1 .. NumRows
        BY <1>1, <1>2, <1>4
    <2> HIDE DEF kept
    <2>2. Cardinality(kept) \in Nat
        BY <1>1, <2>1, RankType
    <2> QED
        BY <2>2
<1>8. ~MiscountsRows => preds # <<>> \/ range[1] <= range[2]
    <2> SUFFICES ASSUME preds = <<>>, ~(range[1] <= range[2]) PROVE MiscountsRows
        OBVIOUS
    <2>1. ReduceTasks[t][1] > ReduceTasks[t][2]
        BY <1>6
    <2> QED
        BY <2>1, Zenon DEF MiscountsRows
<1>9. CASE preds = <<>>
    <2> DEFINE n == range[2] - range[1]
    <2>1. a = Accumulate(n, rows, all) /\ n \in Int
        BY <1>5, <1>6, <1>9
    <2>2. \A i \in rows : all[i] = Terms[i] /\ Terms[i] \in Doubles
        BY <1>2, <1>3
    <2> HIDE DEF range, rows, all, kept, gated, a, n
    <2>3. Accumulates(a, Terms, rows) /\ a.count = n
        BY <1>1, <1>2, <2>1, <2>2, AccumulatePart
    <2>4. Selected \cap rows = rows
        BY <1>2, <1>4, <1>9
    <2>5. ~MiscountsRows => a.count = Cardinality(Selected \cap rows)
        BY <1>6, <1>8, <1>9, <2>3, <2>4 DEF n
    <2> QED
        BY <1>2, <1>9, <2>3, <2>4, <2>5 DEF a, rows, range
<1>10. CASE preds # <<>> /\ agg \in {"Sum", "Avg"}
    <2>1. a = Accumulate(Cardinality(kept), rows, gated)
        BY <1>5, <1>10
    <2>2. \A i \in rows : gated[i] = Gated[i] /\ Gated[i] \in Doubles
        BY <1>2, <1>3, <1>4, <1>10, GateIsDouble DEF Gated
    <2> HIDE DEF range, rows, all, kept, gated, a
    <2>3. Accumulates(a, Gated, rows) /\ a.count = Cardinality(kept)
        BY <1>1, <1>2, <1>7, <2>1, <2>2, AccumulatePart
    <2>4. Rows \cap rows = rows
        BY <1>2
    <2> QED
        BY <1>2, <1>4, <1>10, <2>3, <2>4 DEF a, rows, range
<1>11. CASE preds # <<>> /\ agg \notin {"Sum", "Avg"}
    <2>1. a = Accumulate(Cardinality(kept), kept, all)
        BY <1>5, <1>11
    <2>2. kept \subseteq Rows /\ \A i \in kept : all[i] = Terms[i] /\ Terms[i] \in Doubles
        BY <1>2, <1>3, <1>4
    <2> HIDE DEF range, rows, all, kept, gated, a
    <2>3. Accumulates(a, Terms, kept) /\ a.count = Cardinality(kept)
        BY <1>1, <1>7, <2>1, <2>2, AccumulatePart
    <2> QED
        BY <1>2, <1>4, <1>11, <2>3 DEF a, rows, range
<1> QED
    BY <1>9, <1>10, <1>11

(* Only a range of a table with rows can end before it starts.             *)
LEMMA MiscountsOnlyRows ==
    ASSUME Reducing, MiscountsRows
    PROVE  Selected # {}
<1>1. NumRows \in Nat /\ threads \in Nat /\ Rows = 1 .. NumRows
    BY TermsTyped DEF Rows
<1>2. preds = <<>> /\ \E t \in DOMAIN ReduceTasks : ReduceTasks[t][1] > ReduceTasks[t][2]
    BY Zenon DEF MiscountsRows
<1>3. PICK t \in DOMAIN ReduceTasks : ReduceTasks[t][1] > ReduceTasks[t][2]
    BY <1>2
<1>4. NumRows # 0
    <2> SUFFICES ASSUME NumRows = 0 PROVE FALSE
        OBVIOUS
    <2> DEFINE none == <<0, 0>>
    <2>1. ReduceTasks = <<none>>
        BY Zenon DEF ReduceTasks, MapRanges
    <2>2. none[1] = 0 /\ none[2] = 0
        OBVIOUS
    <2> HIDE DEF none
    <2>3. ReduceTasks[t] = none
        BY <2>1
    <2> QED
        BY <1>3, <2>2, <2>3
<1>5. Selected = Rows
    BY <1>2, SelectedIsKept
<1> QED
    BY <1>1, <1>4, <1>5

(* Whatever the count, as long as it is not 0, an extreme is the one       *)
(* expected of the rows there are.                                         *)
LEMMA ExtremeIs ==
    ASSUME Reducing, NEW R, R \subseteq Rows, R # {}, NEW a, Accumulates(a, Terms, R),
           agg \in {"Min", "Max"}, a.count # 0
    PROVE  AggValue(a) = Expected(R)
<1> DEFINE n == Cardinality(R)
           b == [a EXCEPT !.count = n]
<1>1. NumRows \in Nat /\ R \subseteq 1 .. NumRows
    BY TermsTyped DEF Rows
<1>2. n \in Nat /\ n # 0
    <2>1. IsFiniteSet(R)
        <3>1. 1 \in Int /\ NumRows \in Int
            BY <1>1
        <3>2. IsFiniteSet(1 .. NumRows)
            BY <3>1, FS_Interval
        <3> QED
            BY <1>1, <3>2, FS_Subset
    <2> QED
        BY <2>1, FS_CardinalityType, FS_EmptySet
<1> HIDE DEF n
<1>3. a \in Accs
    BY DEF Accumulates
<1>4. b \in Accs /\ b.count = n /\ b.sum = a.sum /\ b.mn = a.mn /\ b.mx = a.mx
    BY <1>2, <1>3 DEF Accs
<1> HIDE DEF b
<1>5. Accumulates(b, Terms, R)
    BY <1>4 DEF Accumulates
<1>6. AggValue(b) = Expected(R)
    BY <1>4, <1>5, ValueIs DEF n
<1>7. AggValue(b) = AggValue(a)
    BY <1>2, <1>4 DEF AggValue
<1> QED
    BY <1>6, <1>7

LEMMA GlobalAnswer ==
    ASSUME Reducing, ~Grouped
    PROVE  /\ Merged[1].count = Cardinality(Selected) \/ MiscountsRows
           /\ \/ AggValue(Merged[1]) = Expected(Selected)
              \/ GatesNonFinite /\ AggValue(Merged[1]) = NaN
              \/ MiscountsRows /\ agg \in {"Count", "Avg"}
              \/ MiscountsRows /\ agg \in {"Min", "Max"} /\ AggValue(Merged[1]) = 0
<1> DEFINE m == Merged[1]
<1>1. /\ NumRows \in Nat /\ Selected \subseteq Rows /\ \A i \in Rows : Terms[i] \in Doubles
      /\ agg \in {"Count", "Sum", "Avg", "Min", "Max"}
      /\ agg # "Count" => \A i \in Rows : Terms[i] = Number(ColumnOf(table, metric), i)
    BY TermsTyped DEF Selected
<1>2. 1 \in DOMAIN Merged
    BY MergedDomain DEF Reducing
<1>3. \A t \in DOMAIN ReduceTasks :
        /\ preds = <<>> \/ agg \notin {"Sum", "Avg"} =>
            Accumulates(Part(t)[1], Terms, Selected \cap RowsOf(ReduceTasks[t]))
        /\ preds # <<>> /\ agg \in {"Sum", "Avg"} =>
            Accumulates(Part(t)[1], Gated, Rows \cap RowsOf(ReduceTasks[t]))
        /\ ~MiscountsRows =>
            Part(t)[1].count = Cardinality(Selected \cap RowsOf(ReduceTasks[t]))
    BY GlobalPart
<1>4. MiscountsRows => preds = <<>>
    BY DEF MiscountsRows
<1>5. CASE preds = <<>> \/ agg \notin {"Sum", "Avg"}
    <2>1. \A t \in DOMAIN ReduceTasks :
            Accumulates(Part(t)[1], Terms, Selected \cap RowsOf(ReduceTasks[t]))
        BY <1>3, <1>5
    <2>2. \A i \in Selected : Terms[i] \in Doubles
        BY <1>1
    <2>3. /\ Accumulates(m, Terms, Selected)
          /\ (\A t \in DOMAIN ReduceTasks :
                Part(t)[1].count = Cardinality(Selected \cap RowsOf(ReduceTasks[t])))
            => m.count = Cardinality(Selected)
        BY <1>1, <1>2, <2>1, <2>2, MergedJoins
    <2>4. ~MiscountsRows => m.count = Cardinality(Selected)
        BY <1>3, <2>3
    <2> HIDE DEF m
    <2>5. ~MiscountsRows \/ agg = "Sum" => AggValue(m) = Expected(Selected)
        BY <1>1, <2>3, <2>4, ValueIs
    <2>6. CASE MiscountsRows /\ agg \in {"Min", "Max"} /\ m.count # 0
        <3>1. Selected # {}
            BY <1>1, <2>6, MiscountsOnlyRows
        <3>2. AggValue(m) = Expected(Selected)
            BY <1>1, <2>3, <2>6, <3>1, ExtremeIs
        <3> QED
            BY <2>6, <3>2 DEF m
    <2>7. CASE agg \in {"Min", "Max"} /\ m.count = 0
        <3>1. AggValue(m) = 0
            BY <2>7 DEF AggValue
        <3> QED
            BY <2>4, <2>5, <2>7, <3>1 DEF m
    <2> QED
        BY <1>1, <2>4, <2>5, <2>6, <2>7 DEF m
<1>6. CASE preds # <<>> /\ agg \in {"Sum", "Avg"}
    <2>1. ~MiscountsRows
        BY <1>4, <1>6
    <2>2. \A t \in DOMAIN ReduceTasks :
            Accumulates(Part(t)[1], Gated, Rows \cap RowsOf(ReduceTasks[t]))
        BY <1>3, <1>6
    <2>3. \A i \in Rows : Gated[i] \in Doubles
        BY <1>1, GateIsDouble DEF Gated
    <2>4. /\ Accumulates(m, Gated, Rows)
          /\ (\A t \in DOMAIN ReduceTasks :
                Part(t)[1].count = Cardinality(Selected \cap RowsOf(ReduceTasks[t])))
            => m.count = Cardinality(Selected)
        BY <1>1, <1>2, <2>2, <2>3, MergedJoins
    <2>5. m.count = Cardinality(Selected)
        BY <1>3, <2>1, <2>4
    <2>6. m \in Accs /\ IsSum(m.sum, Gated, Rows, NumRows)
        BY <1>6, <2>4 DEF Accumulates
    <2> HIDE DEF m
    <2>7. CASE \A i \in Rows \ Selected : Finite(Terms[i])
        <3>1. IsSum(m.sum, Terms, Selected, NumRows)
            BY <2>6, <2>7, GatedSum
        <3>2. Accumulates(m, Terms, Selected)
            BY <1>6, <2>6, <3>1 DEF Accumulates
        <3>3. AggValue(m) = Expected(Selected)
            BY <1>1, <2>5, <3>2, ValueIs
        <3> QED
            BY <2>5, <3>3 DEF m
    <2>8. CASE \E i \in Rows \ Selected : ~Finite(Terms[i])
        <3>1. PICK j \in Rows \ Selected : ~Finite(Terms[j])
            BY <2>8
        <3>2. m.sum = NaN
            BY <2>6, <3>1, GatedNaN
        <3>3. GatesNonFinite
            BY <1>1, <1>6, <3>1 DEF GatesNonFinite
        <3>4. ~Finite(NaN)
            BY DEF Finite
        <3>5. CASE agg = "Sum"
            <4>1. AggValue(m) = NaN
                BY <3>2, <3>5 DEF AggValue
            <4> QED
                BY <2>5, <3>3, <4>1 DEF m
        <3>6. CASE agg = "Avg" /\ m.count # 0
            <4>1. AggValue(m) = Over(m.sum, m.count)
                BY <3>6 DEF AggValue
            <4>2. AggValue(m) = NaN
                BY <3>2, <3>4, <4>1 DEF Over
            <4> QED
                BY <2>5, <3>3, <4>2 DEF m
        <3>7. CASE agg = "Avg" /\ m.count = 0
            <4>1. AggValue(m) = 0
                BY <3>7 DEF AggValue
            <4>2. Selected = {}
                <5>1. IsFiniteSet(Selected)
                    <6>1. IsFiniteSet(1 .. NumRows)
                        <7>1. 1 \in Int /\ NumRows \in Int
                            BY <1>1
                        <7> QED
                            BY <7>1, FS_Interval
                    <6> QED
                        BY <1>1, <6>1, FS_Subset DEF Rows
                <5> QED
                    BY <2>5, <3>7, <5>1, FS_EmptySet
            <4>3. Expected(Selected) = 0
                <5> DEFINE xs == Along({}, [i \in {} |-> Number(ColumnOf(table, metric), i)])
                <5>1. Expected({}) =
                        CASE agg = "Count" -> One * Cardinality({})
                          [] agg = "Sum" -> SumOf(xs)
                          [] agg # "Count" /\ agg # "Sum" /\ {} = {} -> 0
                          [] agg = "Avg" /\ {} # {} -> Over(SumOf(xs), Cardinality({}))
                          [] agg = "Min" /\ {} # {} -> LeastOf(Seqs!ToSet(xs))
                          [] agg = "Max" /\ {} # {} -> GreatestOf(Seqs!ToSet(xs))
                    BY Zenon DEF Expected
                <5> HIDE DEF xs
                <5>2. Expected({}) = 0
                    BY <3>7, <5>1
                <5> QED
                    BY <4>2, <5>2
            <4> QED
                BY <2>5, <4>1, <4>3 DEF m
        <3> QED
            BY <1>6, <3>5, <3>6, <3>7
    <2> QED
        BY <2>7, <2>8
<1> QED
    BY <1>5, <1>6

-----------------------------------------------------------------------------
(* Quotients and buckets.                                                  *)

LEMMA TimesGrows ==
    ASSUME NEW p \in Int, NEW q \in Int, p <= q, NEW b \in Nat
    PROVE  b * p \in Int /\ b * q \in Int /\ b * p <= b * q
<1>1. b * q = b * p + b * (q - p)
    OBVIOUS
<1>2. b * (q - p) \in Nat /\ b * p \in Int /\ b * q \in Int
    <2>1. q - p \in Nat
        OBVIOUS
    <2> QED
        BY <2>1
<1> QED
    BY <1>1, <1>2

LEMMA QuotientIs ==
    ASSUME NEW v \in Int, NEW b \in Nat, b >= 1
    PROVE  LET q == Quotient(v, b)
           IN  /\ q \in Int /\ b * q \in Int
               /\ v >= 0 => 0 <= q /\ q <= v /\ b * q <= v /\ v < b * q + b
               /\ v < 0 => v <= q /\ q <= 0 /\ b * q >= v /\ v > b * q - b
<1>1. ASSUME NEW x \in Nat
      PROVE  LET q == x \div b
             IN  q \in Nat /\ q <= x /\ b * q \in Nat /\ b * q <= x /\ x < b * q + b
    <2> DEFINE q == x \div b
    <2>1. q \in Nat /\ b * q <= x /\ x < b * q + b
        OBVIOUS
    <2> HIDE DEF q
    <2>2. b * q = q + (b - 1) * q
        BY <2>1
    <2>3. (b - 1) * q \in Nat /\ b * q \in Nat
        <3>1. b - 1 \in Nat
            OBVIOUS
        <3> QED
            BY <2>1, <3>1
    <2> QED
        BY <2>1, <2>2, <2>3 DEF q
<1>2. CASE v >= 0
    <2>1. Quotient(v, b) = v \div b
        BY <1>2 DEF Quotient
    <2>2. v \in Nat
        BY <1>2
    <2> QED
        BY <1>1, <1>2, <2>1, <2>2
<1>3. CASE v < 0
    <2> DEFINE x == -v
               k == x \div b
    <2>1. x \in Nat /\ x = -v
        BY <1>3
    <2>2. Quotient(v, b) = -k
        BY <1>3 DEF Quotient
    <2> HIDE DEF x
    <2>3. k \in Nat /\ k <= x /\ b * k \in Nat /\ b * k <= x /\ x < b * k + b
        BY <1>1, <2>1
    <2> HIDE DEF k
    <2>4. b * (-k) = -(b * k)
        BY <2>3
    <2> QED
        BY <1>3, <2>1, <2>2, <2>3, <2>4
<1> QED
    BY <1>2, <1>3

(* A bucket is the quotient times its width.                               *)
LEMMA BucketIs ==
    ASSUME NEW v \in Int, NEW b \in Nat, b >= 1
    PROVE  Bucket(v, b) = b * Quotient(v, b)
<1> DEFINE q == Quotient(v, b)
           top == Sets!Max({v, -v})
           Ok(m) == /\ v >= 0 => m <= v /\ v < m + b
                    /\ v < 0 => m >= v /\ v > m - b
           All == {b * k : k \in -top .. top}
<1>1. /\ q \in Int /\ b * q \in Int
      /\ v >= 0 => 0 <= q /\ q <= v /\ b * q <= v /\ v < b * q + b
      /\ v < 0 => v <= q /\ q <= 0 /\ b * q >= v /\ v > b * q - b
    BY QuotientIs
<1>2. top \in {v, -v} /\ top >= v /\ top >= -v
    <2>1. \E x \in {v, -v} : \A y \in {v, -v} : x >= y
        <3>1. CASE v >= 0
            <4>1. \A y \in {v, -v} : v >= y
                BY <3>1
            <4> QED
                BY <4>1
        <3>2. CASE v < 0
            <4>1. \A y \in {v, -v} : -v >= y
                BY <3>2
            <4> QED
                BY <4>1
        <3> QED
            BY <3>1, <3>2
    <2>2. top = CHOOSE x \in {v, -v} : \A y \in {v, -v} : x >= y
        BY Zenon DEF Sets!Max
    <2>3. top \in {v, -v} /\ \A y \in {v, -v} : top >= y
        BY <2>1, <2>2, Zenon
    <2> QED
        BY <2>3
<1> HIDE DEF top
<1>3. q \in -top .. top
    BY <1>1, <1>2
<1> HIDE DEF q
<1>4. b * q \in All /\ Ok(b * q)
    BY <1>1, <1>3
<1>5. ASSUME NEW m \in All, Ok(m) PROVE m = b * q
    <2>1. PICK k \in -top .. top : m = b * k
        OBVIOUS
    <2>2. k \in Int /\ b * k \in Int
        BY <1>2, <2>1
    <2>3. CASE k < q
        <3>1. b * (k + 1) <= b * q /\ b * (k + 1) = b * k + b
            BY <1>1, <2>2, <2>3, TimesGrows
        <3> QED
            BY <1>1, <1>5, <2>1, <2>2, <3>1
    <2>4. CASE q < k
        <3>1. b * (q + 1) <= b * k /\ b * (q + 1) = b * q + b
            BY <1>1, <2>2, <2>4, TimesGrows
        <3> QED
            BY <1>1, <1>5, <2>1, <2>2, <3>1
    <2>5. CASE k = q
        BY <2>1, <2>5
    <2> QED
        BY <1>1, <2>2, <2>3, <2>4, <2>5
<1>6. Bucket(v, b) = CHOOSE m \in All : Ok(m)
    BY Zenon DEF Bucket, top
<1> HIDE DEF All, Ok
<1>7. (CHOOSE m \in All : Ok(m)) = b * q
    BY <1>4, <1>5, Zenon
<1> QED
    BY <1>6, <1>7 DEF q

LEMMA TimesCancels ==
    ASSUME NEW p \in Int, NEW q \in Int, NEW b \in Nat, b >= 1, p * b = q * b
    PROVE  p = q
<1>1. ASSUME NEW x \in Int, NEW y \in Int, x < y, x * b = y * b PROVE FALSE
    <2>1. b * (x + 1) <= b * y /\ b * (x + 1) = b * x + b
        BY <1>1, TimesGrows
    <2>2. b * x = x * b /\ b * y = y * b /\ b * x \in Int
        OBVIOUS
    <2> QED
        BY <1>1, <2>1, <2>2
<1> QED
    BY <1>1

-----------------------------------------------------------------------------
(* A grouped query: groups, their rows and their labels.                   *)

(* The column rows are grouped by, and what is grouped: integers.          *)
LEMMA GroupedBy ==
    ASSUME Reducing, Grouped
    PROVE  LET c == GroupColumn
           IN  /\ c \in ColumnRecords /\ SoundColumn(c, NumRows) /\ NumRows \in Nat
               /\ group.bucket \in Int /\ DOMAIN c.dict = 1 .. Len(c.dict) /\ Len(c.dict) \in Nat
               /\ \A i \in Rows : c.data[i] \in Int
               /\ c.type = "Dict" =>
                    \A i \in Rows : \E g \in DOMAIN c.dict : c.data[i] = g - 1
<1> DEFINE c == GroupColumn
<1>1. /\ HasColumn(table, group.col) /\ TypedTable(table) /\ group.bucket \in Int
      /\ c.type = "Float64" => \A i \in Rows : Finite(c.data[i])
      /\ NumRows \in Nat /\ Rows = 1 .. table.rows /\ NumRows = table.rows
    BY DEF Reducing, RunInv, BuiltWell, Reduced, TypedTable, NumRows, Rows
<1>2. /\ c \in ColumnRecords /\ SoundColumn(c, table.rows)
      /\ \A i \in 1 .. table.rows :
            /\ c.type = "Int64" => c.data[i] \in Int
            /\ c.type = "Float64" => c.data[i] \in Doubles
    BY <1>1, FoundColumn DEF GroupColumn
<1> HIDE DEF c
<1>3. /\ c.type \in {"Int64", "Float64", "Dict"} /\ c.data \in Seq(Entries)
      /\ c.dict \in Seq(Tokens) /\ Len(c.data) = table.rows
      /\ c.type = "Dict" => Seqs!ToSet(c.data) = {g - 1 : g \in DOMAIN c.dict}
    BY <1>2 DEF ColumnRecords, SoundColumn, Types
<1>4. DOMAIN c.dict = 1 .. Len(c.dict) /\ Len(c.dict) \in Nat
    BY <1>3
<1>5. c.type = "Dict" => \A i \in Rows : \E g \in DOMAIN c.dict : c.data[i] = g - 1
    <2> SUFFICES ASSUME c.type = "Dict", NEW i \in Rows
                 PROVE  \E g \in DOMAIN c.dict : c.data[i] = g - 1
        OBVIOUS
    <2>1. c.data[i] \in Seqs!ToSet(c.data)
        BY <1>1, <1>3 DEF Seqs!ToSet
    <2> QED
        BY <1>3, <2>1
<1>6. ASSUME NEW i \in Rows PROVE c.data[i] \in Int
    <2>1. CASE c.type = "Dict"
        BY <1>4, <1>5, <2>1
    <2>2. CASE c.type = "Int64"
        BY <1>1, <1>2, <2>2
    <2>3. CASE c.type = "Float64"
        BY <1>1, <1>2, <2>3 DEF Finite, Doubles
    <2> QED
        BY <1>3, <2>1, <2>2, <2>3
<1> QED
    BY <1>1, <1>2, <1>4, <1>5, <1>6 DEF c

LEMMA RawIsInt ==
    ASSUME Reducing, Grouped, NEW i \in Rows
    PROVE  RawKey(i) \in Int
<1> DEFINE c == GroupColumn
           v == IF c.type = "Float64" THEN Quotient(c.data[i], One) ELSE c.data[i]
<1>1. c.data[i] \in Int /\ group.bucket \in Int /\ One \in Nat /\ One >= 1
    BY GroupedBy, ExecutorAssumption
<1>2. RawKey(i) = IF group.bucket > 0 THEN Quotient(v, group.bucket) ELSE v
    BY Zenon DEF RawKey
<1>3. v \in Int
    BY <1>1, QuotientIs
<1> HIDE DEF v
<1>4. group.bucket > 0 => group.bucket \in Nat /\ group.bucket >= 1
    BY <1>1
<1> QED
    BY <1>2, <1>3, <1>4, QuotientIs

(* Rows at which a raw key occurs first.                                   *)
Firsts == {i \in Rows : \A j \in Rows : j < i => RawKey(j) # RawKey(i)}

(* Each row is in one group.                                               *)
LEMMA OneGroup ==
    ASSUME Reducing, Grouped
    PROVE  /\ \A g, h \in DOMAIN GroupKeys : GroupKeys[g] = GroupKeys[h] => g = h
           /\ \A i \in Rows : \E g \in DOMAIN GroupKeys : KeyOf(i) = GroupKeys[g]
           /\ ~ByCode => \A g \in DOMAIN GroupKeys : GroupKeys[g] \in Int
<1> DEFINE c == GroupColumn
<1>1. /\ NumRows \in Nat /\ Rows = 1 .. NumRows
      /\ DOMAIN c.dict = 1 .. Len(c.dict) /\ Len(c.dict) \in Nat
      /\ c.type = "Dict" => \A i \in Rows : \E g \in DOMAIN c.dict : c.data[i] = g - 1
    BY GroupedBy DEF Rows
<1>2. CASE ByCode
    <2>1. GroupKeys = [g \in DOMAIN c.dict |-> g - 1]
        BY <1>2, Zenon DEF GroupKeys
    <2>2. \A i : KeyOf(i) = c.data[i]
        BY <1>2, Zenon DEF KeyOf
    <2>3. c.type = "Dict"
        BY <1>2 DEF ByCode
    <2> HIDE DEF c
    <2>4. DOMAIN GroupKeys = 1 .. Len(c.dict) /\ \A g \in 1 .. Len(c.dict) : GroupKeys[g] = g - 1
        BY <1>1, <2>1
    <2>5. ASSUME NEW i \in Rows
          PROVE  \E g \in DOMAIN GroupKeys : KeyOf(i) = GroupKeys[g]
        <3>1. PICK g \in DOMAIN c.dict : c.data[i] = g - 1
            BY <1>1, <2>3
        <3> QED
            BY <1>1, <2>2, <2>4, <3>1
    <2>6. ASSUME NEW g \in DOMAIN GroupKeys, NEW h \in DOMAIN GroupKeys,
                 GroupKeys[g] = GroupKeys[h]
          PROVE  g = h
        BY <1>1, <2>4, <2>6
    <2> QED
        BY <1>2, <2>5, <2>6
<1>3. CASE ~ByCode
    <2> DEFINE K == Cardinality(Firsts)
    <2>1. GroupKeys = [g \in 1 .. K |-> RawKey(Nth(Firsts, g))]
        BY <1>3, Zenon DEF GroupKeys, Firsts
    <2>2. \A i : KeyOf(i) = RawKey(i)
        BY <1>3, Zenon DEF KeyOf
    <2>3. Firsts \subseteq 1 .. NumRows
        BY <1>1 DEF Firsts
    <2>4. \A g \in 1 .. K : Nth(Firsts, g) \in Firsts /\ Rank(Firsts, Nth(Firsts, g)) = g
        BY <1>1, <2>3, NthExists
    <2>5. \A i \in Firsts : Rank(Firsts, i) \in 1 .. K /\ Nth(Firsts, Rank(Firsts, i)) = i
        BY <1>1, <2>3, NthOfRank
    <2> HIDE DEF K, c
    <2>6. DOMAIN GroupKeys = 1 .. K /\ \A g \in 1 .. K : GroupKeys[g] = RawKey(Nth(Firsts, g))
        BY <2>1
    <2>7. \A i, j \in Firsts : RawKey(i) = RawKey(j) => i = j
        <3> SUFFICES ASSUME NEW i \in Firsts, NEW j \in Firsts, RawKey(i) = RawKey(j), i # j
                     PROVE  FALSE
            OBVIOUS
        <3>1. i \in Rows /\ j \in Rows /\ (i < j \/ j < i)
            BY <1>1, <2>3
        <3> QED
            BY <3>1 DEF Firsts
    <2>8. ASSUME NEW g \in DOMAIN GroupKeys, NEW h \in DOMAIN GroupKeys,
                 GroupKeys[g] = GroupKeys[h]
          PROVE  g = h
        <3>1. Nth(Firsts, g) = Nth(Firsts, h)
            BY <2>4, <2>6, <2>7, <2>8
        <3> QED
            BY <2>4, <2>6, <3>1
    <2>9. ASSUME NEW i \in Rows
          PROVE  \E g \in DOMAIN GroupKeys : KeyOf(i) = GroupKeys[g]
        <3> DEFINE S == {j \in Rows : RawKey(j) = RawKey(i)}
        <3>1. S \subseteq Nat /\ i \in S
            BY <1>1
        <3>2. PICK j \in S : \A k \in S : j <= k
            <4> HIDE DEF S
            <4> QED
                BY <3>1, LeastNumber
        <3>3. j \in Firsts
            <4> SUFFICES ASSUME NEW k \in Rows, k < j, RawKey(k) = RawKey(j) PROVE FALSE
                BY DEF Firsts
            <4>1. k \in S
                OBVIOUS
            <4> QED
                BY <1>1, <3>2, <4>1
        <3>4. RawKey(j) = RawKey(i)
            OBVIOUS
        <3> HIDE DEF S
        <3>5. GroupKeys[Rank(Firsts, j)] = RawKey(i) /\ Rank(Firsts, j) \in DOMAIN GroupKeys
            BY <2>5, <2>6, <3>3, <3>4
        <3> QED
            BY <2>2, <3>5
    <2>10. \A g \in DOMAIN GroupKeys : GroupKeys[g] \in Int
        <3>1. \A g \in 1 .. K : Nth(Firsts, g) \in Rows
            BY <1>1, <2>3, <2>4
        <3> QED
            BY <2>6, <3>1, RawIsInt
    <2> QED
        BY <1>3, <2>8, <2>9, <2>10
<1> QED
    BY <1>2, <1>3

(* The rows of a group, and the keys it is shown under.                    *)
RowsIn(g) == {i \in Selected : KeyOf(i) = GroupKeys[g]}
LabelOf(g) == [key |-> KeyShown(g), num |-> NumOf(g)]

LEMMA LabelsDiffer ==
    ASSUME Reducing, Grouped, NEW g \in DOMAIN GroupKeys, NEW h \in DOMAIN GroupKeys,
           NumOf(g) = NumOf(h)
    PROVE  g = h
<1>1. GroupKeys[g] = GroupKeys[h] => g = h
    BY OneGroup
<1>2. CASE ByCode
    BY <1>1, <1>2 DEF NumOf
<1>3. CASE ~ByCode
    <2>1. GroupKeys[g] * Scale = GroupKeys[h] * Scale
        BY <1>3 DEF NumOf
    <2>2. GroupKeys[g] \in Int /\ GroupKeys[h] \in Int
        BY <1>3, OneGroup
    <2>3. Scale \in Nat /\ Scale >= 1
        <3>1. group.bucket \in Int
            BY GroupedBy
        <3> QED
            BY <3>1 DEF Scale
    <2> QED
        BY <1>1, <2>1, <2>2, <2>3, TimesCancels
<1> QED
    BY <1>2, <1>3

LEMMA LabelIs ==
    ASSUME Reducing, Grouped, NEW i \in Rows, NEW g \in DOMAIN GroupKeys,
           KeyOf(i) = GroupKeys[g]
    PROVE  Label(i) = LabelOf(g)
<1> DEFINE c == GroupColumn
           x == c.data[i]
           v == IF c.type = "Float64" THEN Bucket(x, One) \div One ELSE x
           w == IF c.type = "Float64" THEN Quotient(x, One) ELSE x
           num == IF group.bucket > 0 THEN Bucket(v, group.bucket) ELSE v
<1>1. /\ x \in Int /\ group.bucket \in Int /\ One \in Nat /\ One >= 1
      /\ c.type = "Dict" => \E h \in DOMAIN c.dict : x = h - 1
      /\ DOMAIN c.dict = 1 .. Len(c.dict) /\ Len(c.dict) \in Nat
    BY GroupedBy, ExecutorAssumption
<1>2. Label(i) = [key |-> IF ByCode THEN Shown(c, i) ELSE num, num |-> num]
    BY Zenon DEF Label
<1>3. ByCode <=> c.type = "Dict" /\ group.bucket = 0
    BY DEF ByCode
<1>4. CASE ByCode
    <2>1. GroupKeys = [h \in DOMAIN c.dict |-> h - 1]
        BY <1>4, Zenon DEF GroupKeys
    <2>2. x = GroupKeys[g]
        BY <1>4, Zenon DEF KeyOf
    <2>3. x = g - 1 /\ g \in 1 .. Len(c.dict)
        BY <1>1, <2>1, <2>2
    <2>4. num = x
        BY <1>1, <1>3, <1>4
    <2>5. Shown(c, i) = c.dict[g]
        <3>1. x + 1 = g
            BY <2>3
        <3> QED
            BY <1>3, <1>4, <3>1 DEF Shown, Decode
    <2>6. NumOf(g) = x /\ KeyShown(g) = c.dict[g]
        BY <1>4, <2>2 DEF NumOf, KeyShown
    <2> HIDE DEF num
    <2> QED
        BY <1>2, <1>4, <2>4, <2>5, <2>6 DEF LabelOf
<1>5. CASE ~ByCode
    <2>1. Bucket(x, One) = One * Quotient(x, One) /\ Quotient(x, One) \in Int
        BY <1>1, BucketIs, QuotientIs
    <2>2. v = w /\ w \in Int
        <3> DEFINE q == Quotient(x, One)
        <3>1. q \in Int /\ Bucket(x, One) = One * q
            BY <2>1
        <3> HIDE DEF q
        <3>2. (One * q) \div One = q
            BY <1>1, <3>1
        <3> QED
            BY <1>1, <3>1, <3>2 DEF q
    <2>3. KeyOf(i) = IF group.bucket > 0 THEN Quotient(w, group.bucket) ELSE w
        BY <1>5, Zenon DEF KeyOf, RawKey
    <2> HIDE DEF v, w
    <2>4. num = NumOf(g)
        <3>1. CASE group.bucket > 0
            <4> DEFINE b == group.bucket
                       q == Quotient(w, b)
            <4>1. b \in Nat /\ b >= 1
                BY <1>1, <3>1
            <4>2. num = b * q /\ q \in Int
                BY <2>2, <3>1, <4>1, BucketIs, QuotientIs
            <4>3. NumOf(g) = q * b
                BY <1>5, <2>3, <3>1 DEF NumOf, Scale
            <4> HIDE DEF b, q, num
            <4> QED
                BY <4>1, <4>2, <4>3
        <3>2. CASE ~(group.bucket > 0)
            <4>1. num = w
                BY <2>2, <3>2
            <4>2. NumOf(g) = w * 1
                BY <1>5, <2>3, <3>2 DEF NumOf, Scale
            <4> HIDE DEF num
            <4> QED
                BY <2>2, <4>1, <4>2
        <3> QED
            BY <3>1, <3>2
    <2>5. KeyShown(g) = NumOf(g)
        BY <1>5 DEF KeyShown
    <2> HIDE DEF num
    <2> QED
        BY <1>2, <1>5, <2>4, <2>5 DEF LabelOf
<1> QED
    BY <1>4, <1>5

-----------------------------------------------------------------------------
(* The rows of a grouped result.                                           *)

LEMMA GroupPart ==
    ASSUME Reducing, Grouped, NEW g \in DOMAIN GroupKeys, NEW t \in DOMAIN ReduceTasks
    PROVE  LET part == RowsIn(g) \cap RowsOf(ReduceTasks[t])
           IN  Accumulates(Part(t)[g], Terms, part) /\ Part(t)[g].count = Cardinality(part)
<1> DEFINE range == ReduceTasks[t]
           rows == {i \in Kept(RowsOf(range)) : KeyOf(i) = GroupKeys[g]}
           part == RowsIn(g) \cap RowsOf(range)
           all == Measure(rows)
<1>1. NumRows \in Nat /\ threads \in Nat /\ Rows = 1 .. NumRows
    BY TermsTyped DEF Rows
<1>2. RowsOf(range) \subseteq Rows
    <2>1. PICK k, b : Tiles(ReduceTasks, k, b)
        BY <1>1, TasksTile
    <2> QED
        BY <1>1, <2>1, TilesCover
<1>3. Kept(RowsOf(range)) = Selected \cap RowsOf(range)
    BY <1>2, SelectedIsKept
<1>4. rows = part
    BY <1>3 DEF RowsIn
<1>5. Part(t)[g] = Accumulate(Cardinality(rows), rows, all)
    <2>1. Part(t) = ReduceGroup(range)
        BY Zenon DEF Part
    <2>2. ReduceGroup(range)[g] = Accumulate(Cardinality(rows), rows, all)
        BY Zenon DEF ReduceGroup
    <2> QED
        BY <2>1, <2>2
<1>6. rows \subseteq Rows
    BY <1>2, <1>4
<1>7. \A i \in rows : all[i] = Terms[i] /\ Terms[i] \in Doubles
    BY <1>6, TermsTyped
<1> HIDE DEF rows, all
<1>8. Cardinality(rows) \in Int
    <2>1. Cardinality(rows) \in Nat
        BY <1>1, <1>6, RankType
    <2> QED
        BY <2>1
<1>9. Accumulates(Part(t)[g], Terms, rows) /\ Part(t)[g].count = Cardinality(rows)
    BY <1>1, <1>5, <1>6, <1>7, <1>8, AccumulatePart
<1> QED
    BY <1>4, <1>9

LEMMA GroupMerged ==
    ASSUME Reducing, Grouped, NEW g \in DOMAIN GroupKeys
    PROVE  /\ Merged[g].count = Cardinality(RowsIn(g))
           /\ AggValue(Merged[g]) = Expected(RowsIn(g))
<1>1. RowsIn(g) \subseteq Rows /\ \A i \in RowsIn(g) : Terms[i] \in Doubles
    BY TermsTyped DEF RowsIn, Selected
<1>2. g \in DOMAIN Merged
    BY MergedDomain DEF Reducing
<1>3. \A t \in DOMAIN ReduceTasks :
        /\ Accumulates(Part(t)[g], Terms, RowsIn(g) \cap RowsOf(ReduceTasks[t]))
        /\ Part(t)[g].count = Cardinality(RowsIn(g) \cap RowsOf(ReduceTasks[t]))
    BY GroupPart
<1>4. Accumulates(Merged[g], Terms, RowsIn(g)) /\ Merged[g].count = Cardinality(RowsIn(g))
    BY <1>1, <1>2, <1>3, MergedJoins
<1> QED
    BY <1>1, <1>4, ValueIs

(* One row of the result, as it should be and as the vectors have it.      *)
RowFor(g) ==
    [key |-> KeyShown(g), num |-> NumOf(g), count |-> Cardinality(RowsIn(g)),
     value |-> Expected(RowsIn(g))]
RowAt(r, j) ==
    [key |-> r.keys[j], num |-> r.nums[j], count |-> r.counts[j], value |-> r.values[j]]
RowsAt(r) == {RowAt(r, j) : j \in DOMAIN r.values}

LEMMA FoundGroups ==
    ASSUME Reducing, Grouped
    PROVE  Found = {g \in DOMAIN GroupKeys : RowsIn(g) # {}}
<1>1. DOMAIN Merged = DOMAIN GroupKeys
    BY MergedDomain DEF Reducing
<1>2. ASSUME NEW g \in DOMAIN GroupKeys PROVE Merged[g].count # 0 <=> RowsIn(g) # {}
    <2>1. NumRows \in Nat /\ RowsIn(g) \subseteq 1 .. NumRows
        BY TermsTyped DEF RowsIn, Selected, Rows
    <2>2. IsFiniteSet(RowsIn(g))
        BY <2>1, RankType
    <2>3. Cardinality(RowsIn(g)) = 0 <=> RowsIn(g) = {}
        BY <2>2, FS_EmptySet
    <2> QED
        BY <2>3, GroupMerged
<1> QED
    BY <1>1, <1>2 DEF Found

(* The rows expected, one for each label.                                  *)
RowsWith(l) == {i \in Selected : Label(i) = l}
RowWith(l) ==
    [key |-> l.key, num |-> l.num, count |-> Cardinality(RowsWith(l)),
     value |-> Expected(RowsWith(l))]
ExpectedRows == {RowWith(l) : l \in {Label(i) : i \in Selected}}

LEMMA ExpectedAre ==
    ASSUME Reducing, Grouped
    PROVE  ExpectedRows = {RowFor(g) : g \in Found}
<1> DEFINE Labels == {Label(i) : i \in Selected}
<1>1. Selected \subseteq Rows
    BY DEF Selected
<1>2. \A i \in Rows : \E g \in DOMAIN GroupKeys : KeyOf(i) = GroupKeys[g]
    BY OneGroup
<1>3. \A i \in Rows, g \in DOMAIN GroupKeys : KeyOf(i) = GroupKeys[g] => Label(i) = LabelOf(g)
    BY LabelIs
<1>4. \A g, h \in DOMAIN GroupKeys : LabelOf(g) = LabelOf(h) => g = h
    <2> SUFFICES ASSUME NEW g \in DOMAIN GroupKeys, NEW h \in DOMAIN GroupKeys,
                        LabelOf(g) = LabelOf(h)
                 PROVE  g = h
        OBVIOUS
    <2>1. NumOf(g) = NumOf(h)
        BY DEF LabelOf
    <2> QED
        BY <2>1, LabelsDiffer
<1>5. Found = {g \in DOMAIN GroupKeys : RowsIn(g) # {}}
    BY FoundGroups
<1>6. ASSUME NEW g \in DOMAIN GroupKeys PROVE RowsWith(LabelOf(g)) = RowsIn(g)
    <2>1. ASSUME NEW i \in Selected PROVE Label(i) = LabelOf(g) <=> KeyOf(i) = GroupKeys[g]
        BY <1>1, <1>2, <1>3, <1>4
    <2> QED
        BY <2>1 DEF RowsIn, RowsWith
<1>7. Labels = {LabelOf(g) : g \in Found}
    <2>1. ASSUME NEW i \in Selected PROVE \E g \in Found : Label(i) = LabelOf(g)
        <3>1. PICK g \in DOMAIN GroupKeys : KeyOf(i) = GroupKeys[g]
            BY <1>1, <1>2
        <3>2. i \in RowsIn(g)
            BY <3>1 DEF RowsIn
        <3> QED
            BY <1>1, <1>3, <1>5, <3>1, <3>2
    <2>2. ASSUME NEW g \in Found PROVE \E i \in Selected : Label(i) = LabelOf(g)
        <3>1. PICK i \in RowsIn(g) : TRUE
            BY <1>5
        <3>2. i \in Selected /\ KeyOf(i) = GroupKeys[g] /\ g \in DOMAIN GroupKeys
            BY <1>5, <3>1 DEF RowsIn
        <3> QED
            BY <1>1, <1>3, <3>2
    <2>3. Labels \subseteq {LabelOf(g) : g \in Found}
        BY <2>1
    <2>4. {LabelOf(g) : g \in Found} \subseteq Labels
        BY <2>2
    <2> QED
        BY <2>3, <2>4
<1>8. ExpectedRows = {RowWith(l) : l \in Labels}
    BY Zenon DEF ExpectedRows
<1>9. ASSUME NEW g \in Found PROVE RowWith(LabelOf(g)) = RowFor(g)
    <2>1. RowsWith(LabelOf(g)) = RowsIn(g)
        BY <1>5, <1>6
    <2>2. LabelOf(g).key = KeyShown(g) /\ LabelOf(g).num = NumOf(g)
        BY DEF LabelOf
    <2> QED
        BY <2>1, <2>2, Zenon DEF RowFor, RowWith
<1> HIDE DEF Labels
<1>10. {RowWith(l) : l \in Labels} = {RowFor(g) : g \in Found}
    <2>1. \A x : x \in {RowWith(l) : l \in Labels} <=> \E g \in Found : x = RowWith(LabelOf(g))
        BY <1>7
    <2> QED
        BY <1>9, <2>1
<1> QED
    BY <1>8, <1>10

(* Rows that differ in a key are as many as the values.                    *)
LEMMA RowsCount ==
    ASSUME NEW r, NEW K \in Nat, DOMAIN r.values = 1 .. K,
           \A i, j \in 1 .. K : r.nums[i] = r.nums[j] => i = j
    PROVE  Cardinality(RowsAt(r)) = K
<1> DEFINE f == [j \in 1 .. K |-> RowAt(r, j)]
<1>1. RowsAt(r) = {RowAt(r, j) : j \in 1 .. K}
    BY DEF RowsAt
<1>2. f \in Surjection(1 .. K, RowsAt(r))
    <2>1. f \in [1 .. K -> RowsAt(r)]
        BY <1>1
    <2>2. \A x \in RowsAt(r) : \E j \in 1 .. K : f[j] = x
        BY <1>1
    <2> HIDE DEF f
    <2> QED
        BY <2>1, <2>2, Zenon DEF Surjection
<1>3. \A i, j \in 1 .. K : RowAt(r, i) = RowAt(r, j) => i = j
    BY DEF RowAt
<1>4. f \in Injection(1 .. K, RowsAt(r))
    <2>1. f \in [1 .. K -> RowsAt(r)] /\ DOMAIN f = 1 .. K
        BY <1>1
    <2>2. \A i, j \in 1 .. K : f[i] = f[j] => i = j
        BY <1>3
    <2> HIDE DEF f
    <2> QED
        BY <2>1, <2>2, Zenon DEF Injection, IsInjective
<1>5. IsFiniteSet(1 .. K) /\ Cardinality(1 .. K) = K
    <2>1. 1 \in Int /\ K \in Int
        OBVIOUS
    <2>2. IsFiniteSet(1 .. K) /\ Cardinality(1 .. K) = IF 1 > K THEN 0 ELSE K - 1 + 1
        BY <2>1, FS_Interval
    <2> QED
        BY <2>2
<1> HIDE DEF f
<1> QED
    BY <1>2, <1>4, <1>5, FS_Surjection

(* What is emitted.                                                        *)
LEMMA EmittedRows ==
    ASSUME Reducing, Grouped, Emit
    PROVE  /\ RowsAt(result') = ExpectedRows
           /\ Cardinality(RowsAt(result')) = Len(result'.values)
           /\ \A i, j \in DOMAIN result'.values : result'.nums[i] = result'.nums[j] => i = j
<1> DEFINE r == result'
           K == Cardinality(Found)
<1>1. /\ r.keys = [j \in 1 .. K |-> KeyShown(Nth(Found, j))]
      /\ r.nums = [j \in 1 .. K |-> NumOf(Nth(Found, j))]
      /\ r.counts = [j \in 1 .. K |-> Merged[Nth(Found, j)].count]
      /\ r.values = [j \in 1 .. K |-> AggValue(Merged[Nth(Found, j)])]
    BY EmittedVectors
<1>2. PICK m \in Nat : DOMAIN Merged = 1 .. m /\ Found \subseteq 1 .. m
    BY FoundCount DEF Reducing
<1>3. /\ K \in Nat
      /\ \A j \in 1 .. K : Nth(Found, j) \in Found /\ Rank(Found, Nth(Found, j)) = j
    BY <1>2, RankType, NthExists
<1>4. \A g \in Found : Rank(Found, g) \in 1 .. K /\ Nth(Found, Rank(Found, g)) = g
    BY <1>2, NthOfRank
<1>5. Found \subseteq DOMAIN GroupKeys
    BY FoundGroups
<1> HIDE DEF r, K
<1>6. ASSUME NEW j \in 1 .. K PROVE RowAt(r, j) = RowFor(Nth(Found, j))
    <2> DEFINE g == Nth(Found, j)
    <2>1. g \in DOMAIN GroupKeys
        BY <1>3, <1>5
    <2>2. /\ r.keys[j] = KeyShown(g) /\ r.nums[j] = NumOf(g)
          /\ r.counts[j] = Merged[g].count /\ r.values[j] = AggValue(Merged[g])
        BY <1>1
    <2> HIDE DEF g
    <2>3. Merged[g].count = Cardinality(RowsIn(g)) /\ AggValue(Merged[g]) = Expected(RowsIn(g))
        BY <2>1, GroupMerged
    <2>4. RowAt(r, j) = RowFor(g)
        BY <2>2, <2>3, Zenon DEF RowAt, RowFor
    <2> QED
        BY <2>4 DEF g
<1>7. DOMAIN r.values = 1 .. K
    BY <1>1
<1>8. RowsAt(r) = {RowFor(g) : g \in Found}
    <2>1. \A x : x \in RowsAt(r) <=> \E j \in 1 .. K : x = RowFor(Nth(Found, j))
        BY <1>6, <1>7 DEF RowsAt
    <2>2. \A x : (\E j \in 1 .. K : x = RowFor(Nth(Found, j))) <=> \E g \in Found : x = RowFor(g)
        BY <1>3, <1>4
    <2> QED
        BY <2>1, <2>2
<1>9. ASSUME NEW i \in 1 .. K, NEW j \in 1 .. K, r.nums[i] = r.nums[j] PROVE i = j
    <2>1. NumOf(Nth(Found, i)) = NumOf(Nth(Found, j))
        BY <1>1, <1>9
    <2>2. Nth(Found, i) = Nth(Found, j)
        BY <1>3, <1>5, <2>1, LabelsDiffer
    <2> QED
        BY <1>3, <2>2
<1>10. Len(r.values) = K
    <2>1. Vector(r.values, K)
        BY <1>1 DEF Vector
    <2> QED
        BY <1>3, <2>1, VectorLength
<1>11. Cardinality(RowsAt(r)) = K
    BY <1>3, <1>7, <1>9, RowsCount
<1>12. RowsAt(r) = ExpectedRows
    BY <1>8, ExpectedAre
<1> QED
    BY <1>7, <1>9, <1>10, <1>11, <1>12 DEF r

-----------------------------------------------------------------------------
(* The answer.                                                             *)

ExpectedCount == Cardinality(Selected)
ExpectedValue == Expected(Selected)

LEMMA AnswerForm ==
    AnswerIsAggregate <=>
        (Answered =>
            IF Grouped
            THEN RowsAt(result) = ExpectedRows /\ Cardinality(RowsAt(result)) = Len(result.values)
            ELSE /\ result.counts = <<ExpectedCount>> \/ MiscountsRows
                 /\ \/ result.values = <<ExpectedValue>>
                    \/ GatesNonFinite /\ result.values = <<NaN>>
                    \/ MiscountsRows /\ agg \in {"Count", "Avg"}
                    \/ MiscountsRows /\ agg \in {"Min", "Max"} /\ result.values = <<0>>)
<1>1. ResultRows = RowsAt(result)
    BY Zenon DEF ResultRows, RowsAt, RowAt
<1> QED
    BY <1>1, Zenon DEF AnswerIsAggregate, ExpectedRows, RowWith, RowsWith,
        ExpectedCount, ExpectedValue

(* What is expected stays once the query runs.                             *)
LEMMA ExpectedStays ==
    ASSUME UNCHANGED <<built, agg, metric>>
    PROVE  /\ ExpectedRows' = ExpectedRows /\ ExpectedCount' = ExpectedCount
           /\ ExpectedValue' = ExpectedValue
           /\ MiscountsRows' = MiscountsRows /\ GatesNonFinite' = GatesNonFinite
           /\ Grouped' = Grouped /\ agg' = agg
<1>1. /\ table' = table /\ via' = via /\ preds' = preds /\ group' = group
      /\ threads' = threads /\ agg' = agg /\ metric' = metric
    BY DEF built
<1>2. Grouped' = Grouped /\ ReduceTasks' = ReduceTasks /\ Rows' = Rows
    BY <1>1 DEF Grouped, ReduceTasks, Pooled, Partitions, NumRows, Rows
<1>3. Selected' = Selected
    BY <1>1, Zenon DEF Selected, Matches, Holds, Rows, NumRows
<1>4. ASSUME NEW i PROVE Label(i)' = Label(i)
    BY <1>1, Zenon DEF Label, GroupColumn, ByCode
<1>5. ExpectedCount' = ExpectedCount /\ ExpectedValue' = ExpectedValue
    BY <1>1, <1>3, Zenon DEF ExpectedCount, ExpectedValue, Expected
<1>6. MiscountsRows' = MiscountsRows
    BY <1>1, <1>2, Zenon DEF MiscountsRows
<1>7. GatesNonFinite' = GatesNonFinite
    BY <1>1, <1>2, <1>3, Zenon DEF GatesNonFinite
<1>8. ExpectedRows' = ExpectedRows
    <2>1. ASSUME NEW l PROVE RowsWith(l)' = RowsWith(l)
        BY <1>3, <1>4, Zenon DEF RowsWith
    <2>2. ASSUME NEW l PROVE RowWith(l)' = RowWith(l)
        BY <1>1, <2>1, Zenon DEF RowWith, Expected
    <2> QED
        BY <1>3, <1>4, <2>2, Zenon DEF ExpectedRows
<1> QED
    BY <1>1, <1>2, <1>5, <1>6, <1>7, <1>8

(* AnswerForm a step later, when what is expected has stayed.              *)
LEMMA AnswerThen ==
    ASSUME UNCHANGED <<built, agg, metric>>
    PROVE  AnswerIsAggregate' <=>
            (Answered' =>
                IF Grouped
                THEN /\ RowsAt(result') = ExpectedRows
                     /\ Cardinality(RowsAt(result')) = Len(result'.values)
                ELSE /\ result'.counts = <<ExpectedCount>> \/ MiscountsRows
                     /\ \/ result'.values = <<ExpectedValue>>
                        \/ GatesNonFinite /\ result'.values = <<NaN>>
                        \/ MiscountsRows /\ agg \in {"Count", "Avg"}
                        \/ MiscountsRows /\ agg \in {"Min", "Max"} /\ result'.values = <<0>>)
<1>1. AnswerIsAggregate' <=>
        (Answered' =>
            IF Grouped'
            THEN /\ RowsAt(result') = ExpectedRows'
                 /\ Cardinality(RowsAt(result')) = Len(result'.values)
            ELSE /\ result'.counts = <<ExpectedCount'>> \/ MiscountsRows'
                 /\ \/ result'.values = <<ExpectedValue'>>
                    \/ GatesNonFinite' /\ result'.values = <<NaN>>
                    \/ MiscountsRows' /\ agg' \in {"Count", "Avg"}
                    \/ MiscountsRows' /\ agg' \in {"Min", "Max"} /\ result'.values = <<0>>)
    <2>1. ResultRows' = RowsAt(result')
        BY Zenon DEF ResultRows, RowsAt, RowAt
    <2> QED
        BY <2>1, Zenon DEF AnswerIsAggregate, ExpectedRows, RowWith, RowsWith,
            ExpectedCount, ExpectedValue
<1>2. /\ ExpectedRows' = ExpectedRows /\ ExpectedCount' = ExpectedCount
      /\ ExpectedValue' = ExpectedValue
      /\ MiscountsRows' = MiscountsRows /\ GatesNonFinite' = GatesNonFinite
      /\ Grouped' = Grouped /\ agg' = agg
    BY ExpectedStays
<1> QED
    BY <1>1, <1>2

LEMMA EmitAnswers ==
    ASSUME RunInv, Emit
    PROVE  AnswerIsAggregate'
<1>1. Reducing /\ UNCHANGED <<built, agg, metric>>
    BY DEF Emit, Reducing
<1>2. CASE Grouped
    BY <1>1, <1>2, AnswerThen, EmittedRows
<1>3. CASE ~Grouped
    <2>1. Found = {1} /\ Cardinality(Found) = 1
        BY <1>1, <1>3, FoundCount DEF Reducing
    <2>2. Nth(Found, 1) = 1
        <3>1. 1 \in 1 .. Cardinality(Found) /\ Found \subseteq 1 .. 1 /\ 1 \in Nat
            BY <2>1
        <3>2. Nth(Found, 1) \in Found
            BY <3>1, NthExists
        <3> QED
            BY <2>1, <3>2
    <2> DEFINE count(j) == Merged[Nth(Found, j)].count
               value(j) == AggValue(Merged[Nth(Found, j)])
    <2>3. /\ result'.counts = [j \in 1 .. 1 |-> count(j)]
          /\ result'.values = [j \in 1 .. 1 |-> value(j)]
        BY <2>1, EmittedVectors
    <2>4. count(1) = Merged[1].count /\ value(1) = AggValue(Merged[1])
        BY <2>2
    <2> HIDE DEF count, value
    <2>5. result'.counts = <<Merged[1].count>> /\ result'.values = <<AggValue(Merged[1])>>
        BY <2>3, <2>4
    <2>6. /\ Merged[1].count = ExpectedCount \/ MiscountsRows
          /\ \/ AggValue(Merged[1]) = ExpectedValue
             \/ GatesNonFinite /\ AggValue(Merged[1]) = NaN
             \/ MiscountsRows /\ agg \in {"Count", "Avg"}
             \/ MiscountsRows /\ agg \in {"Min", "Max"} /\ AggValue(Merged[1]) = 0
        BY <1>1, <1>3, GlobalAnswer DEF ExpectedCount, ExpectedValue
    <2>7. /\ result'.counts = <<ExpectedCount>> \/ MiscountsRows
          /\ \/ result'.values = <<ExpectedValue>>
             \/ GatesNonFinite /\ result'.values = <<NaN>>
             \/ MiscountsRows /\ agg \in {"Count", "Avg"}
             \/ MiscountsRows /\ agg \in {"Min", "Max"} /\ result'.values = <<0>>
        BY <2>5, <2>6
    <2> QED
        BY <1>1, <1>3, <2>7, AnswerThen
<1> QED
    BY <1>2, <1>3

(* An order is a permutation.                                              *)
LEMMA OrdersAreOnto ==
    ASSUME NEW K \in Nat, NEW p \in Orders(K)
    PROVE  /\ p \in [1 .. K -> 1 .. K]
           /\ \A j \in 1 .. K : \E i \in 1 .. K : p[i] = j
<1>1. p \in [1 .. K -> 1 .. K] /\ \A i, j \in 1 .. K : p[i] = p[j] => i = j
    BY DEF Orders
<1>2. p \in Injection(1 .. K, 1 .. K)
    BY <1>1, Zenon DEF Injection, IsInjective
<1>3. IsFiniteSet(1 .. K)
    <2>1. 1 \in Int /\ K \in Int
        OBVIOUS
    <2> QED
        BY <2>1, FS_Interval
<1>4. p \in Surjection(1 .. K, 1 .. K)
    BY <1>2, <1>3, FS_Injection
<1> QED
    BY <1>1, <1>4, Zenon DEF Surjection

(* Sorting puts the rows of the result in another order.                   *)
LEMMA SortAnswers ==
    ASSUME RunInv, AnswerIsAggregate, Sort
    PROVE  AnswerIsAggregate'
<1>1. PICK p \in Orders(Len(result.values)) : result' = SortByValueDesc(result, p)
    BY DEF Sort
<1>2. /\ qpc = "done" /\ qpc' = "sorted" /\ UNCHANGED <<built, agg, metric>>
    BY DEF Sort, running
<1>3. PICK K \in Nat :
        /\ Vector(result.values, K) /\ Vector(result.counts, K)
        /\ Vector(result.keys, IF Grouped THEN K ELSE 0)
        /\ Vector(result.nums, IF Grouped THEN K ELSE 0)
        /\ ~Grouped => K = 1
    BY <1>2 DEF RunInv, Vectors, Answered
<1>4. Len(result.values) = K
    BY <1>3, VectorLength
<1>5. /\ p \in [1 .. K -> 1 .. K]
      /\ \A j \in 1 .. K : \E i \in 1 .. K : p[i] = j
    BY <1>1, <1>4, OrdersAreOnto
<1>6. /\ result'.keys = Reorder(result.keys, p) /\ result'.nums = Reorder(result.nums, p)
      /\ result'.counts = Reorder(result.counts, p)
      /\ result'.values = Reorder(result.values, p)
    <2> DEFINE keys == Reorder(result.keys, p)
               nums == Reorder(result.nums, p)
               counts == Reorder(result.counts, p)
               values == Reorder(result.values, p)
    <2>1. result' = [keys |-> keys, nums |-> nums, counts |-> counts, values |-> values,
                     grouped |-> result.grouped]
        BY <1>1, Zenon DEF SortByValueDesc
    <2> HIDE DEF keys, nums, counts, values
    <2>2. /\ result'.keys = keys /\ result'.nums = nums /\ result'.counts = counts
          /\ result'.values = values
        BY <2>1
    <2> QED
        BY <2>2 DEF keys, nums, counts, values
<1>7. ASSUME NEW v, Vector(v, K)
      PROVE  /\ DOMAIN v = 1 .. K /\ Vector(Reorder(v, p), K)
             /\ \A j \in 1 .. K : Reorder(v, p)[j] = v[p[j]]
    <2>1. DOMAIN v = 1 .. K
        BY <1>7, Zenon DEF Vector
    <2> QED
        BY <2>1, Zenon DEF Vector, Reorder
<1>8. Answered
    BY <1>2 DEF Answered
<1>9. CASE Grouped
    <2>1. Vector(result.keys, K) /\ Vector(result.nums, K)
        BY <1>3, <1>9
    <2>2. ASSUME NEW j \in 1 .. K PROVE RowAt(result', j) = RowAt(result, p[j])
        <3>1. /\ result'.keys[j] = result.keys[p[j]] /\ result'.nums[j] = result.nums[p[j]]
              /\ result'.counts[j] = result.counts[p[j]]
              /\ result'.values[j] = result.values[p[j]]
            BY <1>3, <1>6, <1>7, <2>1
        <3> QED
            BY <3>1, Zenon DEF RowAt
    <2>3. DOMAIN result.values = 1 .. K /\ Vector(result'.values, K)
        BY <1>3, <1>6, <1>7
    <2>4. DOMAIN result'.values = 1 .. K /\ Len(result'.values) = K
        BY <2>3, VectorLength DEF Vector
    <2>5. RowsAt(result') = RowsAt(result)
        <3>1. \A x : x \in RowsAt(result') <=> \E j \in 1 .. K : x = RowAt(result, p[j])
            BY <2>2, <2>4 DEF RowsAt
        <3>2. \A x : x \in RowsAt(result) <=> \E j \in 1 .. K : x = RowAt(result, j)
            BY <2>3 DEF RowsAt
        <3>3. \A x : (\E j \in 1 .. K : x = RowAt(result, p[j]))
                        <=> \E j \in 1 .. K : x = RowAt(result, j)
            BY <1>5
        <3> QED
            BY <3>1, <3>2, <3>3
    <2>6. /\ RowsAt(result) = ExpectedRows
          /\ Cardinality(RowsAt(result)) = Len(result.values)
        BY <1>8, <1>9, AnswerForm
    <2> QED
        BY <1>2, <1>4, <1>9, <2>4, <2>5, <2>6, AnswerThen
<1>10. CASE ~Grouped
    <2>1. K = 1
        BY <1>3, <1>10
    <2>2. ASSUME NEW v, Vector(v, K) PROVE Reorder(v, p) = v
        <3>1. \A j \in 1 .. K : p[j] = j
            BY <1>5, <2>1
        <3>2. /\ Reorder(v, p) = [j \in 1 .. K |-> Reorder(v, p)[j]]
              /\ v = [j \in 1 .. K |-> v[j]]
            BY <1>7, <2>2, Zenon DEF Vector
        <3>3. \A j \in 1 .. K : Reorder(v, p)[j] = v[j]
            BY <1>7, <2>2, <3>1
        <3> QED
            BY <3>2, <3>3
    <2>3. result'.counts = result.counts /\ result'.values = result.values
        BY <1>3, <1>6, <2>2
    <2>4. /\ result.counts = <<ExpectedCount>> \/ MiscountsRows
          /\ \/ result.values = <<ExpectedValue>>
             \/ GatesNonFinite /\ result.values = <<NaN>>
             \/ MiscountsRows /\ agg \in {"Count", "Avg"}
             \/ MiscountsRows /\ agg \in {"Min", "Max"} /\ result.values = <<0>>
        BY <1>8, <1>10, AnswerForm
    <2> QED
        BY <1>2, <1>10, <2>3, <2>4, AnswerThen
<1> QED
    BY <1>9, <1>10

LEMMA ShowAnswers ==
    ASSUME AnswerIsAggregate, Vectors,
           HandOut \/ CliPrint \/ UNCHANGED queryVars
    PROVE  AnswerIsAggregate'
<1>1. UNCHANGED <<built, agg, metric>> /\ result' = result
    BY DEF HandOut, CliPrint, queryVars, running, shown
<1>2. Answered' => Answered
    BY DEF HandOut, CliPrint, Answered, queryVars
<1> QED
    BY <1>1, <1>2, AnswerForm, AnswerThen

LEMMA NoAnswerYet ==
    ASSUME RunInv, \/ Build \/ Start \/ StartReduce \/ AskTable
                   \/ \E t \in todo : FilterTask(t) \/ ReduceTask(t)
    PROVE  AnswerIsAggregate'
<1>1. ~Answered'
    <2>1. CASE AskTable
        BY <2>1 DEF AskTable, Ask, Answered
    <2>2. CASE Build
        BY <2>2 DEF Build, Filter, CliWhere, PyFilter, GroupBy, Threads, Answered
    <2>3. CASE Start
        BY <2>3 DEF Start, Answered
    <2>4. CASE StartReduce
        BY <2>4 DEF StartReduce, Answered
    <2>5. ASSUME NEW t \in todo, FilterTask(t) \/ ReduceTask(t) PROVE ~Answered'
        BY <2>5 DEF FilterTask, ReduceTask, Answered
    <2> QED
        BY <2>1, <2>2, <2>3, <2>4, <2>5
<1> QED
    BY <1>1, Zenon DEF AnswerIsAggregate

LEMMA AnswersNext ==
    ASSUME RunInv, AnswerIsAggregate, [Next]_vars
    PROVE  AnswerIsAggregate'
<1>1. \/ AskTable \/ QueryNext \/ UNCHANGED queryVars
    BY Zenon DEF Next, Load, Query, Finished, vars
<1>2. Vectors
    BY DEF RunInv
<1>3. CASE QueryNext
    <2>1. \/ Build \/ Start \/ StartReduce \/ Emit \/ Sort \/ HandOut \/ CliPrint
          \/ \E t \in todo : FilterTask(t) \/ ReduceTask(t)
        BY <1>3, Zenon DEF QueryNext, Run
    <2> QED
        BY <1>2, <2>1, NoAnswerYet, EmitAnswers, SortAnswers, ShowAnswers
<1> QED
    BY <1>1, <1>2, <1>3, NoAnswerYet, ShowAnswers

(* Whatever the table, the query and the number of threads, and in any     *)
(* order in which the tasks of agg() run, the answer is the aggregate of   *)
(* the rows that satisfy the predicates, but for the miscounted rows and   *)
(* the sums over values that are not finite that the property names.       *)
THEOREM Answers == Spec => []AnswerIsAggregate
<1>1. Init => AnswerIsAggregate
    BY Zenon DEF Init, QueryInit, AnswerIsAggregate, Answered
<1>2. RunInv /\ AnswerIsAggregate /\ [Next]_vars => AnswerIsAggregate'
    BY AnswersNext
<1> QED
    BY <1>1, <1>2, RunInvariant, PTL DEF Spec
=============================================================================
