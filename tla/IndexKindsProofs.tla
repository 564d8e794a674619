---------------------------- MODULE IndexKindsProofs ----------------------------
(***************************************************************************)
(* Proofs about IndexKinds: for any column, fill value, chunk length and   *)
(* bounds, pruning loses no match, the binary searches over SORTED_ROWS    *)
(* find exactly the matches, and a bitmap answers exactly or not at all.   *)
(* They begin with lemmas on numbers, finite sets, recursion and sorting;  *)
(* induction over the naturals is by a set, which needs no operator        *)
(* parameter.                                                              *)
(***************************************************************************)
EXTENDS IndexKinds, FiniteSetTheorems, SequenceTheorems, WellFoundedInduction, TLAPS

-----------------------------------------------------------------------------
(* Induction, recursive functions and finite sets.                         *)

\* A nonempty set of naturals has a least element.
LEMMA LeastNat ==
  ASSUME NEW T, T \subseteq Nat, T # {}
  PROVE  \E x \in T : \A y \in T : x <= y
<1>1. IsWellFoundedOn(OpToRel(<, Nat), Nat)
  BY NatLessThanWellFounded, Zenon
<1>2. PICK x \in T : \A y \in T : ~(<<y, x>> \in OpToRel(<, Nat))
  BY <1>1, WFMin, Zenon
<1>3. \A y \in T : ~(y < x)
  BY <1>2, Zenon DEF OpToRel
<1> QED BY <1>3

\* A set with 0 and the successor of each of its naturals has all naturals.
LEMMA NatSetInduction ==
  ASSUME NEW S, 0 \in S, \A n \in Nat : n \in S => n + 1 \in S
  PROVE  Nat \subseteq S
<1> SUFFICES ASSUME Nat \ S # {} PROVE FALSE
  OBVIOUS
<1>1. PICK x \in Nat \ S : \A y \in Nat \ S : x <= y
  BY LeastNat
<1>2. x # 0 /\ x - 1 \in Nat /\ x - 1 \in S
  BY <1>1
<1> QED BY <1>1, <1>2

\* A set has every x of S if it has x as soon as it has all that measure less.
LEMMA MeasureInduction ==
  ASSUME NEW S, NEW bound \in Nat, NEW measure \in [S -> 0..bound], NEW P,
         \A x \in S : (\A y \in S : measure[y] < measure[x] => y \in P) => x \in P
  PROVE  S \subseteq P
<1> DEFINE N == {n \in Nat : \A x \in S : measure[x] < n => x \in P}
<1>1. 0 \in N
  OBVIOUS
<1>2. ASSUME NEW n \in Nat, n \in N PROVE n + 1 \in N
  <2> SUFFICES ASSUME NEW x \in S, measure[x] < n + 1 PROVE x \in P
    OBVIOUS
  <2>1. ASSUME NEW y \in S, measure[y] < measure[x] PROVE y \in P
    <3>1. measure[x] \in Nat /\ measure[y] \in Nat
      OBVIOUS
    <3>2. measure[y] < n
      BY <2>1, <3>1
    <3> QED BY <3>2, <1>2
  <2> QED BY <2>1
<1>3. bound + 1 \in N
  <2>1. Nat \subseteq N
    <3> HIDE DEF N
    <3> QED BY <1>1, <1>2, NatSetInduction
  <2> HIDE DEF N
  <2> QED BY <2>1
<1>4. \A x \in S : measure[x] < bound + 1
  OBVIOUS
<1> QED BY <1>3, <1>4

\* F sends functions to functions, and the value of F[f] at x depends only on
\* the values of f at arguments of less measure.
LooksDown(S, X, measure, F) ==
  /\ F \in [[S -> X] -> [S -> X]]
  /\ \A f, g \in [S -> X] : \A x \in S :
       (\A y \in S : measure[y] < measure[x] => f[y] = g[y]) => F[f][x] = F[g][x]

\* Such an F has a fixed point, which is the function its recursion defines.
LEMMA BoundedRecursion ==
  ASSUME NEW S, NEW X, NEW bound \in Nat, NEW measure \in [S -> 0..bound], NEW F,
         [S -> X] # {}, LooksDown(S, X, measure, F)
  PROVE  \E f \in [S -> X] : f = F[f]
<1> USE DEF LooksDown
<1> DEFINE Right(f, n) == \A x \in S : measure[x] < n => f[x] = F[f][x]
           N == {n \in Nat : \E f \in [S -> X] : Right(f, n)}
<1>1. 0 \in N
  <2>1. PICK f : f \in [S -> X]
    OBVIOUS
  <2>2. Right(f, 0)
    OBVIOUS
  <2> QED BY <2>1, <2>2
<1>2. ASSUME NEW n \in Nat, n \in N PROVE n + 1 \in N
  <2>1. PICK f \in [S -> X] : Right(f, n)
    BY <1>2
  <2>2. F[f] \in [S -> X]
    OBVIOUS
  <2>3. ASSUME NEW x \in S, measure[x] < n + 1 PROVE F[f][x] = F[F[f]][x]
    <3>1. \A y \in S : measure[y] < measure[x] => f[y] = F[f][y]
      <4> TAKE y \in S
      <4>1. measure[x] \in Nat /\ measure[y] \in Nat
        OBVIOUS
      <4> QED BY <4>1, <2>1, <2>3
    <3> QED BY <3>1, <2>2
  <2>4. Right(F[f], n + 1)
    BY <2>3
  <2> QED BY <2>2, <2>4
<1>3. Nat \subseteq N
  <2> HIDE DEF N
  <2> QED BY <1>1, <1>2, NatSetInduction
<1>4. bound + 1 \in N
  <2> HIDE DEF N
  <2> QED BY <1>3
<1>5. PICK f \in [S -> X] : Right(f, bound + 1)
  BY <1>4
<1>6. \A x \in S : measure[x] < bound + 1
  OBVIOUS
<1>7. \A x \in S : f[x] = F[f][x]
  BY <1>5, <1>6
<1> QED BY <1>7

\* A proper subset of a finite set has fewer elements.
LEMMA StrictSubset ==
  ASSUME NEW S, IsFiniteSet(S), NEW T, T \subseteq S, T # S
  PROVE  /\ IsFiniteSet(T) /\ Cardinality(T) \in Nat /\ Cardinality(S) \in Nat
         /\ Cardinality(T) < Cardinality(S)
<1>1. T \in SUBSET S
  OBVIOUS
<1>2. /\ IsFiniteSet(T) /\ Cardinality(T) <= Cardinality(S)
      /\ Cardinality(S) = Cardinality(T) => S = T
  BY <1>1, FS_Subset
<1>3. Cardinality(T) \in Nat /\ Cardinality(S) \in Nat
  BY <1>2, FS_CardinalityType
<1> QED BY <1>2, <1>3

\* Disjoint finite sets add up.
LEMMA DisjointSum ==
  ASSUME NEW S, IsFiniteSet(S), NEW T, IsFiniteSet(T), S \cap T = {}
  PROVE  /\ IsFiniteSet(S \cup T)
         /\ Cardinality(S) \in Nat /\ Cardinality(T) \in Nat
         /\ Cardinality(S \cup T) = Cardinality(S) + Cardinality(T)
<1>1. Cardinality(S) \in Nat /\ Cardinality(T) \in Nat
  BY FS_CardinalityType
<1>2. /\ IsFiniteSet(S \cup T)
      /\ Cardinality(S \cup T) = Cardinality(S) + Cardinality(T) - Cardinality(S \cap T)
  BY FS_Union
<1>3. Cardinality(S \cap T) = 0
  BY FS_EmptySet
<1> QED BY <1>1, <1>2, <1>3

\* A finite nonempty set of integers has a least and a greatest element: the
\* one with the fewest elements under it, and over it.
LEMMA Extremes ==
  ASSUME NEW T, T \subseteq Int, IsFiniteSet(T), T # {}
  PROVE  /\ \E x \in T : \A y \in T : x <= y
         /\ \E x \in T : \A y \in T : x >= y
<1> DEFINE Under == [x \in T |-> {z \in T : z < x}]
           Over  == [x \in T |-> {z \in T : z > x}]
<1>1. \A x \in T : /\ IsFiniteSet(Under[x]) /\ IsFiniteSet(Over[x])
                   /\ Cardinality(Under[x]) \in Nat /\ Cardinality(Over[x]) \in Nat
  <2> SUFFICES ASSUME NEW x \in T
               PROVE /\ IsFiniteSet(Under[x]) /\ IsFiniteSet(Over[x])
                     /\ Cardinality(Under[x]) \in Nat /\ Cardinality(Over[x]) \in Nat
    OBVIOUS
  <2>1. Under[x] \subseteq T /\ Over[x] \subseteq T
    OBVIOUS
  <2> QED BY <2>1, FS_Subset, FS_CardinalityType
<1>2. \A x, y \in T : y < x => Cardinality(Under[y]) < Cardinality(Under[x])
  <2> SUFFICES ASSUME NEW x \in T, NEW y \in T, y < x
               PROVE Cardinality(Under[y]) < Cardinality(Under[x])
    OBVIOUS
  <2>1. x \in Int /\ y \in Int
    OBVIOUS
  <2>2. \A z \in T : z \in Under[y] => z \in Under[x]
    <3> SUFFICES ASSUME NEW z \in T, z < y PROVE z < x
      OBVIOUS
    <3>1. z \in Int
      OBVIOUS
    <3> QED BY <3>1, <2>1
  <2>3. y \in Under[x] /\ y \notin Under[y]
    BY <2>1
  <2>4. Under[y] \subseteq Under[x] /\ Under[y] # Under[x]
    BY <2>2, <2>3
  <2> HIDE DEF Under
  <2> QED BY <2>4, <1>1, StrictSubset
<1>3. \A x, y \in T : y > x => Cardinality(Over[y]) < Cardinality(Over[x])
  <2> SUFFICES ASSUME NEW x \in T, NEW y \in T, y > x
               PROVE Cardinality(Over[y]) < Cardinality(Over[x])
    OBVIOUS
  <2>1. x \in Int /\ y \in Int
    OBVIOUS
  <2>2. \A z \in T : z \in Over[y] => z \in Over[x]
    <3> SUFFICES ASSUME NEW z \in T, z > y PROVE z > x
      OBVIOUS
    <3>1. z \in Int
      OBVIOUS
    <3> QED BY <3>1, <2>1
  <2>3. y \in Over[x] /\ y \notin Over[y]
    BY <2>1
  <2>4. Over[y] \subseteq Over[x] /\ Over[y] # Over[x]
    BY <2>2, <2>3
  <2> HIDE DEF Over
  <2> QED BY <2>4, <1>1, StrictSubset
<1> HIDE DEF Under, Over
<1>4. \E x \in T : \A y \in T : x <= y
  <2> DEFINE C == {Cardinality(Under[x]) : x \in T}
  <2>1. C \subseteq Nat /\ C # {}
    BY <1>1
  <2>2. \E c \in C : \A d \in C : c <= d
    <3> HIDE DEF C
    <3> QED BY <2>1, LeastNat
  <2>3. PICK x \in T : \A y \in T : Cardinality(Under[x]) <= Cardinality(Under[y])
    BY <2>2
  <2>4. \A y \in T : ~(y < x)
    BY <2>3, <1>1, <1>2
  <2> QED BY <2>4
<1>5. \E x \in T : \A y \in T : x >= y
  <2> DEFINE C == {Cardinality(Over[x]) : x \in T}
  <2>1. C \subseteq Nat /\ C # {}
    BY <1>1
  <2>2. \E c \in C : \A d \in C : c <= d
    <3> HIDE DEF C
    <3> QED BY <2>1, LeastNat
  <2>3. PICK x \in T : \A y \in T : Cardinality(Over[x]) <= Cardinality(Over[y])
    BY <2>2
  <2>4. \A y \in T : ~(y > x)
    BY <2>3, <1>1, <1>3
  <2> QED BY <2>4
<1> QED BY <1>4, <1>5

-----------------------------------------------------------------------------
(* Sorting.                                                                *)

\* Which of two members comes first.
Before(key, s, r) == key[s] < key[r] \/ (key[s] = key[r] /\ s < r)

\* A list of all of a set by ascending key.
SortedBy(list, S, key) ==
  /\ list \in [1..Cardinality(S) -> S]
  /\ \A r \in S : \E i \in 1..Cardinality(S) : list[i] = r
  /\ \A i, j \in 1..Cardinality(S) : i <= j => key[list[i]] <= key[list[j]]

\* Ordered lists every row of a set once, by ascending key: the number of rows
\* that come before a row is different for every row, so it takes every value.
LEMMA OrderedList ==
  ASSUME NEW S, S \subseteq Int, IsFiniteSet(S), NEW key, \A s \in S : key[s] \in Int
  PROVE  /\ Cardinality(S) \in Nat
         /\ Ordered(S, key) \in [1..Cardinality(S) -> S]
         /\ SortedBy(Ordered(S, key), S, key)
         /\ \A i \in 1..Cardinality(S) :
              Cardinality({s \in S : Before(key, s, Ordered(S, key)[i])}) = i - 1
<1> DEFINE Under == [r \in S |-> {s \in S : Before(key, s, r)}]
           rank  == [r \in S |-> Cardinality(Under[r])]
           size  == Cardinality(S)
           O     == Ordered(S, key)
<1>1. IsFiniteSet(S) /\ size \in Nat
  BY FS_CardinalityType
<1>2. \A r \in S : r \in Int /\ key[r] \in Int
  OBVIOUS
<1>3. ASSUME NEW r \in S PROVE rank[r] \in 0..(size - 1) /\ IsFiniteSet(Under[r])
  <2>1. Under[r] \subseteq S
    OBVIOUS
  <2>2. r \notin Under[r]
    BY <1>2 DEF Before
  <2>3. IsFiniteSet(Under[r]) /\ Cardinality(Under[r]) \in Nat /\ Cardinality(Under[r]) < size
    <3> HIDE DEF Under
    <3> QED BY <2>1, <2>2, <1>1, StrictSubset
  <2> HIDE DEF Under, size
  <2> QED BY <2>3, <1>1
<1>4. ASSUME NEW s \in S, NEW r \in S, Before(key, s, r) PROVE rank[s] < rank[r]
  <2>1. ASSUME NEW q \in S, Before(key, q, s) PROVE Before(key, q, r)
    BY <1>2, <1>4, <2>1 DEF Before
  <2>2. Under[s] \subseteq Under[r]
    BY <2>1
  <2>3. s \in Under[r] /\ s \notin Under[s]
    BY <1>2, <1>4 DEF Before
  <2>4. Cardinality(Under[s]) < Cardinality(Under[r])
    <3> HIDE DEF Under
    <3> QED BY <2>2, <2>3, <1>3, StrictSubset
  <2> QED BY <2>4
<1>5. ASSUME NEW s \in S, NEW r \in S, rank[s] = rank[r] PROVE s = r
  <2>1. Before(key, s, r) \/ Before(key, r, s) \/ s = r
    BY <1>2 DEF Before
  <2>2. rank[s] \in Int /\ rank[r] \in Int
    BY <1>3
  <2> HIDE DEF rank
  <2> QED BY <2>1, <2>2, <1>4, <1>5
<1> HIDE DEF Under, rank
<1>6. rank \in Surjection(S, 0..(size - 1))
  <2>1. rank \in Injection(S, 0..(size - 1))
    BY <1>3, <1>5 DEF Injection, IsInjective, rank
  <2>2. IsFiniteSet(0..(size - 1)) /\ Cardinality(0..(size - 1)) = size
    <3> HIDE DEF size
    <3> QED BY <1>1, FS_Interval
  <2> QED BY <2>1, <2>2, <1>1, FS_Injection
<1>7. \A r \in S : rank[r] = Cardinality({s \in S : Before(key, s, r)})
  BY DEF rank, Under
<1>8. O = [i \in 1..size |-> CHOOSE r \in S : Cardinality({s \in S : Before(key, s, r)}) = i - 1]
  BY DEF Ordered, Before
<1> HIDE DEF O, size
<1>9. ASSUME NEW i \in 1..size PROVE O[i] \in S /\ rank[O[i]] = i - 1
  <2>1. i - 1 \in 0..(size - 1)
    BY <1>1
  <2>2. \E r \in S : rank[r] = i - 1
    BY <2>1, <1>6 DEF Surjection
  <2>3. \E r \in S : Cardinality({s \in S : Before(key, s, r)}) = i - 1
    BY <2>2, <1>7
  <2>4. O[i] = CHOOSE r \in S : Cardinality({s \in S : Before(key, s, r)}) = i - 1
    BY <1>8
  <2>5. O[i] \in S /\ Cardinality({s \in S : Before(key, s, O[i])}) = i - 1
    BY <2>3, <2>4
  <2> QED BY <2>5, <1>7
<1>10. O \in [1..size -> S]
  BY <1>8, <1>9
<1>11. ASSUME NEW r \in S PROVE \E i \in 1..size : O[i] = r
  <2>1. rank[r] \in 0..(size - 1)
    BY <1>3
  <2>2. rank[r] + 1 \in 1..size /\ (rank[r] + 1) - 1 = rank[r]
    BY <2>1, <1>1
  <2> QED BY <2>2, <1>9, <1>5
<1>12. ASSUME NEW i \in 1..size, NEW j \in 1..size, i <= j PROVE key[O[i]] <= key[O[j]]
  <2>1. O[i] \in S /\ O[j] \in S /\ rank[O[i]] = i - 1 /\ rank[O[j]] = j - 1
    BY <1>9
  <2>2. ~ Before(key, O[j], O[i])
    <3>1. ~ (j - 1 < i - 1)
      BY <1>12, <1>1
    <3> QED BY <2>1, <3>1, <1>4
  <2>3. key[O[i]] \in Int /\ key[O[j]] \in Int
    BY <2>1, <1>2
  <2> QED BY <2>2, <2>3 DEF Before
<1>13. \A i \in 1..size : Cardinality({s \in S : Before(key, s, O[i])}) = i - 1
  BY <1>7, <1>9
<1> QED BY <1>1, <1>10, <1>11, <1>12, <1>13 DEF O, size, SortedBy

\* Of rows.
LEMMA OrderedRows ==
  ASSUME NEW n \in Nat, NEW S, S \subseteq 1..n, NEW key, \A s \in S : key[s] \in Int
  PROVE  /\ IsFiniteSet(S) /\ Cardinality(S) \in Nat
         /\ Ordered(S, key) \in [1..Cardinality(S) -> S]
         /\ SortedBy(Ordered(S, key), S, key)
<1>1. IsFiniteSet(1..n) /\ S \in SUBSET (1..n)
  BY FS_Interval
<1>2. IsFiniteSet(S) /\ S \subseteq Int
  <2>1. IsFiniteSet(S)
    BY <1>1, FS_Subset
  <2>2. 1..n \subseteq Int
    OBVIOUS
  <2> QED BY <2>1, <2>2
<1> QED BY <1>2, OrderedList

\* A list of as many places as members that has every member has none twice.
LEMMA ListedOnce ==
  ASSUME NEW S, IsFiniteSet(S), NEW key, NEW list, SortedBy(list, S, key),
         NEW i \in 1..Cardinality(S), NEW j \in 1..Cardinality(S), list[i] = list[j]
  PROVE  i = j
<1> DEFINE size == Cardinality(S)
<1>1. size \in Nat
  BY FS_CardinalityType
<1>2. IsFiniteSet(1..size) /\ Cardinality(1..size) = size
  <2> HIDE DEF size
  <2> QED BY <1>1, FS_Interval
<1>3. list \in Surjection(1..size, S)
  BY DEF SortedBy, Surjection
<1>4. list \in Injection(1..size, S)
  <2> HIDE DEF size
  <2> QED BY <1>2, <1>3, FS_Surjection DEF size
<1> QED BY <1>4 DEF Injection, IsInjective

-----------------------------------------------------------------------------
(* CHUNK_MINMAX.                                                           *)

Element   == Int \cup {NaN}
FillValue == Int \cup {NaN, NoFill}
ScalarOps == OrderOps \cup {"=="}

\* The rows an exact index has to answer.
Exact(col, n, fill, op, v) == {r \in 1..n : ~is_missing(col[r], fill) /\ Compare(col[r], op, v)}

\* Quotient and remainder.
LEMMA DivBounds ==
  ASSUME NEW a \in Nat, NEW b \in Nat \ {0}
  PROVE  /\ a \div b \in Nat
         /\ b * (a \div b) <= a /\ a < b * (a \div b) + b
  OBVIOUS

\* A quotient grows with the dividend, by a whole chunk at a time.
LEMMA DivMonotone ==
  ASSUME NEW a \in Nat, NEW c \in Nat, NEW b \in Nat \ {0}, a + b <= c
  PROVE  (a \div b) + 1 <= c \div b
<1> DEFINE x == a \div b
           y == c \div b
<1>1. x \in Nat /\ y \in Nat /\ b * x <= a /\ c < b * y + b
  BY DivBounds
<1>2. b * x + b < b * y + b
  <2> HIDE DEF x, y
  <2> QED BY <1>1
<1>3. b * x < b * y
  <2> HIDE DEF x, y
  <2> QED BY <1>1, <1>2
<1>4. x < y
  <2> HIDE DEF x, y
  <2> SUFFICES ASSUME y <= x PROVE FALSE
    BY <1>1
  <2>1. PICK d \in Nat : x = y + d
    BY <1>1
  <2>2. b * x = b * y + b * d /\ b * d \in Nat /\ b * y \in Nat
    BY <2>1, <1>1
  <2> QED BY <2>2, <1>3
<1> QED BY <1>1, <1>4

\* Every row lies in one of the column's chunks.
LEMMA RowInChunk ==
  ASSUME NEW n \in Nat, NEW r \in 1..n
  PROVE  /\ (r - 1) \div ChunkLen \in 0..(data_chunk_count(n) - 1)
         /\ r \in ChunkRows((r - 1) \div ChunkLen, n)
<1>1. r - 1 \in Nat /\ n + ChunkLen - 1 \in Nat /\ ChunkLen \in Nat \ {0}
      /\ (r - 1) + ChunkLen <= n + ChunkLen - 1
  BY KindsAssumption
<1>2. ((r - 1) \div ChunkLen) + 1 <= (n + ChunkLen - 1) \div ChunkLen
  BY <1>1, DivMonotone
<1>3. (r - 1) \div ChunkLen \in Nat /\ (n + ChunkLen - 1) \div ChunkLen \in Nat
  BY <1>1, DivBounds
<1> QED BY <1>2, <1>3 DEF data_chunk_count, ChunkRows

\* A chunk with a present number is usable, and its bounds enclose the number.
LEMMA ChunkBounds ==
  ASSUME NEW n \in Nat, NEW col, \A r \in 1..n : col[r] \in Element,
         NEW fill \in FillValue, NEW r \in 1..n, Orderable(col[r], fill),
         NEW c \in 0..(data_chunk_count(n) - 1), r \in ChunkRows(c, n)
  PROVE  LET e == compute_chunk_minmax(col, n, fill)[c]
         IN  /\ Usable(e, fill)
             /\ e.min \in Int /\ e.max \in Int
             /\ e.min <= col[r] /\ col[r] <= e.max
<1> DEFINE rows   == ChunkRows(c, n)
           good   == {s \in rows : Orderable(col[s], fill)}
           values == {col[s] : s \in good}
           nans   == {s \in rows : col[s] = NaN}
           fills  == {s \in rows : is_missing(col[s], fill)}
           e      == compute_chunk_minmax(col, n, fill)[c]
<1> SUFFICES /\ Usable(e, fill)
             /\ e.min \in Int /\ e.max \in Int
             /\ e.min <= col[r] /\ col[r] <= e.max
  OBVIOUS
<1>1. e = [min |-> Min(values), max |-> Max(values), nans |-> Cardinality(nans),
           fills |-> Cardinality(fills), n |-> Cardinality(rows)]
  <2>1. values # {}
    OBVIOUS
  <2> QED BY <2>1 DEF compute_chunk_minmax
<1>2. IsFiniteSet(rows) /\ rows \subseteq 1..n
  <2>1. IsFiniteSet(1..n) /\ rows \in SUBSET (1..n)
    BY FS_Interval DEF ChunkRows
  <2> QED BY <2>1, FS_Subset
<1>3. values \subseteq Int /\ IsFiniteSet(values) /\ values # {} /\ col[r] \in values
  <2>1. values \subseteq Int
    <3> SUFFICES ASSUME NEW s \in good PROVE col[s] \in Int
      OBVIOUS
    <3> QED BY <1>2 DEF Orderable, Element
  <2>2. IsFiniteSet(values)
    <3>1. IsFiniteSet(good)
      BY <1>2, FS_Subset
    <3>2. [s \in good |-> col[s]] \in Surjection(good, values)
      BY DEF Surjection
    <3> HIDE DEF good, values
    <3> QED BY <3>1, <3>2, FS_Surjection
  <2> QED BY <2>1, <2>2
<1>4. /\ Min(values) \in values /\ \A x \in values : Min(values) <= x
      /\ Max(values) \in values /\ \A x \in values : Max(values) >= x
  <2> HIDE DEF values
  <2> QED BY <1>3, Extremes DEF Min, Max
<1>5. Usable(e, fill)
  <2>1. /\ nans \subseteq rows /\ fills \subseteq rows /\ r \in rows
        /\ r \notin nans /\ r \notin fills
    BY DEF Orderable
  <2>2. /\ Cardinality(nans \cup fills) < Cardinality(rows)
        /\ Cardinality(nans) < Cardinality(rows) /\ Cardinality(fills) < Cardinality(rows)
        /\ IsFiniteSet(nans) /\ IsFiniteSet(fills)
        /\ Cardinality(nans) \in Nat /\ Cardinality(fills) \in Nat /\ Cardinality(rows) \in Nat
    <3> HIDE DEF nans, fills, rows
    <3>1. nans \cup fills # rows /\ nans # rows /\ fills # rows
          /\ nans \cup fills \subseteq rows
      BY <2>1
    <3> QED BY <1>2, <3>1, <2>1, StrictSubset
  <2>3. CASE fill \notin {NaN, NoFill}
    <3>1. nans \cap fills = {}
      BY <2>3 DEF is_missing
    <3>2. Cardinality(fills) + Cardinality(nans) = Cardinality(nans \cup fills)
      <4> HIDE DEF nans, fills
      <4>1. Cardinality(nans \cup fills) =
              Cardinality(nans) + Cardinality(fills) - Cardinality(nans \cap fills)
        BY <2>2, FS_Union
      <4>2. Cardinality(nans \cap fills) = 0
        BY <3>1, FS_EmptySet
      <4> QED BY <4>1, <4>2, <2>2
    <3> HIDE DEF nans, fills, rows
    <3> QED BY <3>2, <2>2, <2>3, <1>1 DEF Usable
  <2>4. CASE fill \in {NaN, NoFill}
    <3> HIDE DEF nans, fills, rows
    <3> QED BY <2>2, <2>4, <1>1 DEF Usable
  <2> QED BY <2>3, <2>4
<1> HIDE DEF values, good, rows, e
<1>6. e.min = Min(values) /\ e.max = Max(values)
  BY <1>1
<1>7. col[r] \in Int /\ Min(values) \in Int /\ Max(values) \in Int
  BY <1>3, <1>4
<1> QED BY <1>3, <1>4, <1>5, <1>6, <1>7

\* No chunk with a match is pruned.
THEOREM PruneKeepsMatches ==
  ASSUME NEW n \in Nat, NEW col, \A r \in 1..n : col[r] \in Element,
         NEW fill \in FillValue, NEW op, NEW v,
         \/ op \in ScalarOps /\ v \in Int
         \/ op = "between" /\ v \in Int \X Int
  PROVE  Exact(col, n, fill, op, v)
           \subseteq chunks_to_rows(prune(compute_chunk_minmax(col, n, fill), op, v, fill), n)
<1> SUFFICES ASSUME NEW r \in 1..n, ~is_missing(col[r], fill), Compare(col[r], op, v)
             PROVE  r \in chunks_to_rows(prune(compute_chunk_minmax(col, n, fill), op, v, fill), n)
  BY DEF Exact
<1> DEFINE c == (r - 1) \div ChunkLen
           entries == compute_chunk_minmax(col, n, fill)
           e == entries[c]
<1>1. c \in 0..(data_chunk_count(n) - 1) /\ r \in ChunkRows(c, n)
  BY RowInChunk
<1>2. col[r] \in Int /\ Orderable(col[r], fill)
  BY KindsAssumption DEF Orderable, Compare, Element, ScalarOps, OrderOps
<1>3. /\ Usable(e, fill) /\ e.min \in Int /\ e.max \in Int
      /\ e.min <= col[r] /\ col[r] <= e.max
  <2> HIDE DEF c
  <2> QED BY <1>1, <1>2, ChunkBounds
<1>4. c \in DOMAIN entries
  BY <1>1 DEF compute_chunk_minmax
<1>5. c \in prune(entries, op, v, fill)
  <2> HIDE DEF c, entries
  <2>1. CASE op = "between"
    <3>1. v[1] \in Int /\ v[2] \in Int /\ v[1] <= col[r] /\ col[r] <= v[2]
      BY <2>1 DEF Compare, ScalarOps, OrderOps
    <3> QED BY <2>1, <3>1, <1>2, <1>3, <1>4 DEF prune
  <2>2. CASE op = "=="
    BY <2>2, <1>2, <1>3, <1>4 DEF prune, Compare
  <2>3. CASE op \in OrderOps
    <3>1. NaN \notin Int /\ v \in Int
      BY <2>3, KindsAssumption DEF OrderOps
    <3>2. CASE op = "<"
      BY <3>1, <3>2, <1>2, <1>3, <1>4 DEF prune, Compare
    <3>3. CASE op = "<="
      BY <3>1, <3>3, <1>2, <1>3, <1>4 DEF prune, Compare
    <3>4. CASE op = ">"
      BY <3>1, <3>4, <1>2, <1>3, <1>4 DEF prune, Compare
    <3>5. CASE op = ">="
      BY <3>1, <3>5, <1>2, <1>3, <1>4 DEF prune, Compare
    <3> QED BY <2>3, <3>2, <3>3, <3>4, <3>5 DEF OrderOps
  <2> QED BY <2>1, <2>2, <2>3 DEF ScalarOps
<1> HIDE DEF c, entries
<1>6. ChunkRows(c, n) \in {ChunkRows(d, n) : d \in prune(entries, op, v, fill)}
  BY <1>5
<1> QED BY <1>1, <1>6 DEF chunks_to_rows, entries

-----------------------------------------------------------------------------
(* SORTED_ROWS.                                                            *)

\* Binary search finds the first place of a set that has every place behind one
\* it has.
LEMMA FirstFound ==
  ASSUME NEW size \in Nat, NEW places,
         \A i, j \in 0..(size - 1) : i \in places /\ i <= j => j \in places
  PROVE  /\ First(places, size) \in 0..size
         /\ \A i \in 0..(size - 1) : i \in places <=> First(places, size) <= i
<1> DEFINE S == (0..size) \X (0..size)
           X == 0..size
           Mid(span) == (span[1] + span[2]) \div 2
           Body(f, span) == IF span[1] >= span[2] THEN span[1]
                            ELSE IF Mid(span) \in places THEN f[<<span[1], Mid(span)>>]
                                                         ELSE f[<<Mid(span) + 1, span[2]>>]
           search[span \in S] == Body(search, span)
           measure == [span \in S |-> IF span[1] >= span[2] THEN 0 ELSE span[2] - span[1]]
<1>1. ASSUME NEW span \in S, span[1] < span[2]
      PROVE  /\ Mid(span) \in 0..size /\ Mid(span) + 1 \in 0..size
             /\ span[1] <= Mid(span) /\ Mid(span) < span[2]
  BY <1>1
<1>2. ASSUME NEW span \in S, span[1] < span[2]
      PROVE  /\ <<span[1], Mid(span)>> \in S /\ <<Mid(span) + 1, span[2]>> \in S
             /\ measure[<<span[1], Mid(span)>>] < measure[span]
             /\ measure[<<Mid(span) + 1, span[2]>>] < measure[span]
  <2> DEFINE m == Mid(span)
  <2>1. m \in 0..size /\ m + 1 \in 0..size /\ span[1] <= m /\ m < span[2]
        /\ span[1] \in 0..size /\ span[2] \in 0..size
    BY <1>1, <1>2
  <2> HIDE DEF m
  <2>2. <<span[1], m>> \in S /\ <<m + 1, span[2]>> \in S
    BY <2>1
  <2>3. measure[<<span[1], m>>] < measure[span]
    BY <2>1, <2>2
  <2>4. measure[<<m + 1, span[2]>>] < measure[span]
    BY <2>1, <2>2
  <2> QED BY <2>2, <2>3, <2>4 DEF m
<1>3. measure \in [S -> 0..size]
  OBVIOUS
<1>4. \E f : f = [span \in S |-> Body(f, span)]
  <2> DEFINE F == [f \in [S -> X] |-> [span \in S |-> Body(f, span)]]
  <2>1. ASSUME NEW f \in [S -> X], NEW span \in S PROVE Body(f, span) \in X
    <3> HIDE DEF Mid, measure
    <3> QED BY <1>2
  <2>2. F \in [[S -> X] -> [S -> X]]
    <3> HIDE DEF Body, S, X
    <3> QED BY <2>1
  <2>3. ASSUME NEW f \in [S -> X], NEW g \in [S -> X], NEW span \in S,
               \A y \in S : measure[y] < measure[span] => f[y] = g[y]
        PROVE  F[f][span] = F[g][span]
    <3>1. Body(f, span) = Body(g, span)
      <4> HIDE DEF Mid, measure, X
      <4>1. CASE span[1] >= span[2]
        BY <4>1
      <4>2. CASE span[1] < span[2]
        <5> HIDE DEF S
        <5> QED BY <4>2, <1>2, <2>3
      <4> QED BY <4>1, <4>2
    <3> HIDE DEF Body, S, X
    <3> QED BY <3>1
  <2>4. [S -> X] # {}
    <3>1. [span \in S |-> 0] \in [S -> X]
      OBVIOUS
    <3> QED BY <3>1
  <2>5. \E f \in [S -> X] : f = F[f]
    <3>1. \A f, g \in [S -> X] : \A span \in S :
            (\A y \in S : measure[y] < measure[span] => f[y] = g[y]) => F[f][span] = F[g][span]
      <4> HIDE DEF F, measure, S, X
      <4> QED BY <2>3
    <3> HIDE DEF F, measure, S, X
    <3>2. LooksDown(S, X, measure, F)
      BY <2>2, <3>1 DEF LooksDown
    <3> QED BY <1>3, <2>4, <3>2, BoundedRecursion
  <2>6. PICK f \in [S -> X] : f = F[f]
    BY <2>5
  <2> HIDE DEF Body, S, X
  <2> QED BY <2>6
<1>5. search = [span \in S |-> Body(search, span)]
  <2> HIDE DEF S, Body
  <2> QED BY <1>4
<1> DEFINE Found(span, x) == x \in 0..size /\ \A i \in 0..(size - 1) : i \in places <=> x <= i
           Around(span) == /\ span[1] <= span[2]
                           /\ \A i \in 0..(size - 1) : /\ i < span[1] => i \notin places
                                                       /\ i >= span[2] => i \in places
           N == {k \in Nat : \A span \in S :
                   measure[span] < k /\ Around(span) => Found(span, search[span])}
<1> HIDE DEF search
<1>6. 0 \in N
  OBVIOUS
<1>7. ASSUME NEW k \in Nat, k \in N PROVE k + 1 \in N
  <2> SUFFICES ASSUME NEW span \in S, measure[span] < k + 1, Around(span)
               PROVE  Found(span, search[span])
    OBVIOUS
  <2>1. search[span] = Body(search, span)
    <3> HIDE DEF S, Body
    <3> QED BY <1>5
  <2>2. CASE span[1] >= span[2]
    <3>1. search[span] = span[1] /\ span[1] = span[2] /\ span[1] \in 0..size
      BY <2>1, <2>2
    <3> HIDE DEF measure, Mid, Body
    <3> QED BY <3>1
  <2>3. CASE span[1] < span[2]
    <3> DEFINE m == Mid(span)
    <3>1. m \in 0..(size - 1) /\ span[1] <= m /\ m < span[2]
          /\ <<span[1], m>> \in S /\ <<m + 1, span[2]>> \in S
          /\ measure[<<span[1], m>>] < k /\ measure[<<m + 1, span[2]>>] < k
      <4>1. /\ <<span[1], m>> \in S /\ <<m + 1, span[2]>> \in S
            /\ measure[<<span[1], m>>] < measure[span] /\ measure[<<m + 1, span[2]>>] < measure[span]
            /\ span[1] <= m /\ m < span[2] /\ m \in 0..size
        <5> HIDE DEF measure, Mid
        <5> QED BY <1>1, <1>2, <2>3
      <4>2. measure[span] \in Int /\ measure[<<span[1], m>>] \in Int
            /\ measure[<<m + 1, span[2]>>] \in Int
        <5> HIDE DEF measure
        <5> QED BY <4>1, <1>3
      <4> HIDE DEF m, measure
      <4> QED BY <4>1, <4>2
    <3>2. search[span] = IF m \in places THEN search[<<span[1], m>>] ELSE search[<<m + 1, span[2]>>]
      <4> HIDE DEF m
      <4> QED BY <2>1, <2>3 DEF m
    <3> HIDE DEF m, measure
    <3>3. CASE m \in places
      <4>1. Around(<<span[1], m>>)
        BY <3>1, <3>3
      <4> QED BY <4>1, <3>1, <3>2, <3>3, <1>7
    <3>4. CASE m \notin places
      <4>1. Around(<<m + 1, span[2]>>)
        BY <3>1, <3>4
      <4> QED BY <4>1, <3>1, <3>2, <3>4, <1>7
    <3> QED BY <3>3, <3>4
  <2> QED BY <2>2, <2>3
<1>8. Nat \subseteq N
  <2> HIDE DEF N
  <2> QED BY <1>6, <1>7, NatSetInduction
<1>9. Found(<<0, size>>, search[<<0, size>>])
  <2>1. <<0, size>> \in S /\ Around(<<0, size>>)
    OBVIOUS
  <2>2. measure[<<0, size>>] < size + 1 /\ size + 1 \in N
    <3>1. measure[<<0, size>>] \in 0..size
      <4> HIDE DEF measure
      <4> QED BY <1>3, <2>1
    <3> HIDE DEF N, measure
    <3> QED BY <3>1, <1>8
  <2> HIDE DEF Around, Found, measure
  <2> QED BY <2>1, <2>2
<1>10. First(places, size) = search[<<0, size>>]
  BY DEF First, search
<1> QED BY <1>9, <1>10

\* The body of SORTED_ROWS: the rows with a present number.
Body(col, n, fill) == {r \in 1..n : Orderable(col[r], fill)}

\* A function on 1..k is a sequence of length k.
LEMMA FunctionIsSeq ==
  ASSUME NEW S, NEW k \in Nat, NEW f \in [1..k -> S]
  PROVE  f \in Seq(S) /\ Len(f) = k
  OBVIOUS

\* What is written as SORTED_ROWS begins with the rows of present numbers by
\* ascending value, and its tail attributes count the others.
LEMMA SortedContent ==
  ASSUME NEW n \in Nat, NEW col, \A r \in 1..n : col[r] \in Element, NEW fill \in FillValue
  PROVE  LET content == compute_sorted_rows(col, n, fill)
             body    == Body(col, n, fill)
             size    == Cardinality(body)
         IN  /\ size \in Nat /\ n - content.nans - content.fills = size
             /\ \A i \in 1..size : content.perm[i] = Ordered(body, col)[i]
<1> DEFINE nans    == {r \in 1..n : col[r] = NaN}
           fills   == {r \in 1..n : is_missing(col[r], fill)} \ nans
           body    == (1..n) \ (nans \cup fills)
           row     == [r \in 1..n |-> r]
           size    == Cardinality(body)
           content == compute_sorted_rows(col, n, fill)
<1>1. content = [perm |-> Ordered(body, col) \o Ordered(fills, row) \o Ordered(nans, row),
                 fills |-> Cardinality(fills), nans |-> Cardinality(nans)]
  BY DEF compute_sorted_rows
<1>2. body = Body(col, n, fill)
  BY DEF Body, Orderable
<1>3. body \subseteq 1..n /\ \A r \in body : col[r] \in Int
  BY <1>2 DEF Body, Orderable, Element
<1>4. /\ fills \subseteq 1..n /\ \A r \in fills : row[r] \in Int
      /\ nans \subseteq 1..n /\ \A r \in nans : row[r] \in Int
  OBVIOUS
<1>5. /\ nans \cap fills = {} /\ body \cap (nans \cup fills) = {}
      /\ body \cup (nans \cup fills) = 1..n
  OBVIOUS
<1> HIDE DEF nans, fills, body, row, size
<1>6. /\ IsFiniteSet(body) /\ size \in Nat /\ Ordered(body, col) \in [1..size -> body]
      /\ IsFiniteSet(fills) /\ Cardinality(fills) \in Nat
      /\ Ordered(fills, row) \in [1..Cardinality(fills) -> fills]
      /\ IsFiniteSet(nans) /\ Cardinality(nans) \in Nat
      /\ Ordered(nans, row) \in [1..Cardinality(nans) -> nans]
  <2>1. IsFiniteSet(body) /\ Cardinality(body) \in Nat
        /\ Ordered(body, col) \in [1..Cardinality(body) -> body]
    BY <1>3, OrderedRows
  <2>2. IsFiniteSet(fills) /\ Cardinality(fills) \in Nat
        /\ Ordered(fills, row) \in [1..Cardinality(fills) -> fills]
    BY <1>4, OrderedRows
  <2>3. IsFiniteSet(nans) /\ Cardinality(nans) \in Nat
        /\ Ordered(nans, row) \in [1..Cardinality(nans) -> nans]
    BY <1>4, OrderedRows
  <2> QED BY <2>1, <2>2, <2>3 DEF size
<1>7. n - Cardinality(nans) - Cardinality(fills) = size
  <2>1. Cardinality(nans \cup fills) = Cardinality(nans) + Cardinality(fills)
        /\ IsFiniteSet(nans \cup fills)
    BY <1>5, <1>6, DisjointSum
  <2>2. Cardinality(body \cup (nans \cup fills)) = size + Cardinality(nans \cup fills)
    BY <1>5, <1>6, <2>1, DisjointSum DEF size
  <2>3. Cardinality(1..n) = n
    <3>1. 0 \in Int /\ 1 \in Int /\ n \in Int
      OBVIOUS
    <3> QED BY <3>1, FS_Interval
  <2>4. Cardinality(body \cup (nans \cup fills)) = Cardinality(1..n)
    BY <1>5
  <2> QED BY <2>1, <2>2, <2>3, <2>4, <1>6
<1>8. ASSUME NEW i \in 1..size PROVE content.perm[i] = Ordered(body, col)[i]
  <2> DEFINE b == Ordered(body, col)
             f == Ordered(fills, row)
             g == Ordered(nans, row)
  <2>1. b \in Seq(body) /\ f \in Seq(fills) /\ g \in Seq(nans) /\ Len(b) = size
    BY <1>6
  <2>2. b \in Seq(Nat) /\ f \in Seq(Nat) /\ g \in Seq(Nat)
    <3>1. body \subseteq Nat /\ fills \subseteq Nat /\ nans \subseteq Nat
      BY <1>3, <1>4
    <3>2. /\ b \in [1..size -> Nat] /\ f \in [1..Cardinality(fills) -> Nat]
          /\ g \in [1..Cardinality(nans) -> Nat]
      BY <1>6, <3>1
    <3> HIDE DEF b, f, g
    <3> QED BY <1>6, <3>2, FunctionIsSeq
  <2> HIDE DEF b, f, g
  <2>3. b \o f \in Seq(Nat) /\ Len(b \o f) = Len(b) + Len(f) /\ (b \o f)[i] = b[i]
    <3>1. /\ b \o f \in Seq(Nat) /\ Len(b \o f) = Len(b) + Len(f)
          /\ \A k \in 1..(Len(b) + Len(f)) :
               (b \o f)[k] = IF k <= Len(b) THEN b[k] ELSE f[k - Len(b)]
      BY <2>2, ConcatProperties
    <3>2. Len(f) \in Nat /\ i \in 1..(Len(b) + Len(f)) /\ i <= Len(b)
      BY <2>1, <2>2, <1>6
    <3> QED BY <3>1, <3>2
  <2>4. ((b \o f) \o g)[i] = (b \o f)[i]
    <3>1. i \in 1..Len(b \o f)
      BY <2>1, <2>2, <2>3
    <3> QED BY <2>2, <2>3, <3>1
  <2>5. content.perm = (b \o f) \o g
    BY <1>1 DEF b, f, g
  <2> QED BY <2>3, <2>4, <2>5 DEF b
<1> QED BY <1>1, <1>2, <1>6, <1>7, <1>8 DEF size

\* A list that begins with the rows of present numbers by ascending value answers
\* exactly, whatever follows: the first place at or past a bound separates the
\* values under it from the others.
LEMMA SortedBodyExact ==
  ASSUME NEW n \in Nat, NEW col, \A r \in 1..n : col[r] \in Element,
         NEW fill \in FillValue, NEW op, NEW v,
         \/ op \in ScalarOps /\ v \in Int
         \/ op = "between" /\ v \in Int \X Int,
         NEW content,
         /\ Cardinality(Body(col, n, fill)) \in Nat
         /\ n - content.nans - content.fills = Cardinality(Body(col, n, fill))
         /\ \A i \in 1..Cardinality(Body(col, n, fill)) :
              content.perm[i] = Ordered(Body(col, n, fill), col)[i]
  PROVE  sorted_rows(col, n, content, op, v) = Exact(col, n, fill, op, v)
<1> DEFINE body == Body(col, n, fill)
           size == Cardinality(body)
           O    == Ordered(body, col)
           From(bound) == First({i \in 0..(size - 1) : col[content.perm[i + 1]] >= bound}, size)
           Past(bound) == First({i \in 0..(size - 1) : col[content.perm[i + 1]] > bound}, size)
           slice == CASE op = "between" -> <<From(v[1]), Past(v[2])>>
                      [] op = "<"  -> <<0, From(v)>>
                      [] op = "<=" -> <<0, Past(v)>>
                      [] op = ">"  -> <<Past(v), size>>
                      [] op = ">=" -> <<From(v), size>>
                      [] op = "==" -> <<From(v), Past(v)>>
           answer == {content.perm[i] : i \in (slice[1] + 1)..slice[2]}
<1>1. /\ size \in Nat /\ n - content.nans - content.fills = size
      /\ \A i \in 1..size : content.perm[i] = O[i]
  OBVIOUS
<1>2. sorted_rows(col, n, content, op, v) = answer
  <2> HIDE DEF size
  <2> QED BY <1>1 DEF sorted_rows
<1>3. body \subseteq 1..n /\ \A r \in body : col[r] \in Int
  BY DEF Body, Orderable, Element
<1> HIDE DEF body
<1>4. /\ O \in [1..size -> body]
      /\ \A r \in body : \E i \in 1..size : O[i] = r
      /\ \A i, j \in 1..size : i <= j => col[O[i]] <= col[O[j]]
  <2>1. SortedBy(O, body, col)
    BY <1>3, OrderedRows
  <2> HIDE DEF O
  <2> QED BY <2>1 DEF SortedBy
<1> HIDE DEF O, size
<1>5. \A i \in 0..(size - 1) : i + 1 \in 1..size /\ content.perm[i + 1] = O[i + 1]
                                /\ col[O[i + 1]] \in Int
  <2> SUFFICES ASSUME NEW i \in 0..(size - 1)
               PROVE i + 1 \in 1..size /\ content.perm[i + 1] = O[i + 1] /\ col[O[i + 1]] \in Int
    OBVIOUS
  <2>1. i + 1 \in 1..size
    BY <1>1
  <2> QED BY <2>1, <1>1, <1>3, <1>4
<1>6. ASSUME NEW bound \in Int
      PROVE  /\ From(bound) \in 0..size
             /\ \A i \in 1..size : i > From(bound) <=> col[O[i]] >= bound
  <2> DEFINE places == {i \in 0..(size - 1) : col[content.perm[i + 1]] >= bound}
  <2>1. ASSUME NEW i \in 0..(size - 1), NEW j \in 0..(size - 1), i \in places, i <= j
        PROVE  j \in places
    <3>1. col[O[i + 1]] <= col[O[j + 1]] /\ col[O[i + 1]] >= bound
      BY <1>1, <1>4, <1>5, <2>1
    <3> QED BY <3>1, <1>5
  <2>2. First(places, size) \in 0..size
        /\ \A i \in 0..(size - 1) : i \in places <=> First(places, size) <= i
    <3> HIDE DEF places
    <3> QED BY <1>1, <2>1, FirstFound
  <2>3. ASSUME NEW i \in 1..size PROVE i > First(places, size) <=> col[O[i]] >= bound
    <3>1. i - 1 \in 0..(size - 1) /\ (i - 1) + 1 = i
      BY <1>1
    <3>2. i - 1 \in places <=> col[O[i]] >= bound
      BY <3>1, <1>1
    <3> HIDE DEF places
    <3> QED BY <1>1, <2>2, <3>1, <3>2
  <2> QED BY <2>2, <2>3
<1>7. ASSUME NEW bound \in Int
      PROVE  /\ Past(bound) \in 0..size
             /\ \A i \in 1..size : i > Past(bound) <=> col[O[i]] > bound
  <2> DEFINE places == {i \in 0..(size - 1) : col[content.perm[i + 1]] > bound}
  <2>1. ASSUME NEW i \in 0..(size - 1), NEW j \in 0..(size - 1), i \in places, i <= j
        PROVE  j \in places
    <3>1. col[O[i + 1]] <= col[O[j + 1]] /\ col[O[i + 1]] > bound
      BY <1>1, <1>4, <1>5, <2>1
    <3> QED BY <3>1, <1>5
  <2>2. First(places, size) \in 0..size
        /\ \A i \in 0..(size - 1) : i \in places <=> First(places, size) <= i
    <3> HIDE DEF places
    <3> QED BY <1>1, <2>1, FirstFound
  <2>3. ASSUME NEW i \in 1..size PROVE i > First(places, size) <=> col[O[i]] > bound
    <3>1. i - 1 \in 0..(size - 1) /\ (i - 1) + 1 = i
      BY <1>1
    <3>2. i - 1 \in places <=> col[O[i]] > bound
      BY <3>1, <1>1
    <3> HIDE DEF places
    <3> QED BY <1>1, <2>2, <3>1, <3>2
  <2> QED BY <2>2, <2>3
<1> HIDE DEF From, Past
<1>8. /\ slice[1] \in 0..size /\ slice[2] \in 0..size
      /\ \A i \in 1..size : (i > slice[1] /\ i <= slice[2]) <=> Compare(col[O[i]], op, v)
  <2>1. \A i \in 1..size : col[O[i]] \in Int /\ col[O[i]] # NaN
    <3>1. \A i \in 1..size : O[i] \in body
      BY <1>4
    <3>2. NaN \notin Int
      BY KindsAssumption
    <3> QED BY <3>1, <3>2, <1>3
  <2>2. CASE op = "between"
    <3>1. v[1] \in Int /\ v[2] \in Int
      BY <2>2 DEF ScalarOps, OrderOps
    <3>2. slice = <<From(v[1]), Past(v[2])>>
      BY <2>2
    <3> HIDE DEF slice
    <3>3. ASSUME NEW i \in 1..size
          PROVE  (i > slice[1] /\ i <= slice[2]) <=> Compare(col[O[i]], op, v)
      <4>1. i > slice[1] <=> col[O[i]] >= v[1]
        BY <3>1, <3>2, <1>6
      <4>2. i > slice[2] <=> col[O[i]] > v[2]
        BY <3>1, <3>2, <1>7
      <4>3. slice[2] \in Int
        BY <3>1, <3>2, <1>7, <1>1
      <4> QED BY <2>1, <2>2, <3>1, <4>1, <4>2, <4>3 DEF Compare
    <3> QED BY <3>1, <3>2, <3>3, <1>6, <1>7
  <2>3. CASE op # "between"
    <3>1. op \in ScalarOps /\ v \in Int
      BY <2>3
    <3>2. /\ From(v) \in 0..size /\ Past(v) \in 0..size
          /\ \A i \in 1..size : /\ i > From(v) <=> col[O[i]] >= v
                                /\ i > Past(v) <=> col[O[i]] > v
      BY <3>1, <1>6, <1>7
    <3>3. CASE op = "<"
      <4>1. slice = <<0, From(v)>>
        BY <3>3
      <4> HIDE DEF slice
      <4> QED BY <4>1, <3>1, <3>2, <3>3, <1>1, <2>1 DEF Compare
    <3>4. CASE op = "<="
      <4>1. slice = <<0, Past(v)>>
        BY <3>4
      <4> HIDE DEF slice
      <4> QED BY <4>1, <3>1, <3>2, <3>4, <1>1, <2>1 DEF Compare
    <3>5. CASE op = ">"
      <4>1. slice = <<Past(v), size>>
        BY <3>5
      <4> HIDE DEF slice
      <4> QED BY <4>1, <3>1, <3>2, <3>5, <1>1, <2>1 DEF Compare
    <3>6. CASE op = ">="
      <4>1. slice = <<From(v), size>>
        BY <3>6
      <4> HIDE DEF slice
      <4> QED BY <4>1, <3>1, <3>2, <3>6, <1>1, <2>1 DEF Compare
    <3>7. CASE op = "=="
      <4>1. slice = <<From(v), Past(v)>>
        BY <3>7
      <4> HIDE DEF slice
      <4> QED BY <4>1, <3>1, <3>2, <3>7, <1>1, <2>1 DEF Compare
    <3> QED BY <3>1, <3>3, <3>4, <3>5, <3>6, <3>7 DEF ScalarOps, OrderOps
  <2> QED BY <2>2, <2>3
<1> HIDE DEF slice
<1>9. ASSUME NEW r \in answer PROVE r \in Exact(col, n, fill, op, v)
  <2>1. PICK i \in (slice[1] + 1)..slice[2] : r = content.perm[i]
    OBVIOUS
  <2>2. i \in 1..size /\ i > slice[1] /\ i <= slice[2]
    BY <1>1, <1>8
  <2>3. r = O[i] /\ r \in body /\ Compare(col[r], op, v)
    BY <2>1, <2>2, <1>1, <1>4, <1>8
  <2> QED BY <2>3 DEF Exact, body, Body, Orderable
<1>10. ASSUME NEW r \in Exact(col, n, fill, op, v) PROVE r \in answer
  <2>1. r \in body
    BY KindsAssumption DEF Exact, Compare, body, Body, Orderable, ScalarOps, OrderOps
  <2>2. PICK i \in 1..size : O[i] = r
    BY <2>1, <1>4
  <2>3. i > slice[1] /\ i <= slice[2]
    BY <2>2, <1>8 DEF Exact
  <2>4. i \in (slice[1] + 1)..slice[2] /\ content.perm[i] = r
    BY <2>2, <2>3, <1>1, <1>8
  <2> QED BY <2>4
<1> HIDE DEF answer
<1>11. answer = Exact(col, n, fill, op, v)
  BY <1>9, <1>10
<1> QED BY <1>2, <1>11

\* SORTED_ROWS as it is computed answers exactly.
THEOREM SortedExact ==
  ASSUME NEW n \in Nat, NEW col, \A r \in 1..n : col[r] \in Element,
         NEW fill \in FillValue, NEW op, NEW v,
         \/ op \in ScalarOps /\ v \in Int
         \/ op = "between" /\ v \in Int \X Int
  PROVE  sorted_rows(col, n, compute_sorted_rows(col, n, fill), op, v) = Exact(col, n, fill, op, v)
<1> DEFINE content == compute_sorted_rows(col, n, fill)
<1>1. /\ Cardinality(Body(col, n, fill)) \in Nat
      /\ n - content.nans - content.fills = Cardinality(Body(col, n, fill))
      /\ \A i \in 1..Cardinality(Body(col, n, fill)) :
           content.perm[i] = Ordered(Body(col, n, fill), col)[i]
  BY SortedContent
<1> HIDE DEF content
<1>2. sorted_rows(col, n, content, op, v) = Exact(col, n, fill, op, v)
  BY <1>1, SortedBodyExact
<1> QED BY <1>2 DEF content

-----------------------------------------------------------------------------
(* BITMAP.                                                                 *)

\* BITMAP answers exactly, or that it cannot say, whoever enumerated its values.
THEOREM BitmapExact ==
  ASSUME NEW n \in Nat, NEW col, \A r \in 1..n : col[r] \in Element,
         NEW fill \in FillValue, NEW vs, vs \subseteq Int, NEW content,
         \/ content = compute_bitmap(col, n, fill)
         \/ \E values : content = partial_bitmap(col, n, values)
  PROVE  bitmap_isin(content, vs, fill) \in {Exact(col, n, fill, "in", vs), CannotSay}
<1>1. ASSUME NEW v \in vs, bitmap_rows(content, v, fill) # CannotSay
      PROVE  bitmap_rows(content, v, fill) = Exact(col, n, fill, "==", v)
  <2>1. CASE v = fill
    <3>1. fill # NoFill
      BY <2>1, KindsAssumption
    <3>2. Exact(col, n, fill, "==", v) = {}
      BY <2>1, <3>1 DEF Exact, Compare, is_missing
    <3> QED BY <2>1, <3>2 DEF bitmap_rows
  <2>2. CASE v # fill /\ v \in DOMAIN content.rows
    <3>1. content.rows[v] = {r \in 1..n : col[r] = v}
      BY <2>2 DEF compute_bitmap, partial_bitmap
    <3>2. Exact(col, n, fill, "==", v) = {r \in 1..n : col[r] = v}
      BY <2>2 DEF Exact, Compare, is_missing
    <3> QED BY <2>2, <3>1, <3>2 DEF bitmap_rows
  <2>3. CASE v # fill /\ v \notin DOMAIN content.rows
    <3>1. bitmap_rows(content, v, fill) = {} /\ content.exhaustive
      BY <2>3, <1>1 DEF bitmap_rows
    <3>2. content = compute_bitmap(col, n, fill)
      BY <3>1 DEF partial_bitmap
    <3>3. \A r \in 1..n : col[r] # v
      <4> SUFFICES ASSUME NEW r \in 1..n, col[r] = v PROVE FALSE
        OBVIOUS
      <4>1. Orderable(col[r], fill)
        BY <2>3, KindsAssumption DEF Orderable, is_missing
      <4>2. DOMAIN content.rows = {col[q] : q \in {q \in 1..n : Orderable(col[q], fill)}}
        BY <3>2 DEF compute_bitmap
      <4> QED BY <4>1, <4>2, <2>3
    <3>4. Exact(col, n, fill, "==", v) = {}
      BY <3>3 DEF Exact, Compare
    <3> QED BY <3>1, <3>4
  <2> QED BY <2>1, <2>2, <2>3
<1> DEFINE answers == {bitmap_rows(content, v, fill) : v \in vs}
<1>2. CASE CannotSay \in answers
  BY <1>2 DEF bitmap_isin
<1>3. CASE CannotSay \notin answers
  <2>1. answers = {Exact(col, n, fill, "==", v) : v \in vs}
    BY <1>1, <1>3
  <2>2. UNION answers = Exact(col, n, fill, "in", vs)
    <3>1. \A v : Exact(col, n, fill, "==", v) = {r \in 1..n : ~is_missing(col[r], fill) /\ col[r] = v}
      BY DEF Exact, Compare
    <3>2. Exact(col, n, fill, "in", vs) = {r \in 1..n : ~is_missing(col[r], fill) /\ col[r] \in vs}
      BY DEF Exact, Compare
    <3> HIDE DEF answers
    <3>3. UNION answers = {r \in 1..n : ~is_missing(col[r], fill) /\ col[r] \in vs}
      <4>1. answers = {{r \in 1..n : ~is_missing(col[r], fill) /\ col[r] = v} : v \in vs}
        BY <2>1, <3>1
      <4>2. ASSUME NEW r \in UNION answers
            PROVE  r \in 1..n /\ ~is_missing(col[r], fill) /\ col[r] \in vs
        BY <4>1
      <4>3. ASSUME NEW r \in 1..n, ~is_missing(col[r], fill), col[r] \in vs
            PROVE  r \in UNION answers
        <5> DEFINE A == {q \in 1..n : ~is_missing(col[q], fill) /\ col[q] = col[r]}
        <5>1. A \in answers
          BY <4>1, <4>3
        <5>2. r \in A
          BY <4>3
        <5> QED BY <5>1, <5>2
      <4> QED BY <4>2, <4>3
    <3> QED BY <3>2, <3>3
  <2> QED BY <1>3, <2>2 DEF bitmap_isin
<1> QED BY <1>2, <1>3
=============================================================================
