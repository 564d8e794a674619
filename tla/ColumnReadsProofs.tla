--------------------------- MODULE ColumnReadsProofs ---------------------------
(***************************************************************************)
(* Proofs about ColumnReads, for every kind of column, chunk length, batch *)
(* of values and key: whichever way a reader goes about it, what it gives  *)
(* back are the values that were appended, and a scattered read fetches no *)
(* chunk in vain.                                                          *)
(***************************************************************************)
EXTENDS ColumnReadsInvariant, FiniteSetTheorems, SequenceTheorems, WellFoundedInduction, TLAPS

-----------------------------------------------------------------------------
(* Finite sets and sorts.                                                  *)

\* A nonempty set of naturals has a least element.
LEMMA LeastNat ==
  ASSUME NEW T, T \subseteq Nat, T # {}
  PROVE  \E x \in T : \A y \in T : x <= y
<1>1. IsWellFoundedOn(OpToRel(<, Nat), Nat)
  BY NatLessThanWellFounded, Zenon
<1>2. PICK x \in T : \A y \in T : ~(<<y, x>> \in OpToRel(<, Nat))
  BY <1>1, WFMin, Zenon
<1>3. \A y \in T : ~(y < x)
  BY <1>2, Zenon DEF OpToRel
<1> QED BY <1>3

\* A set with 0 and the successor of each of its naturals has all naturals.
LEMMA NatSetInduction ==
  ASSUME NEW S, 0 \in S, \A n \in Nat : n \in S => n + 1 \in S
  PROVE  Nat \subseteq S
<1> SUFFICES ASSUME Nat \ S # {} PROVE FALSE
  OBVIOUS
<1>1. PICK x \in Nat \ S : \A y \in Nat \ S : x <= y
  BY LeastNat
<1>2. x # 0 /\ x - 1 \in Nat /\ x - 1 \in S
  BY <1>1
<1> QED BY <1>1, <1>2

\* A proper subset of a finite set has fewer elements.
LEMMA StrictSubset ==
  ASSUME NEW S, IsFiniteSet(S), NEW T, T \subseteq S, T # S
  PROVE  /\ IsFiniteSet(T) /\ Cardinality(T) \in Nat /\ Cardinality(S) \in Nat
         /\ Cardinality(T) < Cardinality(S)
<1>1. T \in SUBSET S
  OBVIOUS
<1>2. /\ IsFiniteSet(T) /\ Cardinality(T) <= Cardinality(S)
      /\ Cardinality(S) = Cardinality(T) => S = T
  BY <1>1, FS_Subset
<1>3. Cardinality(T) \in Nat /\ Cardinality(S) \in Nat
  BY <1>2, FS_CardinalityType
<1> QED BY <1>2, <1>3

\* A finite nonempty set of integers has a least and a greatest element: the
\* one with the fewest elements under it, and over it.
LEMMA Extremes ==
  ASSUME NEW T, T \subseteq Int, IsFiniteSet(T), T # {}
  PROVE  /\ \E x \in T : \A y \in T : x <= y
         /\ \E x \in T : \A y \in T : x >= y
<1> DEFINE Under == [x \in T |-> {z \in T : z < x}]
           Over  == [x \in T |-> {z \in T : z > x}]
<1>1. \A x \in T : /\ IsFiniteSet(Under[x]) /\ IsFiniteSet(Over[x])
                   /\ Cardinality(Under[x]) \in Nat /\ Cardinality(Over[x]) \in Nat
  <2> SUFFICES ASSUME NEW x \in T
               PROVE /\ IsFiniteSet(Under[x]) /\ IsFiniteSet(Over[x])
                     /\ Cardinality(Under[x]) \in Nat /\ Cardinality(Over[x]) \in Nat
    OBVIOUS
  <2>1. Under[x] \subseteq T /\ Over[x] \subseteq T
    OBVIOUS
  <2> QED BY <2>1, FS_Subset, FS_CardinalityType
<1>2. \A x, y \in T : y < x => Cardinality(Under[y]) < Cardinality(Under[x])
  <2> SUFFICES ASSUME NEW x \in T, NEW y \in T, y < x
               PROVE Cardinality(Under[y]) < Cardinality(Under[x])
    OBVIOUS
  <2>1. x \in Int /\ y \in Int
    OBVIOUS
  <2>2. \A z \in T : z \in Under[y] => z \in Under[x]
    <3> SUFFICES ASSUME NEW z \in T, z < y PROVE z < x
      OBVIOUS
    <3>1. z \in Int
      OBVIOUS
    <3> QED BY <3>1, <2>1
  <2>3. y \in Under[x] /\ y \notin Under[y]
    BY <2>1
  <2>4. Under[y] \subseteq Under[x] /\ Under[y] # Under[x]
    BY <2>2, <2>3
  <2> HIDE DEF Under
  <2> QED BY <2>4, <1>1, StrictSubset
<1>3. \A x, y \in T : y > x => Cardinality(Over[y]) < Cardinality(Over[x])
  <2> SUFFICES ASSUME NEW x \in T, NEW y \in T, y > x
               PROVE Cardinality(Over[y]) < Cardinality(Over[x])
    OBVIOUS
  <2>1. x \in Int /\ y \in Int
    OBVIOUS
  <2>2. \A z \in T : z \in Over[y] => z \in Over[x]
    <3> SUFFICES ASSUME NEW z \in T, z > y PROVE z > x
      OBVIOUS
    <3>1. z \in Int
      OBVIOUS
    <3> QED BY <3>1, <2>1
  <2>3. y \in Over[x] /\ y \notin Over[y]
    BY <2>1
  <2>4. Over[y] \subseteq Over[x] /\ Over[y] # Over[x]
    BY <2>2, <2>3
  <2> HIDE DEF Over
  <2> QED BY <2>4, <1>1, StrictSubset
<1> HIDE DEF Under, Over
<1>4. \E x \in T : \A y \in T : x <= y
  <2> DEFINE C == {Cardinality(Under[x]) : x \in T}
  <2>1. C \subseteq Nat /\ C # {}
    BY <1>1
  <2>2. \E c \in C : \A d \in C : c <= d
    <3> HIDE DEF C
    <3> QED BY <2>1, LeastNat
  <2>3. PICK x \in T : \A y \in T : Cardinality(Under[x]) <= Cardinality(Under[y])
    BY <2>2
  <2>4. \A y \in T : ~(y < x)
    BY <2>3, <1>1, <1>2
  <2> QED BY <2>4
<1>5. \E x \in T : \A y \in T : x >= y
  <2> DEFINE C == {Cardinality(Over[x]) : x \in T}
  <2>1. C \subseteq Nat /\ C # {}
    BY <1>1
  <2>2. \E c \in C : \A d \in C : c <= d
    <3> HIDE DEF C
    <3> QED BY <2>1, LeastNat
  <2>3. PICK x \in T : \A y \in T : Cardinality(Over[x]) <= Cardinality(Over[y])
    BY <2>2
  <2>4. \A y \in T : ~(y > x)
    BY <2>3, <1>1, <1>3
  <2> QED BY <2>4
<1> QED BY <1>4, <1>5

\* Which of two members comes first.
Before(by, s, r) == by[s] < by[r] \/ (by[s] = by[r] /\ s < r)

\* A list of all of a set by ascending by.
SortedBy(list, S, by) ==
  /\ list \in [1..Cardinality(S) -> S]
  /\ \A r \in S : \E i \in 1..Cardinality(S) : list[i] = r
  /\ \A i, j \in 1..Cardinality(S) : i <= j => by[list[i]] <= by[list[j]]

\* Ordered lists every row of a set once, by ascending by: the number of rows
\* that come before a row is different for every row, so it takes every value.
LEMMA OrderedList ==
  ASSUME NEW S, S \subseteq Int, IsFiniteSet(S), NEW by, \A s \in S : by[s] \in Int
  PROVE  /\ Cardinality(S) \in Nat
         /\ Ordered(S, by) \in [1..Cardinality(S) -> S]
         /\ SortedBy(Ordered(S, by), S, by)
         /\ \A i \in 1..Cardinality(S) :
              Cardinality({s \in S : Before(by, s, Ordered(S, by)[i])}) = i - 1
<1> DEFINE Under == [r \in S |-> {s \in S : Before(by, s, r)}]
           rank  == [r \in S |-> Cardinality(Under[r])]
           size  == Cardinality(S)
           O     == Ordered(S, by)
<1>1. IsFiniteSet(S) /\ size \in Nat
  BY FS_CardinalityType
<1>2. \A r \in S : r \in Int /\ by[r] \in Int
  OBVIOUS
<1>3. ASSUME NEW r \in S PROVE rank[r] \in 0..(size - 1) /\ IsFiniteSet(Under[r])
  <2>1. Under[r] \subseteq S
    OBVIOUS
  <2>2. r \notin Under[r]
    BY <1>2 DEF Before
  <2>3. IsFiniteSet(Under[r]) /\ Cardinality(Under[r]) \in Nat /\ Cardinality(Under[r]) < size
    <3> HIDE DEF Under
    <3> QED BY <2>1, <2>2, <1>1, StrictSubset
  <2> HIDE DEF Under, size
  <2> QED BY <2>3, <1>1
<1>4. ASSUME NEW s \in S, NEW r \in S, Before(by, s, r) PROVE rank[s] < rank[r]
  <2>1. ASSUME NEW q \in S, Before(by, q, s) PROVE Before(by, q, r)
    BY <1>2, <1>4, <2>1 DEF Before
  <2>2. Under[s] \subseteq Under[r]
    BY <2>1
  <2>3. s \in Under[r] /\ s \notin Under[s]
    BY <1>2, <1>4 DEF Before
  <2>4. Cardinality(Under[s]) < Cardinality(Under[r])
    <3> HIDE DEF Under
    <3> QED BY <2>2, <2>3, <1>3, StrictSubset
  <2> QED BY <2>4
<1>5. ASSUME NEW s \in S, NEW r \in S, rank[s] = rank[r] PROVE s = r
  <2>1. Before(by, s, r) \/ Before(by, r, s) \/ s = r
    BY <1>2 DEF Before
  <2>2. rank[s] \in Int /\ rank[r] \in Int
    BY <1>3
  <2> HIDE DEF rank
  <2> QED BY <2>1, <2>2, <1>4, <1>5
<1> HIDE DEF Under, rank
<1>6. rank \in Surjection(S, 0..(size - 1))
  <2>1. rank \in Injection(S, 0..(size - 1))
    BY <1>3, <1>5 DEF Injection, IsInjective, rank
  <2>2. IsFiniteSet(0..(size - 1)) /\ Cardinality(0..(size - 1)) = size
    <3> HIDE DEF size
    <3> QED BY <1>1, FS_Interval
  <2> QED BY <2>1, <2>2, <1>1, FS_Injection
<1>7. \A r \in S : rank[r] = Cardinality({s \in S : Before(by, s, r)})
  BY DEF rank, Under
<1>8. O = [i \in 1..size |-> CHOOSE r \in S : Cardinality({s \in S : Before(by, s, r)}) = i - 1]
  BY DEF Ordered, Before
<1> HIDE DEF O, size
<1>9. ASSUME NEW i \in 1..size PROVE O[i] \in S /\ rank[O[i]] = i - 1
  <2>1. i - 1 \in 0..(size - 1)
    BY <1>1
  <2>2. \E r \in S : rank[r] = i - 1
    BY <2>1, <1>6 DEF Surjection
  <2>3. \E r \in S : Cardinality({s \in S : Before(by, s, r)}) = i - 1
    BY <2>2, <1>7
  <2>4. O[i] = CHOOSE r \in S : Cardinality({s \in S : Before(by, s, r)}) = i - 1
    BY <1>8
  <2>5. O[i] \in S /\ Cardinality({s \in S : Before(by, s, O[i])}) = i - 1
    BY <2>3, <2>4
  <2> QED BY <2>5, <1>7
<1>10. O \in [1..size -> S]
  BY <1>8, <1>9
<1>11. ASSUME NEW r \in S PROVE \E i \in 1..size : O[i] = r
  <2>1. rank[r] \in 0..(size - 1)
    BY <1>3
  <2>2. rank[r] + 1 \in 1..size /\ (rank[r] + 1) - 1 = rank[r]
    BY <2>1, <1>1
  <2> QED BY <2>2, <1>9, <1>5
<1>12. ASSUME NEW i \in 1..size, NEW j \in 1..size, i <= j PROVE by[O[i]] <= by[O[j]]
  <2>1. O[i] \in S /\ O[j] \in S /\ rank[O[i]] = i - 1 /\ rank[O[j]] = j - 1
    BY <1>9
  <2>2. ~ Before(by, O[j], O[i])
    <3>1. ~ (j - 1 < i - 1)
      BY <1>12, <1>1
    <3> QED BY <2>1, <3>1, <1>4
  <2>3. by[O[i]] \in Int /\ by[O[j]] \in Int
    BY <2>1, <1>2
  <2> QED BY <2>2, <2>3 DEF Before
<1>13. \A i \in 1..size : Cardinality({s \in S : Before(by, s, O[i])}) = i - 1
  BY <1>7, <1>9
<1> QED BY <1>1, <1>10, <1>11, <1>12, <1>13 DEF O, size, SortedBy

-----------------------------------------------------------------------------
(* Numbers.                                                                *)

\* Quotient and remainder of any number.
LEMMA Quotient ==
  ASSUME NEW a \in Int, NEW b \in Nat \ {0}
  PROVE  /\ a \div b \in Int
         /\ b * (a \div b) <= a /\ a < b * (a \div b) + b
  OBVIOUS

\* Products keep the order, with a positive factor.
LEMMA Times ==
  ASSUME NEW a \in Nat, NEW x \in Int, NEW y \in Int, x <= y
  PROVE  a * x \in Int /\ a * y \in Int /\ a * x <= a * y /\ x * a = a * x /\ y * a = a * y
<1>1. PICK d \in Nat : y = x + d
  <2>1. y - x \in Nat /\ y = x + (y - x)
    OBVIOUS
  <2> QED BY <2>1
<1>2. a * y = a * x + a * d /\ a * d \in Nat /\ a * x \in Int
  BY <1>1
<1> QED BY <1>1, <1>2

\* A position lies in its chunk, and no other position of that chunk's rows in
\* another.
LEMMA InChunk ==
  ASSUME NEW p \in Nat, NEW n \in Nat \ {0}
  PROVE  /\ p \div n \in Nat
         /\ (p \div n) * n <= p /\ p < ((p \div n) + 1) * n
         /\ \A c \in Int : c * n <= p => c <= p \div n
         /\ \A c \in Int : p < (c + 1) * n => p \div n <= c
<1> DEFINE q == p \div n
<1>1. q \in Nat /\ n * q <= p /\ p < n * q + n
  BY Quotient
<1> HIDE DEF q
<1>2. q * n = n * q /\ (q + 1) * n = n * q + n
  BY <1>1
<1>3. ASSUME NEW c \in Int, c * n <= p PROVE c <= q
  <2> SUFFICES ASSUME q + 1 <= c PROVE FALSE
    BY <1>1
  <2>1. (q + 1) * n <= c * n
    BY <1>1, Times
  <2> QED BY <2>1, <1>1, <1>2, <1>3
<1>4. ASSUME NEW c \in Int, p < (c + 1) * n PROVE q <= c
  <2> SUFFICES ASSUME c + 1 <= q PROVE FALSE
    BY <1>1
  <2>1. (c + 1) * n <= q * n
    BY <1>1, Times
  <2> QED BY <2>1, <1>1, <1>2, <1>4
<1> QED BY <1>1, <1>2, <1>3, <1>4 DEF q

\* A finite set of numbers has the minimum and the maximum the model chooses.
LEMMA MinMax ==
  ASSUME NEW S, S \subseteq Int, IsFiniteSet(S), S # {}
  PROVE  /\ Min(S) \in S /\ \A x \in S : Min(S) <= x
         /\ Max(S) \in S /\ \A x \in S : x <= Max(S)
<1>1. \E x \in S : \A y \in S : x <= y
  BY Extremes
<1>2. \E x \in S : \A y \in S : x >= y
  BY Extremes
<1>3. Min(S) \in S /\ \A x \in S : Min(S) <= x
  BY <1>1 DEF Min
<1>4. Max(S) \in S /\ \A x \in S : Max(S) >= x
  BY <1>2 DEF Max
<1> QED BY <1>3, <1>4

-----------------------------------------------------------------------------
(* Slices.                                                                 *)

\* The positions of a range: as many steps from its start as stay before its
\* stop.
LEMMA RangeSize ==
  ASSUME NEW first \in Int, NEW stop \in Int, NEW step \in Int, step # 0
  PROVE  \E size \in Nat :
           /\ range(<<first, stop, step>>) = [i \in 1..size |-> first + (i - 1) * step]
           /\ \A m \in Nat :
                m < size <=> IF step > 0 THEN first + m * step < stop ELSE first + m * step > stop
<1>1. CASE step > 0
  <2> DEFINE num == stop - first + step - 1
             q == num \div step
             size == IF q < 0 THEN 0 ELSE q
  <2>1. q \in Int /\ step * q <= num /\ num < step * q + step
    BY <1>1, Quotient
  <2>2. range(<<first, stop, step>>) = [i \in 1..size |-> first + (i - 1) * step]
    BY <1>1 DEF range
  <2>3. num = stop - first + step - 1 /\ num \in Int
    OBVIOUS
  <2> HIDE DEF q, num
  <2>4. size \in Nat
    BY <2>1
  <2>5. ASSUME NEW m \in Nat PROVE m < size <=> first + m * step < stop
    <3>1. CASE m < q
      <4>1. step * (m + 1) <= step * q
        BY <3>1, <2>1, <1>1, Times
      <4>2. step * (m + 1) = m * step + step /\ m * step \in Int
        OBVIOUS
      <4>3. step * q \in Int
        BY <2>1
      <4>4. m * step + step <= num
        BY <4>1, <4>2, <4>3, <2>1, <2>3
      <4>5. first + m * step < stop
        BY <4>4, <4>2, <2>3
      <4> QED BY <4>5, <3>1, <2>1
    <3>2. CASE q <= m
      <4>1. step * q <= step * m
        BY <3>2, <2>1, <1>1, Times
      <4>2. step * m = m * step /\ m * step \in Int /\ step * q \in Int
        BY <2>1
      <4>3. num < m * step + step
        BY <4>1, <4>2, <2>1, <2>3
      <4>4. ~(first + m * step < stop)
        BY <4>3, <4>2, <2>3
      <4> QED BY <4>4, <3>2, <2>1
    <3> QED BY <3>1, <3>2, <2>1
  <2> HIDE DEF size
  <2> QED BY <2>2, <2>4, <2>5, <1>1
<1>2. CASE step < 0
  <2>0. PICK k \in Nat \ {0} : k = -step
    BY <1>2
  <2> DEFINE num == first - stop - step - 1
             q == num \div k
             size == IF q < 0 THEN 0 ELSE q
  <2>1. q \in Int /\ k * q <= num /\ num < k * q + k
    <3>1. num \in Int
      OBVIOUS
    <3> HIDE DEF num
    <3> QED BY <3>1, Quotient
  <2>2. range(<<first, stop, step>>) = [i \in 1..size |-> first + (i - 1) * step]
    BY <1>2, <2>0 DEF range
  <2>3. num = first - stop + k - 1 /\ num \in Int
    BY <2>0
  <2> HIDE DEF q, num
  <2>4. size \in Nat
    BY <2>1
  <2>5. ASSUME NEW m \in Nat PROVE m < size <=> first + m * step > stop
    <3>0. m * step = -(m * k) /\ m * k \in Int /\ k * m = m * k
      BY <2>0
    <3>1. CASE m < q
      <4>1. k * (m + 1) <= k * q
        BY <3>1, <2>0, <2>1, Times
      <4>2. k * (m + 1) = m * k + k
        BY <2>0
      <4>3. k * q \in Int
        BY <2>0, <2>1
      <4>4. m * k + k <= num
        BY <4>1, <4>2, <4>3, <2>0, <2>1, <2>3, <3>0
      <4>5. first + m * step > stop
        BY <4>4, <2>0, <2>3, <3>0
      <4> QED BY <4>5, <3>1, <2>1
    <3>2. CASE q <= m
      <4>1. k * q <= k * m
        BY <3>2, <2>0, <2>1, Times
      <4>2. k * q \in Int
        BY <2>0, <2>1
      <4>3. num < m * k + k
        BY <4>1, <4>2, <2>0, <2>1, <2>3, <3>0
      <4>4. ~(first + m * step > stop)
        BY <4>3, <2>0, <2>3, <3>0
      <4> QED BY <4>4, <3>2, <2>1
    <3> QED BY <3>1, <3>2, <2>1
  <2> HIDE DEF size
  <2>6. \A m \in Nat :
          m < size <=> IF step > 0 THEN first + m * step < stop ELSE first + m * step > stop
    BY <2>5, <1>2
  <2> USE <2>4
  <2> WITNESS size \in Nat
  <2> QED BY <2>2, <2>6
<1>3. step > 0 \/ step < 0
  OBVIOUS
<1> QED BY <1>1, <1>2, <1>3, Zenon

\* The start and stop of a slice, and the same from its caller's side.
Stops(stop, n, step, p) ==
  stop # None => IF step > 0 THEN p < (IF stop < 0 THEN stop + n ELSE stop)
                 ELSE p > (IF stop < 0 THEN stop + n ELSE stop)

First(start, n, step) ==
  IF step > 0 THEN (IF start = None \/ (IF start < 0 THEN start + n ELSE start) < 0 THEN 0
                    ELSE IF start < 0 THEN start + n ELSE start)
  ELSE (IF start = None \/ (IF start < 0 THEN start + n ELSE start) >= n THEN n - 1
        ELSE IF start < 0 THEN start + n ELSE start)

\* A slice of a table of n rows starts and stops within it, and every position of
\* the table is before its stop exactly if the caller's stop says so.  A start
\* behind the table is moved to its end.
LEMMA SliceEnds ==
  ASSUME NEW s, {s[1], s[2], s[3]} \subseteq Int \cup {None}, s[3] # 0, NEW n \in Nat
  PROVE  LET ends == slice_indices(s, n)
             step == IF s[3] = None THEN 1 ELSE s[3]
         IN  /\ step \in Int /\ step # 0
             /\ ends = <<ends[1], ends[2], step>> /\ ends[3] = step
             /\ step > 0 => ends[1] \in 0..n /\ ends[2] \in 0..n
             /\ step < 0 => ends[1] \in (-1)..(n - 1) /\ ends[2] \in (-1)..(n - 1)
             /\ \A p \in 0..(n - 1) :
                  (IF step > 0 THEN p < ends[2] ELSE p > ends[2]) <=> Stops(s[2], n, step, p)
             /\ First(s[1], n, step) \in Int
             /\ ends[1] = First(s[1], n, step)
                  \/ (step > 0 /\ ends[1] = n /\ First(s[1], n, step) >= n)
                  \/ (step < 0 /\ ends[1] = -1 /\ First(s[1], n, step) <= -1)
<1> DEFINE step == IF s[3] = None THEN 1 ELSE s[3]
           lower == IF step > 0 THEN 0 ELSE -1
           upper == IF step > 0 THEN n ELSE n - 1
           Clip(x) == IF x < 0 THEN (IF x + n < lower THEN lower ELSE x + n)
                      ELSE (IF x > upper THEN upper ELSE x)
           e1 == IF s[1] = None THEN (IF step > 0 THEN lower ELSE upper) ELSE Clip(s[1])
           e2 == IF s[2] = None THEN (IF step > 0 THEN upper ELSE lower) ELSE Clip(s[2])
<1>1. slice_indices(s, n) = <<e1, e2, step>>
  BY DEF slice_indices
<1>2. step \in Int /\ step # 0 /\ s[1] \in Int \cup {None} /\ s[2] \in Int \cup {None}
  OBVIOUS
<1>3. CASE step > 0
  <2>1. lower = 0 /\ upper = n
    BY <1>3
  <2> HIDE DEF step, lower, upper
  <2>2. e1 \in 0..n /\ e2 \in 0..n
    BY <1>2, <1>3, <2>1
  <2>3. \A p \in 0..(n - 1) : p < e2 <=> Stops(s[2], n, step, p)
    BY <1>2, <1>3, <2>1 DEF Stops
  <2>4. First(s[1], n, step) \in Int
        /\ (e1 = First(s[1], n, step) \/ (e1 = n /\ First(s[1], n, step) >= n))
    BY <1>2, <1>3, <2>1 DEF First
  <2> HIDE DEF e1, e2
  <2> QED BY <1>1, <1>2, <1>3, <2>2, <2>3, <2>4 DEF step
<1>4. CASE step < 0
  <2>0. ~(step > 0)
    BY <1>2, <1>4
  <2>1. lower = -1 /\ upper = n - 1
    BY <2>0
  <2> HIDE DEF step, lower, upper
  <2>2. e1 \in (-1)..(n - 1) /\ e2 \in (-1)..(n - 1)
    BY <1>2, <2>0, <2>1
  <2>3. \A p \in 0..(n - 1) : p > e2 <=> Stops(s[2], n, step, p)
    BY <1>2, <2>0, <2>1 DEF Stops
  <2>4. First(s[1], n, step) \in Int
        /\ (e1 = First(s[1], n, step) \/ (e1 = -1 /\ First(s[1], n, step) <= -1))
    BY <1>2, <2>0, <2>1 DEF First
  <2> HIDE DEF e1, e2
  <2> QED BY <1>1, <1>2, <1>4, <2>0, <2>2, <2>3, <2>4 DEF step
<1>5. step > 0 \/ step < 0
  BY <1>2
<1> QED BY <1>3, <1>4, <1>5, Zenon

\* The positions of a slice, as the model computes them and as its caller means
\* them.
SliceSet(s, n) ==
  LET step == IF s[3] = None THEN 1 ELSE s[3] IN
  {p \in 0..(n - 1) : (\E m \in 0..n : p = First(s[1], n, step) + m * step)
                       /\ Stops(s[2], n, step, p)}

\* A slice's positions are those its caller means, evenly spaced.
LEMMA SlicePositions ==
  ASSUME NEW s, {s[1], s[2], s[3]} \subseteq Int \cup {None}, s[3] # 0, NEW n \in Nat,
         NEW list, list = range(slice_indices(s, n))
  PROVE  LET ends == slice_indices(s, n)
             step == IF s[3] = None THEN 1 ELSE s[3]
         IN  /\ step \in Int /\ step # 0 /\ ends[3] = step
             /\ ends[1] \in Int /\ ends[2] \in Int
             /\ step > 0 => ends[1] \in 0..n /\ ends[2] \in 0..n
             /\ \E size \in Nat :
                  /\ list = [i \in 1..size |-> ends[1] + (i - 1) * step]
                  /\ step > 0 => \A m \in Nat : m < size <=> ends[1] + m * step < ends[2]
             /\ list \in Seq(0..(n - 1))
             /\ Range(list) = SliceSet(s, n)
             /\ \A i, j \in DOMAIN list :
                  i < j => IF step > 0 THEN list[i] < list[j] ELSE list[i] > list[j]
<1> DEFINE ends == slice_indices(s, n)
           step == IF s[3] = None THEN 1 ELSE s[3]
           first == First(s[1], n, step)
<1>1. /\ step \in Int /\ step # 0
      /\ ends = <<ends[1], ends[2], step>> /\ ends[3] = step
      /\ step > 0 => ends[1] \in 0..n /\ ends[2] \in 0..n
      /\ step < 0 => ends[1] \in (-1)..(n - 1) /\ ends[2] \in (-1)..(n - 1)
      /\ \A p \in 0..(n - 1) :
           (IF step > 0 THEN p < ends[2] ELSE p > ends[2]) <=> Stops(s[2], n, step, p)
      /\ first \in Int
      /\ ends[1] = first \/ (step > 0 /\ ends[1] = n /\ first >= n)
                         \/ (step < 0 /\ ends[1] = -1 /\ first <= -1)
  BY SliceEnds
<1>2. SliceSet(s, n) = {p \in 0..(n - 1) : (\E m \in 0..n : p = first + m * step)
                                          /\ Stops(s[2], n, step, p)}
  BY DEF SliceSet
<1> DEFINE e1 == ends[1]
           e2 == ends[2]
<1>3. list = range(<<e1, e2, step>>)
  BY <1>1
<1> HIDE DEF ends, step, first, e1, e2
<1>4. e1 \in Int /\ e2 \in Int
  <2>1. step > 0 \/ step < 0
    BY <1>1
  <2> QED BY <2>1, <1>1 DEF e1, e2
<1>5. PICK size \in Nat :
        /\ range(<<e1, e2, step>>) = [i \in 1..size |-> e1 + (i - 1) * step]
        /\ \A m \in Nat : m < size <=> IF step > 0 THEN e1 + m * step < e2 ELSE e1 + m * step > e2
  <2>1. step \in Int /\ step # 0
    BY <1>1
  <2>2. \E size \in Nat :
          /\ range(<<e1, e2, step>>) = [i \in 1..size |-> e1 + (i - 1) * step]
          /\ \A m \in Nat :
               m < size <=> IF step > 0 THEN e1 + m * step < e2 ELSE e1 + m * step > e2
    BY <2>1, <1>4, RangeSize, Zenon
  <2> QED BY <2>2, Zenon
<1>6. list = [i \in 1..size |-> e1 + (i - 1) * step] /\ DOMAIN list = 1..size
  BY <1>3, <1>5
<1>7. ASSUME NEW m \in Nat
      PROVE  /\ m * step \in Int
             /\ step > 0 => m <= m * step
             /\ step < 0 => m * step <= -m
  <2>1. m * step \in Int
    BY <1>1
  <2>2. step > 0 => m * 1 <= m * step
    BY <1>1, Times
  <2>3. step < 0 => m * step <= m * (-1)
    BY <1>1, Times
  <2> QED BY <2>1, <2>2, <2>3
<1> DEFINE Right(p, m) == p \in 0..(n - 1) /\ p = first + m * step /\ m \in 0..n
                          /\ Stops(s[2], n, step, p)
<1>8. ASSUME NEW m \in Nat, m < size PROVE Right(e1 + m * step, m)
  <2>1. CASE step > 0
    <3>1. e1 + m * step < e2 /\ m <= m * step /\ m * step \in Int
      BY <1>5, <1>7, <1>8, <2>1
    <3>2. e1 \in 0..n /\ e2 \in 0..n
      BY <1>1, <2>1 DEF e1, e2
    <3>3. e1 + m * step \in 0..(n - 1) /\ m \in 0..n
      BY <3>1, <3>2
    <3>4. e1 = first
      BY <1>1, <2>1, <3>1, <3>2 DEF e1
    <3>5. Stops(s[2], n, step, e1 + m * step)
      BY <1>1, <2>1, <3>1, <3>3 DEF e2
    <3> QED BY <3>3, <3>4, <3>5
  <2>2. CASE step < 0
    <3>0. ~(step > 0)
      BY <1>1, <2>2
    <3>1. e1 + m * step > e2 /\ m * step <= -m /\ m * step \in Int
      BY <1>5, <1>7, <1>8, <2>2, <3>0
    <3>2. e1 \in (-1)..(n - 1) /\ e2 \in (-1)..(n - 1)
      BY <1>1, <2>2 DEF e1, e2
    <3>3. e1 + m * step \in 0..(n - 1) /\ m \in 0..n
      BY <3>1, <3>2
    <3>4. e1 = first
      BY <1>1, <3>0, <3>1, <3>2 DEF e1
    <3>5. Stops(s[2], n, step, e1 + m * step)
      BY <1>1, <3>0, <3>1, <3>3 DEF e2
    <3> QED BY <3>3, <3>4, <3>5
  <2>3. step > 0 \/ step < 0
    BY <1>1
  <2> QED BY <2>1, <2>2, <2>3, Zenon
<1>9. ASSUME NEW p, NEW m \in 0..n, Right(p, m) PROVE m < size /\ p = e1 + m * step
  <2>0. m \in Nat /\ m * step \in Int
    BY <1>7
  <2>1. CASE step > 0
    <3>1. m <= m * step
      BY <1>7, <2>0, <2>1
    <3>2. e1 = first
      BY <1>1, <1>9, <2>0, <2>1, <3>1 DEF e1
    <3>3. p < e2
      BY <1>1, <1>9, <2>1 DEF e2
    <3> QED BY <3>2, <3>3, <1>5, <1>9, <2>0, <2>1
  <2>2. CASE step < 0
    <3>0. ~(step > 0)
      BY <1>1, <2>2
    <3>1. m * step <= -m
      BY <1>7, <2>0, <2>2
    <3>2. e1 = first
      BY <1>1, <1>9, <2>0, <3>0, <3>1 DEF e1
    <3>3. p > e2
      BY <1>1, <1>9, <3>0 DEF e2
    <3> QED BY <3>2, <3>3, <1>5, <1>9, <2>0, <3>0
  <2>3. step > 0 \/ step < 0
    BY <1>1
  <2> QED BY <2>1, <2>2, <2>3, Zenon
<1>10. \A i \in 1..size : i - 1 \in Nat /\ i - 1 < size
  OBVIOUS
<1>11. list \in Seq(0..(n - 1))
  <2>1. \A i \in 1..size : e1 + (i - 1) * step \in 0..(n - 1)
    BY <1>8, <1>10
  <2>2. list \in [1..size -> 0..(n - 1)]
    BY <1>6, <2>1
  <2> QED BY <2>2
<1>12. Range(list) = SliceSet(s, n)
  <2>1. ASSUME NEW i \in 1..size PROVE list[i] \in SliceSet(s, n)
    <3>1. Right(e1 + (i - 1) * step, i - 1)
      BY <1>8, <1>10
    <3>2. list[i] = e1 + (i - 1) * step
      BY <1>6
    <3> QED BY <1>2, <3>1, <3>2
  <2>2. ASSUME NEW p \in SliceSet(s, n) PROVE \E i \in 1..size : list[i] = p
    <3>1. PICK m \in 0..n : Right(p, m)
      BY <1>2
    <3>2. m < size /\ p = e1 + m * step
      BY <3>1, <1>9
    <3>3. m + 1 \in 1..size /\ (m + 1) - 1 = m
      BY <3>2
    <3>4. list[m + 1] = e1 + m * step
      BY <1>6, <3>3
    <3> QED BY <3>2, <3>3, <3>4
  <2> QED BY <2>1, <2>2, <1>6 DEF Range
<1>13. ASSUME NEW i \in 1..size, NEW j \in 1..size, i < j
       PROVE  IF step > 0 THEN list[i] < list[j] ELSE list[i] > list[j]
  <2>1. PICK d \in Nat \ {0} : j = i + d
    <3>1. j - i \in Nat \ {0} /\ j = i + (j - i)
      BY <1>13
    <3> QED BY <3>1
  <2>2. list[i] = e1 + (i - 1) * step /\ list[j] = e1 + (j - 1) * step
    BY <1>6
  <2>3. (j - 1) * step = (i - 1) * step + d * step /\ (i - 1) * step \in Int
    BY <2>1, <1>1
  <2>4. d * step \in Int /\ (step > 0 => d * step > 0) /\ (step < 0 => d * step < 0)
    BY <1>7, <2>1
  <2> QED BY <2>2, <2>3, <2>4, <1>1, <1>4
<1>14. step > 0 => \A m \in Nat : m < size <=> e1 + m * step < e2
  BY <1>5
<1>15. \E z \in Nat : /\ list = [i \in 1..z |-> e1 + (i - 1) * step]
                      /\ step > 0 => \A m \in Nat : m < z <=> e1 + m * step < e2
  BY <1>6, <1>14
<1>16. \A i, j \in DOMAIN list :
         i < j => IF step > 0 THEN list[i] < list[j] ELSE list[i] > list[j]
  BY <1>6, <1>13
<1> QED BY <1>1, <1>4, <1>11, <1>12, <1>15, <1>16 DEF ends, step, e1, e2

-----------------------------------------------------------------------------
(* Keys.                                                                   *)

\* The list of a mask's positions has each at the place that counts the marked
\* rows up to it.
LEMMA MaskList ==
  ASSUME NEW n \in Nat, NEW S, S \subseteq 0..(n - 1)
  PROVE  /\ Listed(S) \in Seq(0..(n - 1))
         /\ Listed(S) = [i \in 1..Cardinality(S) |->
                           CHOOSE p \in S : Cardinality({q \in S : q <= p}) = i]
<1> DEFINE key0 == [x \in S |-> x]
           size == Cardinality(S)
           Upto(p) == {q \in S : q <= p}
           Under(p) == {q \in S : Before(key0, q, p)}
           list == Ordered(S, key0)
<1>1. IsFiniteSet(S) /\ S \subseteq Int
  <2>1. IsFiniteSet(0..(n - 1))
    BY FS_Interval
  <2>2. IsFiniteSet(S)
    BY <2>1, FS_Subset, Zenon
  <2>3. 0..(n - 1) \subseteq Int
    OBVIOUS
  <2> QED BY <2>2, <2>3
<1>2. \A x \in S : key0[x] \in Int
  BY <1>1
<1>3. /\ size \in Nat /\ list \in [1..size -> S]
      /\ \A i \in 1..size : Cardinality(Under(list[i])) = i - 1
  <2> HIDE DEF key0
  <2> QED BY <1>1, <1>2, OrderedList
<1>4. ASSUME NEW p \in S
      PROVE  /\ Cardinality(Upto(p)) = Cardinality(Under(p)) + 1
             /\ Cardinality(Upto(p)) \in Nat /\ IsFiniteSet(Upto(p))
  <2>0. ASSUME NEW q \in S PROVE Before(key0, q, p) <=> q < p
    <3>1. key0[q] = q /\ key0[p] = p
      OBVIOUS
    <3> HIDE DEF key0
    <3>2. q \in Int /\ p \in Int
      BY <1>1
    <3> QED BY <3>1, <3>2 DEF Before
  <2> HIDE DEF key0
  <2>1a. \A q \in S : q <= p <=> q < p \/ q = p
    BY <1>1
  <2>1. Upto(p) = Under(p) \cup {p} /\ p \notin Under(p)
    <3>1. ~(p < p)
      BY <1>1
    <3> QED BY <2>0, <2>1a, <3>1
  <2>2. IsFiniteSet(Under(p))
    BY <1>1, FS_Subset
  <2> HIDE DEF Upto, Under
  <2>3. IsFiniteSet(Upto(p)) /\ Cardinality(Upto(p)) = Cardinality(Under(p)) + 1
    BY <2>1, <2>2, FS_AddElement
  <2> QED BY <2>3, FS_CardinalityType
<1>5. ASSUME NEW p \in S, NEW r \in S, p < r PROVE Cardinality(Upto(p)) < Cardinality(Upto(r))
  <2>1. Upto(p) \subseteq Upto(r) /\ r \in Upto(r) /\ r \notin Upto(p)
    <3>1. p \in Int /\ r \in Int
      BY <1>1
    <3>2. ASSUME NEW q \in S, q <= p PROVE q <= r
      <4>1. q \in Int
        BY <1>1
      <4> QED BY <4>1, <1>5, <3>1, <3>2
    <3>3. ~(r <= p) /\ r <= r
      BY <1>5, <3>1
    <3> QED BY <3>2, <3>3
  <2> HIDE DEF Upto
  <2> QED BY <2>1, <1>4, StrictSubset
<1> HIDE DEF key0, Upto, Under, list, size
<1>6. ASSUME NEW i \in 1..size
      PROVE  list[i] = CHOOSE p \in S : Cardinality(Upto(p)) = i
  <2>1. list[i] \in S /\ Cardinality(Upto(list[i])) = i
    <3>1. list[i] \in S /\ Cardinality(Under(list[i])) = i - 1
      BY <1>3
    <3>2. Cardinality(Upto(list[i])) = Cardinality(Under(list[i])) + 1
      BY <3>1, <1>4
    <3>3. i \in Int
      BY <1>3
    <3> QED BY <3>1, <3>2, <3>3
  <2>2. ASSUME NEW p \in S, NEW r \in S, Cardinality(Upto(p)) = i, Cardinality(Upto(r)) = i
        PROVE  p = r
    <3>1. p \in Int /\ r \in Int
      BY <1>1
    <3>2. ~(p < r) /\ ~(r < p)
      BY <1>5, <2>2
    <3> QED BY <3>1, <3>2
  <2> DEFINE c == CHOOSE p \in S : Cardinality(Upto(p)) = i
  <2>3. c \in S /\ Cardinality(Upto(c)) = i
    BY <2>1
  <2> HIDE DEF c
  <2>4. list[i] = c
    BY <2>1, <2>2, <2>3
  <2> QED BY <2>4 DEF c
<1>7. list = [i \in 1..size |-> CHOOSE p \in S : Cardinality(Upto(p)) = i]
  BY <1>3, <1>6
<1>8. list \in Seq(0..(n - 1))
  <2>1. list \in [1..size -> 0..(n - 1)]
    BY <1>3
  <2> QED BY <2>1, <1>3
<1>9. Listed(S) = list
  BY DEF Listed, list, key0
<1> QED BY <1>7, <1>8, <1>9 DEF size, Upto

\* What a key stands for is what its caller means by it, and is refused exactly
\* when it is out of range.
LEMMA ResolvedRight ==
  ASSUME IsKey(key), nrows \in Nat, want = Resolve(key, nrows)
  PROVE  /\ want = Error => OutOfRange
         /\ want # Error => ~OutOfRange /\ want \in Seq(0..(nrows - 1)) /\ want = Wanted
<1>0. Error \notin Seq(0..(nrows - 1))
  <2>1. Seq(0..(nrows - 1)) \subseteq Seq(Int)
    OBVIOUS
  <2> QED BY <2>1, ReadsAssumption
<1>1. CASE key.form = "mask"
  <2>1. want = mask_positions(key.of, nrows)
    BY <1>1, Zenon DEF Resolve
  <2>2. OutOfRange <=> Len(key.of) # nrows
    BY <1>1 DEF OutOfRange
  <2> DEFINE S == {p \in 0..(nrows - 1) : key.of[p + 1]}
  <2>3. want = IF Len(key.of) # nrows THEN Error ELSE Listed(S)
    BY <2>1 DEF mask_positions
  <2>4. Wanted = [i \in 1..Cardinality(S) |->
                    CHOOSE p \in S : Cardinality({q \in S : q <= p}) = i]
    BY <1>1 DEF Wanted
  <2>5. S \subseteq 0..(nrows - 1)
    OBVIOUS
  <2> HIDE DEF S
  <2>6. Listed(S) \in Seq(0..(nrows - 1)) /\ Listed(S) = Wanted
    BY <2>4, <2>5, MaskList
  <2> QED BY <1>0, <2>2, <2>3, <2>6
<1>2. CASE key.form = "slice"
  <2>1. want = range(slice_indices(key.of, nrows))
    <3>1. key.form # "mask"
      BY <1>2
    <3> QED BY <1>2, <3>1, Zenon DEF Resolve
  <2>2. {key.of[1], key.of[2], key.of[3]} \subseteq Int \cup {None} /\ key.of[3] # 0
    BY <1>2 DEF IsKey
  <2>3. want \in Seq(0..(nrows - 1))
    BY <2>1, <2>2, SlicePositions, Zenon
  <2>4. ~OutOfRange /\ want = Wanted
    BY <1>2 DEF OutOfRange, Wanted
  <2> QED BY <1>0, <2>3, <2>4
<1>3. CASE key.form \notin {"mask", "slice"}
  <2>1. want = row_positions(key.of, nrows)
    BY <1>3, Zenon DEF Resolve
  <2>2. key.of \in Seq(Int)
    BY <1>3 DEF IsKey
  <2> DEFINE idx == [i \in DOMAIN key.of |-> Entry(key.of[i])]
  <2>3. want = IF Range(idx) \subseteq 0..(nrows - 1) THEN idx ELSE Error
    BY <2>1 DEF row_positions, Entry
  <2>4. Wanted = idx
    BY <1>3 DEF Wanted
  <2>5. OutOfRange <=> \E i \in DOMAIN key.of : idx[i] \notin 0..(nrows - 1)
    BY <1>3 DEF OutOfRange
  <2>6. Range(idx) = {idx[i] : i \in DOMAIN key.of}
    BY DEF Range
  <2>7. Range(idx) \subseteq 0..(nrows - 1) <=> ~OutOfRange
    <3> HIDE DEF idx
    <3> QED BY <2>5, <2>6
  <2>8. Range(idx) \subseteq 0..(nrows - 1) => idx \in Seq(0..(nrows - 1))
    <3>1. DOMAIN key.of = 1..Len(key.of) /\ Len(key.of) \in Nat
      BY <2>2
    <3>2. SUFFICES ASSUME \A i \in 1..Len(key.of) : idx[i] \in 0..(nrows - 1)
                   PROVE  idx \in Seq(0..(nrows - 1))
      BY <2>6, <3>1
    <3>3. idx \in [1..Len(key.of) -> 0..(nrows - 1)]
      BY <3>1, <3>2
    <3> HIDE DEF idx
    <3> QED BY <3>1, <3>3
  <2> HIDE DEF idx
  <2> QED BY <1>0, <2>3, <2>4, <2>7, <2>8
<1> QED BY <1>1, <1>2, <1>3

\* The positions of a slice are the rows it runs through, in its direction.
LEMMA SliceRight ==
  ASSUME IsKey(key), nrows \in Nat, want = Resolve(key, nrows), key.form = "slice"
  PROVE  LET step == IF key.of[3] = None THEN 1 ELSE key.of[3] IN
         /\ Range(want) = SliceRows(key.of[1], key.of[2], step)
         /\ \A i, j \in DOMAIN want : i < j => IF step > 0 THEN want[i] < want[j] ELSE want[i] > want[j]
<1>1. want = range(slice_indices(key.of, nrows))
  BY Zenon DEF Resolve
<1>2. {key.of[1], key.of[2], key.of[3]} \subseteq Int \cup {None} /\ key.of[3] # 0
  BY DEF IsKey
<1> DEFINE step == IF key.of[3] = None THEN 1 ELSE key.of[3]
<1>3. /\ Range(want) = SliceSet(key.of, nrows)
      /\ \A i, j \in DOMAIN want : i < j => IF step > 0 THEN want[i] < want[j] ELSE want[i] > want[j]
  BY <1>1, <1>2, SlicePositions, Zenon
<1>4. SliceSet(key.of, nrows) = SliceRows(key.of[1], key.of[2], step)
  <2>1. First(key.of[1], nrows, step) =
          IF step > 0 THEN (IF key.of[1] = None \/ Entry(key.of[1]) < 0 THEN 0 ELSE Entry(key.of[1]))
          ELSE (IF key.of[1] = None \/ Entry(key.of[1]) >= nrows THEN nrows - 1 ELSE Entry(key.of[1]))
    BY Zenon DEF First, Entry
  <2>2. \A p : Stops(key.of[2], nrows, step, p) <=>
          (key.of[2] # None => IF step > 0 THEN p < Entry(key.of[2]) ELSE p > Entry(key.of[2]))
    BY Zenon DEF Stops, Entry
  <2> DEFINE f == First(key.of[1], nrows, step)
  <2>3. SliceSet(key.of, nrows) =
          {p \in 0..(nrows - 1) : (\E m \in 0..nrows : p = f + m * step)
                                 /\ Stops(key.of[2], nrows, step, p)}
    BY DEF SliceSet
  <2>4. SliceRows(key.of[1], key.of[2], step) =
          {p \in 0..(nrows - 1) : (\E m \in 0..nrows : p = f + m * step)
             /\ (key.of[2] # None => IF step > 0 THEN p < Entry(key.of[2]) ELSE p > Entry(key.of[2]))}
    BY <2>1, Zenon DEF SliceRows
  <2> HIDE DEF f, step
  <2> QED BY <2>2, <2>3, <2>4, Zenon
<1> QED BY <1>3, <1>4

-----------------------------------------------------------------------------
(* Values.                                                                 *)

\* A value that could be encoded comes back as what its caller meant.
LEMMA EncodeDecode ==
  ASSUME column \in Columns, NEW v, encode(v) # Error
  PROVE  decode(encode(v)) = Meant(v)
<1>0. /\ column.kind \in {"number", "boolean", "categorical", "list"}
      /\ column.kind = "boolean" => column.fill = NoFill
      /\ column.kind = "categorical" => column.fill \notin 0..(Len(Labels) - 1)
      /\ Len(Labels) \in Nat /\ DOMAIN Labels = 1..Len(Labels)
  BY ReadsAssumption
<1>1. CASE column.kind = "list"
  <2>1. encode(v) = v
    BY <1>1 DEF encode
  <2>2. decode(v) = v /\ Meant(v) = v
    BY <1>1 DEF decode, Meant
  <2> QED BY <2>1, <2>2
<1>2. CASE column.kind # "list" /\ v = None
  <2>1. encode(v) = column.fill /\ column.fill # NoFill
    BY <1>2 DEF encode
  <2>2. decode(column.fill) = None
    BY <1>2, <2>1 DEF decode
  <2>3. Meant(v) = None
    BY <1>2 DEF Meant
  <2> QED BY <2>1, <2>2, <2>3
<1>3. CASE column.kind = "categorical" /\ v # None
  <2>0. column.kind # "list" /\ column.kind # "number"
    BY <1>3
  <2> DEFINE at == CHOOSE i \in DOMAIN Labels : Labels[i] = v
  <2>1. encode(v) = at - 1 /\ v \in Range(Labels)
    BY <1>3, <2>0 DEF encode
  <2>2. at \in 1..Len(Labels) /\ Labels[at] = v
    BY <2>1, <1>0 DEF Range
  <2> HIDE DEF at
  <2>3. at - 1 \in 0..(Len(Labels) - 1) /\ (at - 1) + 1 = at
    BY <2>2, <1>0
  <2>4. ~(column.fill # NoFill /\ at - 1 = column.fill)
    BY <1>0, <1>3, <2>3
  <2>5. decode(at - 1) = Labels[(at - 1) + 1]
    BY <1>3, <2>0, <2>3, <2>4 DEF decode
  <2>6. Meant(v) = v
    BY <2>0 DEF Meant
  <2> QED BY <2>1, <2>2, <2>3, <2>5, <2>6
<1>4. CASE column.kind = "boolean" /\ v # None
  <2>0. column.kind # "list" /\ column.kind # "number" /\ column.kind # "categorical"
    BY <1>4
  <2>1. encode(v) = v
    BY <1>4, <2>0 DEF encode
  <2>2. decode(v) = v
    BY <1>0, <1>4, <2>0 DEF decode
  <2>3. Meant(v) = v
    BY <2>0 DEF Meant
  <2> QED BY <2>1, <2>2, <2>3
<1>5. CASE column.kind = "number" /\ v # None
  <2>0. column.kind # "list" /\ column.kind # "boolean" /\ column.kind # "categorical"
    BY <1>5
  <2>1. encode(v) = v
    BY <1>5, <2>0 DEF encode
  <2>2. decode(v) = Meant(v)
    BY <1>5, <2>0 DEF decode, Meant
  <2> QED BY <2>1, <2>2
<1> QED BY <1>0, <1>1, <1>2, <1>3, <1>4, <1>5

\* A value callers append is stored as a value of the dataset's.
LEMMA EncodedCell ==
  ASSUME column \in Columns, NEW v \in Values, encode(v) # Error
  PROVE  encode(v) \in Cells
<1>1. column.fill \in {c.fill : c \in Columns}
  OBVIOUS
<1>2. encode(v) = v \/ encode(v) = column.fill
        \/ (v \in Range(Labels) /\ encode(v) = (CHOOSE i \in DOMAIN Labels : Labels[i] = v) - 1)
  BY DEF encode
<1>3. ASSUME v \in Range(Labels)
      PROVE  (CHOOSE i \in DOMAIN Labels : Labels[i] = v) - 1 \in 0..Len(Labels)
  <2> DEFINE at == CHOOSE i \in DOMAIN Labels : Labels[i] = v
  <2>1. at \in DOMAIN Labels
    BY <1>3 DEF Range
  <2>2. Labels \in Seq(Range(Labels))
    BY ReadsAssumption
  <2> HIDE DEF at
  <2>3. at - 1 \in 0..Len(Labels)
    BY <2>1, <2>2
  <2> QED BY <2>3 DEF at
<1> QED BY <1>1, <1>2, <1>3 DEF Cells

\* The rows of a block.
LEMMA BlockRows ==
  ASSUME stored \in Seq(Cells), NEW lo \in Nat, NEW hi \in Nat, hi <= Len(stored)
  PROVE  /\ Block(lo, hi) \in Seq(Cells)
         /\ Len(Block(lo, hi)) = IF lo <= hi THEN hi - lo ELSE 0
         /\ \A p \in lo..(hi - 1) : Block(lo, hi)[p - lo + 1] = stored[p + 1]
<1>1. Block(lo, hi) = SubSeq(stored, lo + 1, hi)
  BY DEF Block
<1>2. \A i \in (lo + 1)..hi : stored[i] \in Cells
  <2>1. \A i \in 1..Len(stored) : stored[i] \in Cells
    OBVIOUS
  <2> QED BY <2>1
<1>3. lo + 1 \in Int /\ hi \in Int
  OBVIOUS
<1>4. /\ SubSeq(stored, lo + 1, hi) \in Seq(Cells)
      /\ Len(SubSeq(stored, lo + 1, hi)) = IF lo + 1 <= hi THEN hi - (lo + 1) + 1 ELSE 0
      /\ \A i \in 1..(hi - (lo + 1) + 1) : SubSeq(stored, lo + 1, hi)[i] = stored[(lo + 1) + i - 1]
  BY <1>2, <1>3, SubSeqProperties
<1> DEFINE b == SubSeq(stored, lo + 1, hi)
<1> HIDE DEF b
<1>5. ASSUME NEW p \in lo..(hi - 1) PROVE b[p - lo + 1] = stored[p + 1]
  <2>1. p - lo + 1 \in 1..(hi - (lo + 1) + 1) /\ (lo + 1) + (p - lo + 1) - 1 = p + 1
    OBVIOUS
  <2>2. \A i \in 1..(hi - (lo + 1) + 1) : b[i] = stored[(lo + 1) + i - 1]
    BY <1>4 DEF b
  <2> QED BY <2>1, <2>2
<1>6. Len(b) = IF lo <= hi THEN hi - lo ELSE 0
  BY <1>4 DEF b
<1> QED BY <1>1, <1>4, <1>5, <1>6 DEF b

\* An answer as the caller means its key stays one as long as the rows and the key
\* do.
LEMMA SameAnswer ==
  ASSUME UNCHANGED <<table, key, want>>,
         answer' = IF OutOfRange THEN Error
                   ELSE [i \in DOMAIN Wanted |-> Meant(given[Wanted[i] + 1])],
         key.form = "slice" =>
           LET step == IF key.of[3] = None THEN 1 ELSE key.of[3] IN
           /\ Range(want) = SliceRows(key.of[1], key.of[2], step)
           /\ \A i, j \in DOMAIN want : i < j => IF step > 0 THEN want[i] < want[j] ELSE want[i] > want[j]
  PROVE  ReadsBack'
<1>1. column' = column /\ nrows' = nrows /\ stored' = stored /\ given' = given /\ key' = key /\ want' = want
  BY DEF table
<1>2. OutOfRange' = OutOfRange /\ Wanted' = Wanted
  BY <1>1 DEF OutOfRange, Wanted, Entry
<1> DEFINE rows == [i \in DOMAIN Wanted |-> Meant(given[Wanted[i] + 1])]
           step == IF key.of[3] = None THEN 1 ELSE key.of[3]
           run  == SliceRows(key.of[1], key.of[2], step)
<1>3. rows' = rows
  BY <1>1, <1>2 DEF Meant
<1>4. step' = step /\ run' = run
  BY <1>1 DEF SliceRows, Entry
<1>5. answer' = IF OutOfRange' THEN Error ELSE rows'
  BY <1>2, <1>3
<1>6. key'.form = "slice" =>
         /\ Range(want') = run'
         /\ \A i, j \in DOMAIN want' :
              i < j => IF step' > 0 THEN want'[i] < want'[j] ELSE want'[i] > want'[j]
  <2> HIDE DEF step
  <2>1. key.form = "slice" =>
          /\ Range(want) = run
          /\ \A i, j \in DOMAIN want : i < j => IF step > 0 THEN want[i] < want[j] ELSE want[i] > want[j]
    BY DEF step
  <2> HIDE DEF run
  <2> QED BY <2>1, <1>1, <1>4
<1> QED BY <1>5, <1>6 DEF ReadsBack

\* A read that answers with the stored values of its positions, in their order,
\* gives back what callers appended.
LEMMA Answered ==
  ASSUME RowsFit, IsKey(key), want = Resolve(key, nrows), want # Error,
         NEW values, values = [i \in DOMAIN want |-> stored[want[i] + 1]],
         Answer(values), UNCHANGED <<table, key, want>>
  PROVE  ReadsBack'
<1>1. nrows \in Nat
  BY ReadsAssumption DEF RowsFit
<1>2. ~OutOfRange /\ want \in Seq(0..(nrows - 1)) /\ want = Wanted
  BY <1>1, ResolvedRight
<1>3. ASSUME NEW i \in DOMAIN want PROVE decode(values[i]) = Meant(given[want[i] + 1])
  <2>1. want[i] + 1 \in 1..nrows
    BY <1>1, <1>2
  <2>2. stored[want[i] + 1] = encode(given[want[i] + 1]) /\ stored[want[i] + 1] # Error
    BY <2>1 DEF RowsFit
  <2>3. decode(encode(given[want[i] + 1])) = Meant(given[want[i] + 1])
    BY <2>2, EncodeDecode DEF RowsFit
  <2> QED BY <2>2, <2>3
<1>4. answer' = [i \in DOMAIN want |-> Meant(given[want[i] + 1])]
  <2>1. answer' = [i \in DOMAIN want |-> decode(values[i])]
    BY DEF Answer
  <2> QED BY <2>1, <1>3
<1>5. answer' = IF OutOfRange THEN Error ELSE [i \in DOMAIN Wanted |-> Meant(given[Wanted[i] + 1])]
  BY <1>2, <1>4
<1>6. key.form = "slice" =>
        LET step == IF key.of[3] = None THEN 1 ELSE key.of[3] IN
        /\ Range(want) = SliceRows(key.of[1], key.of[2], step)
        /\ \A i, j \in DOMAIN want : i < j => IF step > 0 THEN want[i] < want[j] ELSE want[i] > want[j]
  BY <1>1, SliceRight
<1> QED BY <1>5, <1>6, SameAnswer

-----------------------------------------------------------------------------
(* The readers that fetch one block.                                       *)

\* What a running read has resolved: positions of committed rows.
LEMMA Resolved ==
  ASSUME RowsFit, KeyFits, pc # "idle", want # Error
  PROVE  /\ nrows \in Nat /\ IsKey(key) /\ want = Resolve(key, nrows)
         /\ want \in Seq(0..(nrows - 1)) /\ want = Wanted
         /\ Len(want) \in Nat /\ DOMAIN want = 1..Len(want)
         /\ \A i \in DOMAIN want : want[i] \in 0..(nrows - 1)
         /\ Range(want) \subseteq 0..(nrows - 1) /\ IsFiniteSet(Range(want))
         /\ Range(want) = {want[i] : i \in DOMAIN want}
         /\ stored \in Seq(Cells) /\ Len(stored) \in Nat /\ nrows <= Len(stored)
<1>1. nrows \in Nat /\ stored \in Seq(Cells) /\ nrows <= Len(stored)
  BY ReadsAssumption DEF RowsFit
<1>2. IsKey(key) /\ want = Resolve(key, nrows)
  BY DEF KeyFits
<1>3. want \in Seq(0..(nrows - 1)) /\ want = Wanted
  BY <1>1, <1>2, ResolvedRight
<1>4. Len(want) \in Nat /\ DOMAIN want = 1..Len(want) /\ \A i \in DOMAIN want : want[i] \in 0..(nrows - 1)
  <2>1. Len(want) \in Nat /\ DOMAIN want = 1..Len(want)
    BY <1>3
  <2> DEFINE T == 0..(nrows - 1)
  <2>2. want \in Seq(T)
    BY <1>3
  <2> HIDE DEF T
  <2>3. \A i \in 1..Len(want) : want[i] \in T
    BY <2>2, ElementOfSeq
  <2> QED BY <2>1, <2>3 DEF T
<1>5. Range(want) = {want[i] : i \in DOMAIN want}
  BY DEF Range
<1>6. Range(want) \subseteq 0..(nrows - 1)
  BY <1>4, <1>5
<1>7. IsFiniteSet(0..(nrows - 1))
  BY <1>1, FS_Interval
<1>8. IsFiniteSet(Range(want))
  BY <1>6, <1>7, FS_Subset, Zenon
<1> QED BY <1>1, <1>2, <1>3, <1>4, <1>5, <1>6, <1>8

\* The positions of a slice, or of a row, are evenly spaced, by the difference of
\* the first two.
LEMMA Even ==
  ASSUME RowsFit, KeyFits, pc # "idle", want # Error, key.form \in {"slice", "row"}, want # <<>>
  PROVE  LET step == IF Len(want) < 2 THEN 1 ELSE want[2] - want[1] IN
         /\ step \in Int /\ step # 0
         /\ \A i \in 1..Len(want) : want[i] = want[1] + (i - 1) * step
<1> DEFINE step == IF Len(want) < 2 THEN 1 ELSE want[2] - want[1]
           L == Len(want)
<1>1. /\ nrows \in Nat /\ IsKey(key) /\ want = Resolve(key, nrows) /\ want = Wanted
      /\ L \in Nat /\ DOMAIN want = 1..L /\ \A i \in DOMAIN want : want[i] \in 0..(nrows - 1)
      /\ want \in Seq(0..(nrows - 1))
  BY Resolved
<1>2. L # 0
  BY <1>1
<1>3. CASE L = 1
  <2>1. step = 1
    BY <1>3
  <2>2. \A i \in 1..L : i = 1 /\ want[1] \in Int
    BY <1>1, <1>3
  <2> HIDE DEF step, L
  <2>3. \A i \in 1..L : want[i] = want[1] + (i - 1) * step
    BY <2>1, <2>2
  <2> QED BY <2>1, <2>3 DEF step, L
<1>4. CASE L >= 2
  <2>1. key.form = "slice"
    <3> SUFFICES ASSUME key.form = "row" PROVE FALSE
      OBVIOUS
    <3>1. Len(key.of) = 1 /\ key.of \in Seq(Int)
      BY <1>1 DEF IsKey
    <3>2. Wanted = [i \in DOMAIN key.of |-> Entry(key.of[i])]
      BY DEF Wanted
    <3>3. DOMAIN Wanted = 1..1
      BY <3>1, <3>2
    <3> QED BY <3>3, <1>1, <1>4
  <2>2. want = range(slice_indices(key.of, nrows))
    BY <1>1, <2>1, Zenon DEF Resolve
  <2>3. {key.of[1], key.of[2], key.of[3]} \subseteq Int \cup {None} /\ key.of[3] # 0
    BY <1>1, <2>1 DEF IsKey
  <2> DEFINE k  == IF key.of[3] = None THEN 1 ELSE key.of[3]
             e1 == slice_indices(key.of, nrows)[1]
  <2>4. /\ k \in Int /\ k # 0 /\ e1 \in Int
        /\ \E size \in Nat : want = [i \in 1..size |-> e1 + (i - 1) * k]
    <3>1. /\ k \in Int /\ k # 0 /\ e1 \in Int
          /\ \E size \in Nat :
               /\ want = [i \in 1..size |-> e1 + (i - 1) * k]
               /\ k > 0 => \A m \in Nat : m < size <=> e1 + m * k < slice_indices(key.of, nrows)[2]
      BY <1>1, <2>2, <2>3, SlicePositions, Zenon
    <3> HIDE DEF k, e1
    <3> QED BY <3>1
  <2> HIDE DEF k, e1
  <2>5. PICK size \in Nat : want = [i \in 1..size |-> e1 + (i - 1) * k]
    BY <2>4
  <2>6. size = L
    BY <2>5, <1>1
  <2>7. \A i \in 1..L : want[i] = e1 + (i - 1) * k
    BY <2>5, <2>6
  <2>8. 1 \in 1..L /\ 2 \in 1..L
    BY <1>1, <1>4
  <2>9. want[1] = e1 /\ want[2] = e1 + k
    <3>1. want[1] = e1 + (1 - 1) * k /\ want[2] = e1 + (2 - 1) * k
      BY <2>7, <2>8
    <3>2. (1 - 1) * k = 0 /\ (2 - 1) * k = k
      BY <2>4
    <3> QED BY <3>1, <3>2, <2>4
  <2>10. step = k
    BY <1>4, <2>9, <2>4
  <2> HIDE DEF step
  <2>11. \A i \in 1..L : want[i] = want[1] + (i - 1) * step
    BY <2>7, <2>9, <2>10
  <2> QED BY <2>4, <2>10, <2>11 DEF step
<1>5. L = 1 \/ L >= 2
  BY <1>1, <1>2
<1> QED BY <1>3, <1>4, <1>5, Zenon

\* One block from the lowest to the highest position has every row that is asked
\* for, and every step-th of its rows, forwards or reversed, are a slice's.
LEMMA SpanStep ==
  ASSUME ReadsInv, ReadSpan PROVE ReadsBack'
<1>0. RowsFit /\ KeyFits /\ pc = "resolved" /\ want # Error /\ UNCHANGED <<table, key, want>>
  BY DEF ReadsInv, ReadSpan
<1>1. /\ nrows \in Nat /\ IsKey(key) /\ want = Resolve(key, nrows)
      /\ want \in Seq(0..(nrows - 1)) /\ want = Wanted
      /\ Len(want) \in Nat /\ DOMAIN want = 1..Len(want)
      /\ \A i \in DOMAIN want : want[i] \in 0..(nrows - 1)
      /\ Range(want) \subseteq 0..(nrows - 1) /\ IsFiniteSet(Range(want))
      /\ Range(want) = {want[i] : i \in DOMAIN want}
      /\ stored \in Seq(Cells) /\ Len(stored) \in Nat /\ nrows <= Len(stored)
  BY <1>0, Resolved
<1> DEFINE lo == IF want = <<>> THEN 0 ELSE Min(Range(want))
           hi == IF want = <<>> THEN 0 ELSE Max(Range(want)) + 1
           span == Block(lo, hi)
           step == IF Len(want) < 2 THEN 1 ELSE want[2] - want[1]
           strided(k) == [i \in DOMAIN want |-> span[(i - 1) * k + 1]]
           values == IF column.kind = "list" THEN [i \in DOMAIN want |-> span[want[i] - lo + 1]]
                     ELSE IF step > 0 THEN strided(step)
                     ELSE Reverse(strided(-step))
           rows == [i \in DOMAIN want |-> stored[want[i] + 1]]
<1>2. Answer(values)
  BY DEF ReadSpan
<1>3. values = rows
  <2>1. CASE want = <<>>
    <3>1. DOMAIN want = {} /\ step = 1
      BY <2>1
    <3>2. values = [i \in DOMAIN want |-> span[want[i] - lo + 1]] \/ values = strided(step)
      <4>1. step > 0
        BY <3>1
      <4> HIDE DEF step, strided
      <4> QED BY <4>1
    <3>3. [i \in DOMAIN want |-> span[want[i] - lo + 1]] = rows
      BY <3>1
    <3>4. strided(step) = rows
      BY <3>1
    <3> HIDE DEF values, strided, step, rows, span, lo
    <3> QED BY <3>2, <3>3, <3>4
  <2>2. CASE want # <<>>
    <3>1. lo \in Nat /\ hi \in Nat /\ hi <= nrows /\ \A i \in DOMAIN want : want[i] \in lo..(hi - 1)
      <4>0. 1 \in DOMAIN want
        BY <1>1, <2>2
      <4>1. Range(want) # {} /\ Range(want) \subseteq Int
        <5>1. want[1] \in Range(want)
          BY <1>1, <4>0
        <5>2. 0..(nrows - 1) \subseteq Int
          OBVIOUS
        <5> QED BY <5>1, <5>2, <1>1
      <4>2. /\ Min(Range(want)) \in Range(want) /\ \A x \in Range(want) : Min(Range(want)) <= x
            /\ Max(Range(want)) \in Range(want) /\ \A x \in Range(want) : x <= Max(Range(want))
        BY <4>1, <1>1, MinMax
      <4>3. lo = Min(Range(want)) /\ hi = Max(Range(want)) + 1
        BY <2>2
      <4>4. Min(Range(want)) \in 0..(nrows - 1) /\ Max(Range(want)) \in 0..(nrows - 1)
        BY <1>1, <4>2
      <4> HIDE DEF lo, hi
      <4>5. lo \in Nat /\ hi \in Nat /\ hi <= nrows
        BY <4>3, <4>4, <1>1
      <4>6. ASSUME NEW i \in DOMAIN want PROVE want[i] \in lo..(hi - 1)
        <5>1. want[i] \in Range(want) /\ want[i] \in Int
          BY <1>1
        <5>2. lo <= want[i] /\ want[i] <= Max(Range(want)) /\ Max(Range(want)) \in Int
          BY <5>1, <4>2, <4>3, <4>4
        <5> QED BY <5>1, <5>2, <4>3, <4>5
      <4> QED BY <4>5, <4>6
    <3> HIDE DEF lo, hi
    <3>2. \A p \in lo..(hi - 1) : span[p - lo + 1] = stored[p + 1]
      <4>1. hi <= Len(stored)
        BY <1>1, <3>1
      <4> QED BY <1>1, <3>1, <4>1, BlockRows
    <3> HIDE DEF span
    <3>3. [i \in DOMAIN want |-> span[want[i] - lo + 1]] = rows
      <4>1. \A i \in DOMAIN want : span[want[i] - lo + 1] = stored[want[i] + 1]
        BY <3>1, <3>2
      <4> QED BY <4>1
    <3>4. CASE column.kind = "list"
      BY <3>3, <3>4
    <3>5. CASE column.kind # "list"
      <4>0. key.form \in {"slice", "row"}
        BY <3>5 DEF ReadSpan
      <4>1. step \in Int /\ step # 0 /\ \A i \in 1..Len(want) : want[i] = want[1] + (i - 1) * step
        BY <1>0, <2>2, <4>0, Even
      <4>2. CASE step > 0
        <5>1. lo = want[1]
          <6>1. \A i \in 1..Len(want) : want[1] <= want[i]
            <7> TAKE i \in 1..Len(want)
            <7>1. (i - 1) * 0 <= (i - 1) * step /\ (i - 1) * step \in Int
              <8> HIDE DEF step
              <8> QED BY <4>1, <4>2, Times
            <7>2. want[1] \in Int
              BY <1>1, <2>2
            <7> HIDE DEF step
            <7> QED BY <7>1, <7>2, <4>1
          <6>2. lo \in Range(want)
            <7>1. Range(want) # {} /\ Range(want) \subseteq Int
              <8>1. 1 \in DOMAIN want
                BY <1>1, <2>2
              <8>2. want[1] \in Range(want)
                BY <1>1, <8>1
              <8>3. 0..(nrows - 1) \subseteq Int
                OBVIOUS
              <8> QED BY <8>2, <8>3, <1>1
            <7>2. Min(Range(want)) \in Range(want)
              BY <7>1, <1>1, MinMax
            <7> QED BY <2>2, <7>2 DEF lo
          <6>3. lo <= want[1]
            BY <3>1, <1>1, <2>2
          <6>4. PICK i \in 1..Len(want) : lo = want[i]
            BY <6>2, <1>1
          <6>5. want[1] \in Int
            BY <1>1, <2>2
          <6> QED BY <6>1, <6>3, <6>4, <6>5, <3>1
        <5>2. ASSUME NEW i \in DOMAIN want PROVE (i - 1) * step + 1 = want[i] - lo + 1
          <6>1. (i - 1) * step \in Int /\ want[1] \in Int
            <7>1. i \in Int
              BY <1>1
            <7> HIDE DEF step
            <7> QED BY <4>1, <7>1, <1>1, <2>2
          <6>2. want[i] = want[1] + (i - 1) * step
            BY <4>1, <1>1
          <6> HIDE DEF step
          <6> QED BY <6>1, <6>2, <5>1
        <5>3. strided(step) = [i \in DOMAIN want |-> span[want[i] - lo + 1]]
          <6> HIDE DEF step
          <6> QED BY <5>2
        <5>4. values = strided(step)
          <6> HIDE DEF step, strided
          <6> QED BY <3>5, <4>2
        <5> HIDE DEF values, strided, step
        <5> QED BY <3>3, <5>3, <5>4
      <4>3. CASE step < 0
        <5> DEFINE L == Len(want)
                   k == -step
        <5>0. L \in Nat \ {0} /\ L \in 1..L /\ 1 \in 1..L
          BY <1>1, <2>2
        <5>1. k \in Nat \ {0} /\ step = -k
          <6> HIDE DEF step
          <6> QED BY <4>1, <4>3
        <5> HIDE DEF k, step
        <5>2. \A i \in 1..L : (L - i) * k \in Int /\ want[i] = want[L] + (L - i) * k /\ want[L] <= want[i]
          <6> TAKE i \in 1..L
          <6>1. want[i] = want[1] + (i - 1) * step /\ want[L] = want[1] + (L - 1) * step
            BY <4>1, <5>0
          <6>2. (i - 1) * step = -((i - 1) * k) /\ (L - 1) * step = -((L - 1) * k)
            BY <5>0, <5>1
          <6>3. (L - 1) * k = (L - i) * k + (i - 1) * k /\ (L - i) * k \in Int /\ (i - 1) * k \in Int
            BY <5>0, <5>1
          <6>4. want[1] \in Int
            BY <1>1, <5>0
          <6>5. 0 <= (L - i) * k
            <7>1. L - i \in Nat
              BY <5>0
            <7>2. (L - i) * 0 <= (L - i) * k
              BY <7>1, <5>1, Times
            <7> QED BY <7>1, <7>2
          <6> DEFINE u == (L - i) * k
                     v == (i - 1) * k
                     t == (L - 1) * k
          <6>6. /\ u \in Int /\ v \in Int /\ 0 <= u /\ t = u + v
                /\ want[i] = want[1] + (-v) /\ want[L] = want[1] + (-t)
            BY <6>1, <6>2, <6>3, <6>5
          <6> HIDE DEF u, v, t
          <6>7. u \in Int /\ want[i] = want[L] + u /\ want[L] <= want[i]
            BY <6>4, <6>6
          <6> QED BY <6>7 DEF u
        <5>3. lo = want[L]
          <6>1. lo \in Range(want)
            <7>1. Range(want) # {} /\ Range(want) \subseteq Int
              <8>1. 1 \in DOMAIN want
                BY <1>1, <2>2
              <8>2. want[1] \in Range(want)
                BY <1>1, <8>1
              <8>3. 0..(nrows - 1) \subseteq Int
                OBVIOUS
              <8> QED BY <8>2, <8>3, <1>1
            <7>2. Min(Range(want)) \in Range(want)
              BY <7>1, <1>1, MinMax
            <7> QED BY <2>2, <7>2 DEF lo
          <6>2. PICK i \in 1..L : lo = want[i]
            BY <6>1, <1>1
          <6>3. want[L] \in Int /\ lo <= want[L]
            BY <3>1, <1>1, <5>0
          <6> QED BY <6>2, <6>3, <5>2, <3>1
        <5>4. ASSUME NEW i \in DOMAIN want
              PROVE  (L - i) + 1 \in DOMAIN want /\ (((L - i) + 1) - 1) * k + 1 = want[i] - lo + 1
          <6>1. i \in 1..L
            BY <1>1
          <6>2. (L - i) + 1 \in DOMAIN want /\ ((L - i) + 1) - 1 = L - i
            BY <1>1, <5>0, <6>1
          <6>3. want[i] = want[L] + (L - i) * k /\ (L - i) * k \in Int /\ want[L] \in Int
            BY <5>2, <6>1, <5>0, <1>1
          <6> QED BY <6>2, <6>3, <5>3
        <5>5. Reverse(strided(k)) = [i \in DOMAIN want |-> span[want[i] - lo + 1]]
          <6>1. strided(k) = [i \in 1..L |-> span[(i - 1) * k + 1]]
            BY <1>1
          <6>2. Len(strided(k)) = L
            BY <6>1, <5>0
          <6>3. Reverse(strided(k)) = [i \in 1..L |-> strided(k)[(L - i) + 1]]
            <7> HIDE DEF strided, L
            <7> QED BY <6>2 DEF Reverse
          <6>4. \A i \in DOMAIN want : strided(k)[(L - i) + 1] = span[want[i] - lo + 1]
            <7> TAKE i \in DOMAIN want
            <7>1. (L - i) + 1 \in DOMAIN want
              BY <5>4
            <7>2. strided(k)[(L - i) + 1] = span[(((L - i) + 1) - 1) * k + 1]
              <8> HIDE DEF L
              <8> QED BY <7>1
            <7>3. (((L - i) + 1) - 1) * k + 1 = want[i] - lo + 1
              BY <5>4
            <7> QED BY <7>2, <7>3, Zenon
          <6> HIDE DEF strided, L
          <6> QED BY <6>3, <6>4, <1>1 DEF L
        <5>6. values = Reverse(strided(k))
          <6>1. ~(step > 0)
            BY <4>1, <4>3
          <6> HIDE DEF strided
          <6> QED BY <6>1, <3>5 DEF k
        <5> HIDE DEF values, strided
        <5> QED BY <3>3, <5>5, <5>6
      <4>4. step > 0 \/ step < 0
        <5> HIDE DEF step
        <5> QED BY <4>1
      <4> QED BY <4>2, <4>3, <4>4, Zenon
    <3> QED BY <3>4, <3>5
  <2> QED BY <2>1, <2>2
<1> HIDE DEF values
<1> QED BY <1>0, <1>1, <1>2, <1>3, Answered

\* The committed rows, fetched whole.
LEMMA WholeBlock ==
  ASSUME RowsFit
  PROVE  /\ Block(0, nrows) \in Seq(Cells) /\ Len(Block(0, nrows)) = nrows
         /\ \A p \in 0..(nrows - 1) : Block(0, nrows)[p + 1] = stored[p + 1]
<1>1. nrows \in Nat /\ stored \in Seq(Cells) /\ nrows <= Len(stored)
  BY ReadsAssumption DEF RowsFit
<1>2. /\ Block(0, nrows) \in Seq(Cells)
      /\ Len(Block(0, nrows)) = IF 0 <= nrows THEN nrows - 0 ELSE 0
      /\ \A p \in 0..(nrows - 1) : Block(0, nrows)[p - 0 + 1] = stored[p + 1]
  <2>1. 0 \in Nat
    OBVIOUS
  <2> QED BY <1>1, <2>1, BlockRows
<1>3. Len(Block(0, nrows)) = nrows
  BY <1>1, <1>2
<1>4. ASSUME NEW p \in 0..(nrows - 1) PROVE Block(0, nrows)[p + 1] = stored[p + 1]
  <2>1. p - 0 + 1 = p + 1
    OBVIOUS
  <2> QED BY <1>2, <2>1
<1> QED BY <1>2, <1>3, <1>4

\* The whole column has every row that is asked for, at its place.
LEMMA WholeStep ==
  ASSUME ReadsInv, ReadWhole PROVE ReadsBack'
<1>0. RowsFit /\ KeyFits /\ pc # "idle" /\ want # Error /\ UNCHANGED <<table, key, want>>
  BY DEF ReadsInv, ReadWhole
<1>1. IsKey(key) /\ want = Resolve(key, nrows) /\ \A i \in DOMAIN want : want[i] \in 0..(nrows - 1)
  BY <1>0, Resolved
<1> DEFINE whole == Block(0, nrows)
           values == [i \in DOMAIN want |-> whole[want[i] + 1]]
<1>2. Answer(values)
  BY DEF ReadWhole
<1>3. values = [i \in DOMAIN want |-> stored[want[i] + 1]]
  <2>1. \A p \in 0..(nrows - 1) : whole[p + 1] = stored[p + 1]
    BY <1>0, WholeBlock
  <2> HIDE DEF whole
  <2> QED BY <1>1, <2>1
<1> HIDE DEF values
<1> QED BY <1>0, <1>1, <1>2, <1>3, Answered

\* A slice of step 1 is the run of the column's rows from its start to its stop.
LEMMA SelectStep ==
  ASSUME ReadsInv, select PROVE ReadsBack'
<1>0. RowsFit /\ KeyFits /\ pc # "idle" /\ want # Error /\ UNCHANGED <<table, key, want>>
  BY DEF ReadsInv, select
<1>1. /\ nrows \in Nat /\ IsKey(key) /\ want = Resolve(key, nrows)
      /\ \A i \in DOMAIN want : want[i] \in 0..(nrows - 1)
      /\ Len(want) \in Nat /\ DOMAIN want = 1..Len(want)
  BY <1>0, Resolved
<1> DEFINE whole == Block(0, nrows)
           ends  == slice_indices(key.of, nrows)
           values == IF key.form = "slice" /\ ends[3] = 1 THEN SubSeq(whole, ends[1] + 1, ends[2])
                     ELSE [i \in DOMAIN want |-> whole[want[i] + 1]]
           rows == [i \in DOMAIN want |-> stored[want[i] + 1]]
<1>2. Answer(values)
  BY DEF select
<1>3. whole \in Seq(Cells) /\ Len(whole) = nrows /\ \A p \in 0..(nrows - 1) : whole[p + 1] = stored[p + 1]
  BY <1>0, WholeBlock
<1> HIDE DEF whole
<1>4. [i \in DOMAIN want |-> whole[want[i] + 1]] = rows
  BY <1>1, <1>3
<1>5. ASSUME key.form = "slice", ends[3] = 1
      PROVE  SubSeq(whole, ends[1] + 1, ends[2]) = rows
  <2> DEFINE k == IF key.of[3] = None THEN 1 ELSE key.of[3]
             e1 == ends[1]
             e2 == ends[2]
  <2>1. want = range(slice_indices(key.of, nrows))
    BY <1>1, <1>5, Zenon DEF Resolve
  <2>2. {key.of[1], key.of[2], key.of[3]} \subseteq Int \cup {None} /\ key.of[3] # 0
    BY <1>1, <1>5 DEF IsKey
  <2>3. /\ k \in Int /\ ends[3] = k
        /\ k > 0 => ends[1] \in 0..nrows /\ ends[2] \in 0..nrows
        /\ \E size \in Nat :
             /\ want = [i \in 1..size |-> ends[1] + (i - 1) * k]
             /\ k > 0 => \A m \in Nat : m < size <=> ends[1] + m * k < ends[2]
    BY <1>1, <2>1, <2>2, SlicePositions, Zenon
  <2>4. k = 1 /\ k > 0 /\ e1 \in 0..nrows /\ e2 \in 0..nrows
    <3> HIDE DEF k
    <3>1. k = 1
      BY <1>5, <2>3
    <3>2. k > 0
      BY <3>1
    <3> QED BY <2>3, <3>1, <3>2
  <2>5. PICK size \in Nat : /\ want = [i \in 1..size |-> e1 + (i - 1) * k]
                            /\ k > 0 => \A m \in Nat : m < size <=> e1 + m * k < e2
    BY <2>3
  <2> HIDE DEF k, e1, e2
  <2>6. ASSUME NEW m \in Nat PROVE m < size <=> e1 + m < e2
    <3>1. m * k = m
      BY <2>4
    <3>2. m < size <=> e1 + m * k < e2
      BY <2>4, <2>5
    <3> QED BY <3>1, <3>2
  <2>7. size = IF e1 <= e2 THEN e2 - e1 ELSE 0
    <3>1. CASE e1 <= e2
      <4>1. e2 - e1 \in Nat /\ ~(e1 + (e2 - e1) < e2)
        BY <3>1, <2>4
      <4>2. ~(e2 - e1 < size)
        BY <2>6, <4>1
      <4>3. ~(size < e2 - e1)
        <5> SUFFICES ASSUME size < e2 - e1 PROVE FALSE
          OBVIOUS
        <5>1. e1 + size < e2
          BY <2>4
        <5>2. size < size
          BY <2>6, <5>1
        <5> QED BY <5>2
      <4> QED BY <3>1, <4>1, <4>2, <4>3
    <3>2. CASE e2 < e1
      <4>1. ~(e1 + 0 < e2)
        BY <3>2, <2>4
      <4>2. ~(0 < size)
        BY <2>6, <4>1
      <4> QED BY <4>2, <3>2, <2>4
    <3> QED BY <3>1, <3>2, <2>4
  <2>8. ASSUME NEW i \in 1..size PROVE want[i] = e1 + i - 1 /\ want[i] + 1 = (e1 + 1) + i - 1
    <3>1. want[i] = e1 + (i - 1) * k
      BY <2>5
    <3>2. (i - 1) * k = i - 1
      BY <2>4
    <3> QED BY <3>1, <3>2, <2>4
  <2>9. DOMAIN want = 1..size
    BY <2>5
  <2> DEFINE sub == SubSeq(whole, e1 + 1, e2)
  <2>10. /\ sub \in Seq(Cells)
         /\ Len(sub) = IF e1 + 1 <= e2 THEN e2 - (e1 + 1) + 1 ELSE 0
         /\ \A i \in 1..(e2 - (e1 + 1) + 1) : sub[i] = whole[(e1 + 1) + i - 1]
    <3>1. e1 + 1 \in Int /\ e2 \in Int
      BY <2>4
    <3>2. \A i \in (e1 + 1)..e2 : whole[i] \in Cells
      <4>1. \A i \in (e1 + 1)..e2 : i \in 1..Len(whole)
        BY <2>4, <1>3, <1>1
      <4>2. \A i \in 1..Len(whole) : whole[i] \in Cells
        BY <1>3
      <4> QED BY <4>1, <4>2
    <3> QED BY <3>1, <3>2, SubSeqProperties
  <2> HIDE DEF sub
  <2>11. Len(sub) = size /\ DOMAIN sub = 1..size
    BY <2>4, <2>7, <2>10
  <2>12. ASSUME NEW i \in 1..size PROVE sub[i] = stored[want[i] + 1]
    <3>1. i \in 1..(e2 - (e1 + 1) + 1)
      BY <2>4, <2>7
    <3>2. sub[i] = whole[want[i] + 1]
      BY <3>1, <2>8, <2>10
    <3> QED BY <3>2, <1>1, <1>3, <2>9
  <2>13. rows = [i \in 1..size |-> stored[want[i] + 1]]
    BY <2>9
  <2>14. sub = [i \in 1..size |-> sub[i]]
    BY <2>10, <2>11
  <2>15. sub = rows
    BY <2>12, <2>13, <2>14
  <2> QED BY <2>15 DEF sub, e1, e2
<1>6. values = rows
  BY <1>4, <1>5
<1> HIDE DEF values
<1> QED BY <1>0, <1>1, <1>2, <1>6, Answered

-----------------------------------------------------------------------------
(* Scattered reads.                                                        *)

\* The sort of the wanted positions has every place once.
LEMMA Places ==
  ASSUME RowsFit, KeyFits, pc # "idle", want # Error, NEW o, o = Ordered(DOMAIN want, want)
  PROVE  /\ o \in [DOMAIN want -> DOMAIN want]
         /\ \A j \in DOMAIN want : \E i \in DOMAIN want : o[i] = j
         /\ \A i \in DOMAIN want : want[o[i]] \in Range(want) /\ want[o[i]] \in 0..(nrows - 1)
<1> DEFINE L == Len(want)
<1>1. /\ L \in Nat /\ DOMAIN want = 1..L /\ \A i \in DOMAIN want : want[i] \in 0..(nrows - 1)
      /\ Range(want) = {want[i] : i \in DOMAIN want} /\ nrows \in Nat
  BY Resolved
<1> HIDE DEF L
<1>2. IsFiniteSet(1..L) /\ Cardinality(1..L) = L /\ 1..L \subseteq Int
  BY <1>1, FS_Interval
<1>3. \A i \in 1..L : want[i] \in Int
  BY <1>1
<1>4. /\ Ordered(1..L, want) \in [1..Cardinality(1..L) -> 1..L]
      /\ SortedBy(Ordered(1..L, want), 1..L, want)
  BY <1>2, <1>3, OrderedList
<1>5. o \in [1..L -> 1..L] /\ \A j \in 1..L : \E i \in 1..L : o[i] = j
  BY <1>1, <1>2, <1>4 DEF SortedBy
<1> QED BY <1>1, <1>5

\* The chunk of a row is a natural number, and no row behind it lies in an
\* earlier one.
LEMMA ChunkOf ==
  ASSUME column \in Columns, column.chunk_len # 0, NEW p \in Nat
  PROVE  /\ column.chunk_len \in Nat \ {0}
         /\ chunk(p) \in Nat
         /\ chunk(p) * column.chunk_len <= p /\ p < (chunk(p) + 1) * column.chunk_len
         /\ \A c \in Int : c * column.chunk_len <= p => c <= chunk(p)
         /\ \A c \in Int : p < (c + 1) * column.chunk_len => chunk(p) <= c
<1>1. column.chunk_len \in Nat \ {0}
  BY ReadsAssumption
<1> DEFINE n == column.chunk_len
<1>2. chunk(p) = p \div n
  BY DEF chunk
<1> HIDE DEF n
<1>3. n \in Nat \ {0}
  BY <1>1 DEF n
<1>4. /\ p \div n \in Nat
      /\ (p \div n) * n <= p /\ p < ((p \div n) + 1) * n
      /\ \A c \in Int : c * n <= p => c <= p \div n
      /\ \A c \in Int : p < (c + 1) * n => p \div n <= c
  BY <1>3, InChunk
<1> QED BY <1>1, <1>2, <1>4 DEF n

\* When a scattered read begins, all chunks with a wanted row are to be fetched.
LEMMA SortKeeps ==
  ASSUME ReadsInv, Sort PROVE GatherFits' /\ BlocksFit'
<1>0. /\ RowsFit /\ KeyFits /\ pc = "resolved" /\ want # Error /\ UNCHANGED <<table, key, want, blocks>>
      /\ column.kind # "list" /\ (column.chunk_len # 0 \/ want = <<>>)
      /\ order' = Ordered(DOMAIN want, want)
      /\ chunks' = IF want = <<>> THEN {} ELSE {chunk(p) : p \in Range(want)}
      /\ raw' = [i \in DOMAIN want |-> Error] /\ pc' = "gather"
  BY DEF ReadsInv, Sort
<1>1. blocks' = {}
  BY <1>0 DEF KeyFits
<1>2. column' = column /\ want' = want
  BY <1>0 DEF table
<1>3. \A p : chunk(p)' = chunk(p)
  BY <1>2 DEF chunk
<1>4. \A i \in DOMAIN want : want[order'[i]] \in Range(want) /\ want # <<>>
  <2>1. \A i \in DOMAIN want : want[order'[i]] \in Range(want)
    BY <1>0, Places
  <2>2. \A i \in DOMAIN want : want # <<>>
    OBVIOUS
  <2> QED BY <2>1, <2>2
<1>5. chunks' \subseteq {chunk(p)' : p \in Range(want')}
  BY <1>0, <1>2, <1>3
<1>6. \A i \in DOMAIN want' : chunk(Sorted(i))' \in chunks'
  BY <1>0, <1>2, <1>4 DEF Sorted, chunk
<1>7. raw' = [i \in DOMAIN want' |-> raw'[i]]
  BY <1>0, <1>2
<1>8. GatherFits'
  BY <1>0, <1>1, <1>2, <1>5, <1>6, <1>7 DEF GatherFits, chunk
<1>9. BlocksFit'
  BY <1>1 DEF BlocksFit
<1> QED BY <1>8, <1>9

\* What a block of rows lo..(hi - 1) gives: the wanted rows among them.
LEMMA Stored ==
  ASSUME RowsFit, KeyFits, GatherFits, pc = "gather", NEW lo \in Nat, NEW hi \in Nat, hi <= nrows,
         Store(lo, hi), UNCHANGED <<table, want, order>>
  PROVE  /\ raw' = [i \in DOMAIN want |-> raw'[i]]
         /\ \A i \in DOMAIN want : Sorted(i) \in lo..(hi - 1) => Gathered(i)'
         /\ \A i \in DOMAIN want : Gathered(i) => Gathered(i)'
<1>0. /\ want # Error /\ order = Ordered(DOMAIN want, want)
      /\ raw = [i \in DOMAIN want |-> raw[i]]
  BY DEF GatherFits
<1>1. nrows <= Len(stored) /\ stored \in Seq(Cells) /\ Len(stored) \in Nat /\ nrows \in Nat
  BY <1>0, Resolved
<1>2. \A p \in lo..(hi - 1) : Block(lo, hi)[p - lo + 1] = stored[p + 1]
  <2>1. hi <= Len(stored)
    BY <1>1
  <2> QED BY <1>1, <2>1, BlockRows
<1>3. raw' = [i \in DOMAIN raw |->
                IF Sorted(i) \in lo..(hi - 1) THEN Block(lo, hi)[Sorted(i) - lo + 1] ELSE raw[i]]
  BY DEF Store
<1>4. DOMAIN raw = DOMAIN want
  BY <1>0
<1>5. stored' = stored /\ want' = want /\ order' = order
  BY DEF table
<1>6. ASSUME NEW i \in DOMAIN want
      PROVE  /\ Gathered(i)' <=> raw'[i] = stored[Sorted(i) + 1]
             /\ raw'[i] = IF Sorted(i) \in lo..(hi - 1) THEN Block(lo, hi)[Sorted(i) - lo + 1] ELSE raw[i]
  BY <1>3, <1>4, <1>5 DEF Gathered, Sorted
<1>7. ASSUME NEW i \in DOMAIN want, Sorted(i) \in lo..(hi - 1) PROVE Gathered(i)'
  BY <1>2, <1>6, <1>7
<1>8. ASSUME NEW i \in DOMAIN want, Gathered(i) PROVE Gathered(i)'
  <2>1. Sorted(i) \in lo..(hi - 1) \/ raw'[i] = raw[i]
    BY <1>6
  <2>2. raw[i] = stored[Sorted(i) + 1]
    BY <1>8 DEF Gathered
  <2> QED BY <1>6, <1>7, <2>1, <2>2
<1> QED BY <1>3, <1>4, <1>7, <1>8

\* A single block's ends are numbers.
LEMMA OneBlock ==
  ASSUME NEW a \in Int, NEW b \in Int
  PROVE  {<<a, b>>} \in SUBSET (Int \X Int)
OBVIOUS

\* A run of consecutive positions is all of the rows from the first to the last.
LEMMA RangeKeeps ==
  ASSUME ReadsInv, GatherRange
  PROVE  GatherFits' /\ BlocksFit' /\ blocks' \in SUBSET (Int \X Int)
<1>0. /\ RowsFit /\ KeyFits /\ GatherFits /\ BlocksFit /\ pc = "gather"
      /\ UNCHANGED <<table, key, want, order>> /\ UNCHANGED <<table, want, order>>
      /\ raw # <<>> /\ Ascending /\ pc' = "restore" /\ chunks' = {}
      /\ Store(Sorted(1), Sorted(Len(want)) + 1)
  BY DEF ReadsInv, GatherRange
<1>1. /\ want # Error /\ column.kind # "list" /\ (column.chunk_len # 0 \/ want = <<>>)
      /\ order = Ordered(DOMAIN want, want) /\ raw = [i \in DOMAIN want |-> raw[i]]
      /\ blocks = {}
  BY <1>0 DEF GatherFits
<1> DEFINE L == Len(want)
           lo == Sorted(1)
           hi == Sorted(L) + 1
<1>2. L \in Nat /\ DOMAIN want = 1..L /\ nrows \in Nat
  BY <1>0, <1>1, Resolved
<1>3. L # 0
  BY <1>0, <1>1, <1>2
<1>4. \A i \in 1..L : Sorted(i) \in Range(want) /\ Sorted(i) \in 0..(nrows - 1)
  BY <1>0, <1>1, <1>2, Places DEF Sorted
<1>5. \A i \in 1..(L - 1) : Sorted(i + 1) = Sorted(i) + 1
  BY <1>0 DEF Ascending
<1>6. \A i \in 1..L : Sorted(i) = lo + i - 1
  <2> DEFINE T == {m \in Nat : m + 1 \in 1..L => Sorted(m + 1) = lo + m}
  <2>1. 0 \in T
    BY <1>2, <1>3, <1>4
  <2>2. \A m \in Nat : m \in T => m + 1 \in T
    <3> TAKE m \in Nat
    <3> SUFFICES ASSUME m \in T, (m + 1) + 1 \in 1..L PROVE Sorted((m + 1) + 1) = lo + (m + 1)
      OBVIOUS
    <3>1. m + 1 \in 1..(L - 1) /\ m + 1 \in 1..L
      BY <1>2
    <3>2. Sorted(m + 1) = lo + m
      BY <3>1
    <3>3. Sorted((m + 1) + 1) = Sorted(m + 1) + 1
      BY <3>1, <1>5
    <3>4. lo \in Int
      BY <1>4, <1>2, <1>3
    <3> HIDE DEF lo
    <3> QED BY <3>2, <3>3, <3>4
  <2>3. T = Nat
    <3>1. T \subseteq Nat
      OBVIOUS
    <3> HIDE DEF T
    <3> QED BY <2>1, <2>2, <3>1, NatSetInduction
  <2>4. ASSUME NEW i \in 1..L PROVE Sorted(i) = lo + i - 1
    <3>1. i - 1 \in Nat /\ (i - 1) + 1 = i
      BY <1>2
    <3>2. i - 1 \in T
      BY <2>3, <3>1
    <3>3. Sorted((i - 1) + 1) = lo + (i - 1)
      BY <3>1, <3>2
    <3>4. lo \in Int
      BY <1>4, <1>2, <1>3
    <3> HIDE DEF lo
    <3> QED BY <3>1, <3>3, <3>4
  <2> QED BY <2>4
<1>7. lo \in 0..(nrows - 1) /\ Sorted(L) \in 0..(nrows - 1) /\ Sorted(L) = lo + L - 1
  BY <1>2, <1>3, <1>4, <1>6
<1> HIDE DEF lo, L
<1>8. lo \in Nat /\ hi \in Nat /\ hi <= nrows /\ hi = lo + L
  BY <1>2, <1>7
<1>9. Store(lo, hi)
  BY <1>0 DEF lo, L
<1> HIDE DEF hi
<1>10. \A i \in DOMAIN want : Sorted(i) \in lo..(hi - 1)
  BY <1>2, <1>6, <1>8
<1>11. raw' = [i \in DOMAIN want |-> raw'[i]] /\ \A i \in DOMAIN want : Gathered(i)'
  BY <1>0, <1>8, <1>9, <1>10, Stored
<1>12. blocks' = {<<lo, hi>>}
  BY <1>1, <1>9 DEF Store
<1>13. want' = want /\ column' = column /\ nrows' = nrows /\ order' = order
  BY <1>0 DEF table
<1>14. GatherFits'
  BY <1>0, <1>1, <1>11, <1>13 DEF GatherFits
<1>15. \A p \in lo..(hi - 1) : p \in Range(want)
  <2> TAKE p \in lo..(hi - 1)
  <2>1. p - lo + 1 \in 1..L /\ lo + (p - lo + 1) - 1 = p
    BY <1>2, <1>8
  <2>2. Sorted(p - lo + 1) = p
    BY <1>6, <2>1
  <2> QED BY <1>4, <2>1, <2>2
<1>16. BlocksFit'
  <2>1. <<lo, hi>>[1] = lo /\ <<lo, hi>>[2] = hi
    OBVIOUS
  <2> QED BY <1>8, <1>12, <1>13, <1>15, <2>1 DEF BlocksFit, chunk
<1>17. blocks' \in SUBSET (Int \X Int)
  BY <1>8, <1>12, OneBlock
<1> QED BY <1>14, <1>16, <1>17

\* A run of chunks is all of the rows from its first chunk to its last, as far as
\* there are rows, and ends before the next chunk to be fetched.
LEMMA RunKeeps ==
  ASSUME ReadsInv, GatherRun
  PROVE  GatherFits' /\ BlocksFit' /\ blocks' \in SUBSET (Int \X Int)
<1> DEFINE n     == column.chunk_len
           first == Min(chunks)
           runs  == {c \in chunks : first..c \subseteq chunks}
           last  == Max(runs)
           end   == (last + 1) * n
           lo    == first * n
           hi    == IF nrows < end THEN nrows ELSE end
<1>0. /\ RowsFit /\ KeyFits /\ GatherFits /\ BlocksFit /\ pc = "gather" /\ pc' = "gather"
      /\ UNCHANGED <<table, want, order>> /\ chunks # {} /\ ~Ascending
      /\ chunks' = chunks \ (first..last)
      /\ Store(lo, hi)
  BY DEF ReadsInv, GatherRun
<1>1. /\ want # Error /\ column.kind # "list" /\ (n # 0 \/ want = <<>>)
      /\ order = Ordered(DOMAIN want, want)
      /\ chunks \subseteq {chunk(p) : p \in Range(want)}
      /\ \A i \in DOMAIN want : chunk(Sorted(i)) \notin chunks => Gathered(i)
      /\ \A b \in blocks, c \in chunks : b[2] <= c * n
  BY <1>0 DEF GatherFits
<1>2. /\ nrows \in Nat /\ Range(want) \subseteq 0..(nrows - 1) /\ IsFiniteSet(Range(want))
      /\ Range(want) = {want[i] : i \in DOMAIN want}
  BY <1>0, <1>1, Resolved
<1>3. n \in Nat \ {0} /\ column \in Columns
  <2>1. want # <<>>
    BY <1>0, <1>1, <1>2
  <2>2. column \in Columns
    BY <1>0 DEF RowsFit
  <2> QED BY <1>1, <2>1, <2>2, ReadsAssumption
<1> HIDE DEF n
<1>4. ASSUME NEW p \in Nat
      PROVE  /\ chunk(p) \in Nat /\ chunk(p) * n <= p /\ p < (chunk(p) + 1) * n
             /\ \A c \in Int : c * n <= p => c <= chunk(p)
             /\ \A c \in Int : p < (c + 1) * n => chunk(p) <= c
  BY <1>3, ChunkOf DEF n
<1>5. chunks \subseteq Nat /\ IsFiniteSet(chunks)
  <2>1. \A p \in Range(want) : p \in Nat
    BY <1>2
  <2>2. IsFiniteSet({chunk(p) : p \in Range(want)})
    <3> DEFINE R == Range(want)
               f == [p \in R |-> chunk(p)]
    <3>1. f \in Surjection(R, {chunk(p) : p \in R})
      <4>1. f \in [R -> {chunk(p) : p \in R}]
        OBVIOUS
      <4>2. \A c \in {chunk(p) : p \in R} : \E p \in R : f[p] = c
        OBVIOUS
      <4> HIDE DEF f
      <4> QED BY <4>1, <4>2, Zenon DEF Surjection
    <3>2. IsFiniteSet(R)
      BY <1>2
    <3> HIDE DEF f, R
    <3>3. IsFiniteSet({chunk(p) : p \in R})
      BY <3>1, <3>2, FS_Surjection
    <3> QED BY <3>3 DEF R
  <2>3. IsFiniteSet(chunks)
    BY <1>1, <2>2, FS_Subset
  <2>4. \A p \in Range(want) : chunk(p) \in Nat
    BY <1>4, <2>1
  <2> QED BY <1>1, <2>3, <2>4
<1>6. first \in chunks /\ \A c \in chunks : first <= c
  <2>1. chunks \subseteq Int
    BY <1>5
  <2> QED BY <1>0, <1>5, <2>1, MinMax
<1> HIDE DEF first
<1>7. first \in Nat
  BY <1>5, <1>6
<1>8. last \in chunks /\ first..last \subseteq chunks /\ first <= last /\ last \in Nat
  <2>1. first..first = {first}
    BY <1>7
  <2>2. first \in runs
    BY <1>6, <2>1
  <2>3. runs \subseteq chunks
    OBVIOUS
  <2>4. IsFiniteSet(runs) /\ runs \subseteq Int
    <3>1. IsFiniteSet(runs)
      <4> HIDE DEF runs
      <4> QED BY <2>3, <1>5, FS_Subset
    <3>2. runs \subseteq Int
      <4> HIDE DEF runs
      <4> QED BY <2>3, <1>5
    <3> QED BY <3>1, <3>2, Zenon
  <2>5. last \in runs
    <3> HIDE DEF runs
    <3> QED BY <2>2, <2>4, MinMax
  <2>6. last \in chunks /\ first..last \subseteq chunks
    <3> HIDE DEF last
    <3> QED BY <2>5
  <2> HIDE DEF last
  <2> QED BY <2>6, <1>5, <1>6
<1> HIDE DEF last, runs
<1>9. lo \in Nat /\ end \in Nat /\ lo = first * n /\ end = (last + 1) * n
  <2>1. n * first \in Nat /\ n * (last + 1) \in Nat
    <3>1. n * 0 <= n * first /\ n * 0 <= n * (last + 1)
      BY <1>3, <1>7, <1>8, Times
    <3> QED BY <3>1, <1>3, <1>7, <1>8
  <2>2. first * n = n * first /\ (last + 1) * n = n * (last + 1)
    BY <1>3, <1>7, <1>8
  <2> QED BY <2>1, <2>2
<1> HIDE DEF lo, end
<1>10. hi \in Nat /\ hi <= nrows /\ hi <= end /\ \A p \in Nat : p < nrows /\ p < end => p < hi
  BY <1>2, <1>9
<1> HIDE DEF hi
<1>11. ASSUME NEW p \in 0..(nrows - 1)
       PROVE  p \in lo..(hi - 1) <=> chunk(p) \in first..last
  <2>0. p \in Nat /\ p < nrows
    BY <1>2
  <2> DEFINE c == chunk(p)
  <2>1. /\ c \in Nat /\ c * n <= p /\ p < (c + 1) * n
        /\ (first * n <= p => first <= c) /\ (p < (last + 1) * n => c <= last)
    BY <1>4, <1>7, <1>8, <2>0
  <2> HIDE DEF c
  <2>2. ASSUME p \in lo..(hi - 1) PROVE c \in first..last
    <3>1. lo <= p /\ p < end
      BY <1>9, <1>10, <2>0, <2>2
    <3> QED BY <1>7, <1>8, <1>9, <2>1, <3>1
  <2>3. ASSUME c \in first..last PROVE p \in lo..(hi - 1)
    <3>0. first <= c /\ c + 1 <= last + 1
      BY <1>7, <1>8, <2>1, <2>3
    <3>1. n * first <= n * c /\ first * n = n * first /\ c * n = n * c /\ n * first \in Int /\ n * c \in Int
      BY <1>3, <1>7, <2>1, <3>0, Times
    <3>2. n * (c + 1) <= n * (last + 1) /\ (c + 1) * n = n * (c + 1) /\ (last + 1) * n = n * (last + 1)
          /\ n * (c + 1) \in Int /\ n * (last + 1) \in Int
      BY <1>3, <1>8, <2>1, <3>0, Times
    <3>3. lo <= p
      <4> DEFINE u == n * first
                 v == n * c
      <4>1. u <= v /\ lo = u /\ v <= p /\ u \in Int /\ v \in Int
        BY <1>9, <2>1, <3>1
      <4> HIDE DEF u, v
      <4> QED BY <4>1, <2>0
    <3>4. p < end
      <4> DEFINE u == n * (c + 1)
                 v == n * (last + 1)
      <4>1. u <= v /\ end = v /\ p < u /\ u \in Int /\ v \in Int
        BY <1>9, <2>1, <3>2
      <4> HIDE DEF u, v
      <4> QED BY <4>1, <2>0
    <3> QED BY <3>3, <3>4, <2>0, <1>9, <1>10
  <2> QED BY <2>2, <2>3 DEF c
<1>12. /\ raw' = [i \in DOMAIN want |-> raw'[i]]
       /\ \A i \in DOMAIN want : Sorted(i) \in lo..(hi - 1) => Gathered(i)'
       /\ \A i \in DOMAIN want : Gathered(i) => Gathered(i)'
  BY <1>0, <1>9, <1>10, Stored
<1>13. \A i \in DOMAIN want : Sorted(i) \in 0..(nrows - 1)
  BY <1>0, <1>1, Places DEF Sorted
<1>14. want' = want /\ column' = column /\ nrows' = nrows /\ order' = order
  BY <1>0 DEF table
<1>15. \A p : chunk(p)' = chunk(p)
  BY <1>14 DEF chunk
<1>16. ASSUME NEW i \in DOMAIN want, chunk(Sorted(i)) \notin chunks' PROVE Gathered(i)'
  <2>1. chunk(Sorted(i)) \notin chunks \/ chunk(Sorted(i)) \in first..last
    BY <1>0, <1>16
  <2>2. CASE chunk(Sorted(i)) \notin chunks
    BY <1>1, <1>12, <2>2
  <2>3. CASE chunk(Sorted(i)) \in first..last
    BY <1>11, <1>12, <1>13, <2>3
  <2> QED BY <2>1, <2>2, <2>3
<1>17. blocks' = blocks \cup {<<lo, hi>>}
  BY <1>0 DEF Store
<1>18. <<lo, hi>>[1] = lo /\ <<lo, hi>>[2] = hi
  OBVIOUS
<1>19. blocks \subseteq Int \X Int /\ \A b \in blocks : b[2] <= lo
  <2>1. \A b \in blocks : b[2] <= first * n
    BY <1>1, <1>6
  <2> QED BY <2>1, <1>0, <1>9 DEF KeyFits
<1>20. \A b \in blocks', c \in chunks' : b[2] <= c * n
  <2> TAKE b \in blocks', c \in chunks'
  <2>1. c \in chunks /\ c \notin first..last
    BY <1>0
  <2>2. CASE b \in blocks
    BY <1>1, <2>1, <2>2
  <2>3. CASE b = <<lo, hi>>
    <3>1. last + 1 <= c /\ c \in Nat
      BY <1>5, <1>6, <1>7, <1>8, <2>1
    <3>2. n * (last + 1) <= n * c /\ (last + 1) * n = n * (last + 1) /\ c * n = n * c /\ n * c \in Int
          /\ n * (last + 1) \in Int
      BY <1>3, <1>8, <3>1, Times
    <3> DEFINE u == n * (last + 1)
               v == n * c
    <3>3. u \in Int /\ v \in Int /\ u <= v /\ end = u /\ c * n = v
      BY <3>2, <1>9
    <3> HIDE DEF u, v
    <3>4. hi <= c * n
      BY <3>3, <1>9, <1>10
    <3> QED BY <3>4, <2>3, <1>18
  <2> QED BY <2>2, <2>3, <1>17
<1>21. chunks' \subseteq {chunk(p) : p \in Range(want)}
  BY <1>0, <1>1
<1>22. GatherFits'
  <2>1. \A i : chunk(Sorted(i))' = chunk(Sorted(i))
    BY <1>14 DEF chunk, Sorted
  <2>2. ~Ascending'
    BY <1>0, <1>14 DEF Ascending, Sorted
  <2>3. chunks' \subseteq {chunk(p)' : p \in Range(want')}
    BY <1>14, <1>15, <1>21
  <2>4. \A i \in DOMAIN want' : chunk(Sorted(i))' \notin chunks' => Gathered(i)'
    BY <1>14, <1>16, <2>1
  <2>5. \A b \in blocks', c \in chunks' : b[2] <= c * column'.chunk_len
    BY <1>14, <1>20 DEF n
  <2>6. /\ want' # Error /\ column'.kind # "list"
        /\ column'.chunk_len # 0 \/ want' = <<>>
        /\ order' = Ordered(DOMAIN want', want')
        /\ raw' = [i \in DOMAIN want' |-> raw'[i]]
    BY <1>1, <1>12, <1>14 DEF n
  <2>7. pc' # "restore"
    BY <1>0
  <2> QED BY <2>2, <2>3, <2>4, <2>5, <2>6, <2>7 DEF GatherFits
<1>23. /\ \A b \in blocks : b[2] <= nrows /\ \A p \in b[1]..(b[2] - 1) :
            \E q \in Range(want) : chunk(q) = chunk(p)
       /\ \A b, d \in blocks : b # d => b[2] <= d[1] \/ d[2] <= b[1]
  BY <1>0 DEF BlocksFit
<1>24. ASSUME NEW p \in lo..(hi - 1) PROVE \E q \in Range(want) : chunk(q) = chunk(p)
  <2>1. p \in 0..(nrows - 1)
    BY <1>2, <1>9, <1>10
  <2>2. chunk(p) \in chunks
    BY <2>1, <1>8, <1>11
  <2> QED BY <2>2, <1>1
<1>25. BlocksFit'
  <2>1. \A b \in blocks' : b[2] <= nrows /\ \A p \in b[1]..(b[2] - 1) :
          \E q \in Range(want) : chunk(q) = chunk(p)
    BY <1>10, <1>17, <1>18, <1>23, <1>24
  <2>2. \A b, d \in blocks' : b # d => b[2] <= d[1] \/ d[2] <= b[1]
    BY <1>17, <1>18, <1>19, <1>23
  <2> QED BY <2>1, <2>2, <1>14, <1>15 DEF BlocksFit
<1>26. blocks' \in SUBSET (Int \X Int)
  <2>1. {<<lo, hi>>} \in SUBSET (Int \X Int)
    BY <1>9, <1>10, OneBlock
  <2> QED BY <1>17, <1>19, <2>1
<1> QED BY <1>22, <1>25, <1>26

\* When no chunk is left, every wanted row is there.
LEMMA EndKeeps ==
  ASSUME ReadsInv, EndGather PROVE GatherFits' /\ BlocksFit'
<1>1. /\ GatherFits /\ BlocksFit /\ pc = "gather" /\ chunks = {} /\ pc' = "restore"
      /\ column' = column /\ nrows' = nrows /\ stored' = stored /\ want' = want
      /\ order' = order /\ raw' = raw /\ blocks' = blocks
  BY DEF ReadsInv, EndGather, table
<1>2. \A i \in DOMAIN want : Gathered(i)
  BY <1>1 DEF GatherFits
<1>3. \A i : Gathered(i)' <=> Gathered(i)
  BY <1>1 DEF Gathered, Sorted
<1>4. GatherFits'
  <2>1. /\ want' # Error /\ column'.kind # "list"
        /\ column'.chunk_len # 0 \/ want' = <<>>
        /\ order' = Ordered(DOMAIN want', want')
        /\ raw' = [i \in DOMAIN want' |-> raw'[i]]
    BY <1>1 DEF GatherFits
  <2> QED BY <1>1, <1>2, <1>3, <2>1 DEF GatherFits
<1>5. BlocksFit'
  BY <1>1 DEF BlocksFit, chunk
<1> QED BY <1>4, <1>5

\* What is put back at place j is the row wanted there: the sort has every place.
LEMMA RestoreStep ==
  ASSUME ReadsInv, Restore PROVE ReadsBack'
<1> DEFINE at(j) == CHOOSE i \in DOMAIN order : order[i] = j
           values == [j \in DOMAIN want |-> raw[at(j)]]
<1>0. /\ RowsFit /\ KeyFits /\ pc = "restore" /\ pc # "idle" /\ want # Error
      /\ order = Ordered(DOMAIN want, want) /\ \A i \in DOMAIN want : Gathered(i)
      /\ UNCHANGED <<table, key, want>>
  BY DEF ReadsInv, Restore, GatherFits
<1>1. IsKey(key) /\ want = Resolve(key, nrows)
  BY <1>0, Resolved
<1>2. order \in [DOMAIN want -> DOMAIN want] /\ \A j \in DOMAIN want : \E i \in DOMAIN want : order[i] = j
  BY <1>0, Places
<1>3. ASSUME NEW j \in DOMAIN want PROVE raw[at(j)] = stored[want[j] + 1]
  <2>1. at(j) \in DOMAIN want /\ order[at(j)] = j
    BY <1>2
  <2> HIDE DEF at
  <2>2. raw[at(j)] = stored[want[order[at(j)]] + 1]
    BY <1>0, <2>1 DEF Gathered, Sorted
  <2> QED BY <2>1, <2>2
<1>4. Answer(values)
  BY DEF Restore
<1>5. values = [i \in DOMAIN want |-> stored[want[i] + 1]]
  <2> HIDE DEF at
  <2> QED BY <1>3
<1> HIDE DEF values
<1> QED BY <1>0, <1>1, <1>4, <1>5, Answered

-----------------------------------------------------------------------------
(* The table.                                                              *)

\* The committed rows of a table are encoded as before as long as its column is
\* the same.
LEMMA SameColumn ==
  ASSUME column' = column, NEW v
  PROVE  encode(v)' = encode(v)
BY DEF encode

\* An append that does not fail adds the encoding of its values behind the rows,
\* over what a truncate left there.
LEMMA AppendKeeps ==
  ASSUME ReadsInv, NEW values \in Given[column.kind], AppendValues(values)
  PROVE  RowsFit'
<1> DEFINE new == [i \in DOMAIN values |-> encode(values[i])]
           end == nrows + Len(values)
<1>0. /\ RowsFit /\ values # <<>> /\ end <= MaxRows
      /\ IF Error \in Range(new) THEN UNCHANGED table
         ELSE /\ stored' = SubSeq(stored, 1, nrows) \o new \o SubSeq(stored, end + 1, Len(stored))
              /\ given' = given \o values /\ nrows' = end
              /\ UNCHANGED column
  BY DEF ReadsInv, AppendValues
<1>1. /\ column \in Columns /\ nrows \in Nat /\ MaxRows \in Nat
      /\ stored \in Seq(Cells) /\ Len(stored) \in Nat /\ nrows <= Len(stored)
      /\ given \in Seq(Values) /\ Len(given) = nrows
      /\ \A p \in 1..nrows : stored[p] = encode(given[p]) /\ stored[p] # Error
  BY <1>0, ReadsAssumption DEF RowsFit
<1>2. /\ values \in Seq(Values) /\ Len(values) \in Nat /\ DOMAIN values = 1..Len(values)
      /\ \A i \in 1..Len(values) : values[i] \in Values
  <2>1. values \in Seq(Range(values))
    BY <1>1, ReadsAssumption
  <2>2. Range(values) \subseteq Values
    BY <1>1 DEF Values
  <2>3. Len(values) \in Nat /\ DOMAIN values = 1..Len(values)
    BY <2>1
  <2>4. \A i \in 1..Len(values) : values[i] \in Values
    BY <2>2, <2>3 DEF Range
  <2>5. values \in Seq(Values)
    BY <2>1, <2>2, SeqMonotonic
  <2> QED BY <2>3, <2>4, <2>5
<1>3. CASE Error \in Range(new)
  <2>1. column' = column /\ nrows' = nrows /\ stored' = stored /\ given' = given
    BY <1>0, <1>3 DEF table
  <2>2. \A v : encode(v)' = encode(v)
    BY <2>1, SameColumn
  <2> QED BY <1>0, <2>1, <2>2 DEF RowsFit, encode
<1>4. CASE Error \notin Range(new)
  <2> DEFINE k == Len(values)
             head == SubSeq(stored, 1, nrows)
             tail == SubSeq(stored, end + 1, Len(stored))
  <2>0. /\ stored' = head \o new \o tail
        /\ given' = given \o values /\ nrows' = nrows + k /\ column' = column
    BY <1>0, <1>4
  <2>1. \A i \in 1..k : new[i] = encode(values[i]) /\ new[i] # Error /\ new[i] \in Cells
    <3> TAKE i \in 1..k
    <3>1. new[i] = encode(values[i])
      BY <1>2
    <3>2. new[i] \in Range(new)
      BY <1>2 DEF Range
    <3>3. encode(values[i]) # Error
      BY <3>1, <3>2, <1>4
    <3>4. encode(values[i]) \in Cells
      BY <3>3, <1>1, <1>2, EncodedCell
    <3> QED BY <3>1, <3>3, <3>4
  <2>2. new \in Seq(Cells) /\ Len(new) = k
    <3>1. DOMAIN new = 1..k
      BY <1>2
    <3>2. new \in [1..k -> Cells]
      <4>1. new = [i \in 1..k |-> new[i]]
        BY <3>1
      <4> HIDE DEF new
      <4> QED BY <4>1, <2>1
    <3> HIDE DEF new
    <3> QED BY <3>1, <3>2, <1>2
  <2> HIDE DEF new
  <2>3. \A i \in 1..Len(stored) : stored[i] \in Cells
    BY <1>1
  <2>4. /\ head \in Seq(Cells)
        /\ Len(head) = IF 1 <= nrows THEN nrows - 1 + 1 ELSE 0
        /\ \A i \in 1..(nrows - 1 + 1) : head[i] = stored[1 + i - 1]
    <3>1. \A i \in 1..nrows : stored[i] \in Cells
      BY <1>1, <2>3
    <3> QED BY <3>1, <1>1, SubSeqProperties
  <2>5. tail \in Seq(Cells)
    <3>1. \A i \in (end + 1)..Len(stored) : stored[i] \in Cells
      BY <1>1, <1>2, <2>3
    <3>2. end + 1 \in Int /\ Len(stored) \in Int
      BY <1>1, <1>2
    <3> HIDE DEF end
    <3> QED BY <3>1, <3>2, SubSeqProperties
  <2> HIDE DEF head, tail
  <2>6. Len(head) = nrows /\ \A p \in 1..nrows : head[p] = stored[p]
    BY <1>1, <2>4
  <2> DEFINE front == head \o new
  <2>7. /\ front \in Seq(Cells) /\ Len(front) = nrows + k
        /\ \A p \in 1..(nrows + k) : front[p] = IF p <= nrows THEN stored[p] ELSE new[p - nrows]
    <3>1. /\ head \o new \in Seq(Cells) /\ Len(head \o new) = Len(head) + Len(new)
          /\ \A i \in 1..(Len(head) + Len(new)) :
               (head \o new)[i] = IF i <= Len(head) THEN head[i] ELSE new[i - Len(head)]
      BY <2>2, <2>4, ConcatProperties
    <3>2. front \in Seq(Cells) /\ Len(front) = nrows + k
      BY <3>1, <2>2, <2>6
    <3>3. \A p \in 1..(nrows + k) : front[p] = IF p <= nrows THEN head[p] ELSE new[p - nrows]
      BY <3>1, <2>2, <2>6
    <3> HIDE DEF front
    <3>4. \A p \in 1..(nrows + k) : p <= nrows => p \in 1..nrows
      BY <1>1, <1>2
    <3> QED BY <3>2, <3>3, <3>4, <2>6
  <2>8. /\ stored' \in Seq(Cells) /\ Len(stored') = nrows + k + Len(tail)
        /\ \A p \in 1..(nrows + k) : stored'[p] = front[p]
    <3>1. stored' = front \o tail
      BY <2>0
    <3> HIDE DEF front
    <3>2. /\ front \o tail \in Seq(Cells) /\ Len(front \o tail) = Len(front) + Len(tail)
          /\ \A i \in 1..(Len(front) + Len(tail)) :
               (front \o tail)[i] = IF i <= Len(front) THEN front[i] ELSE tail[i - Len(front)]
      BY <2>5, <2>7, ConcatProperties
    <3>3. Len(tail) \in Nat
      BY <2>5
    <3>4. \A p \in 1..(nrows + k) : p \in 1..(nrows + k + Len(tail)) /\ p <= nrows + k
      BY <1>1, <1>2, <3>3
    <3> QED BY <3>1, <3>2, <3>4, <2>7
  <2> HIDE DEF front
  <2>9. /\ given' \in Seq(Values) /\ Len(given') = nrows + k
        /\ \A p \in 1..(nrows + k) : given'[p] = IF p <= nrows THEN given[p] ELSE values[p - nrows]
    <3>1. /\ given \o values \in Seq(Values) /\ Len(given \o values) = Len(given) + Len(values)
          /\ \A i \in 1..(Len(given) + Len(values)) :
               (given \o values)[i] = IF i <= Len(given) THEN given[i] ELSE values[i - Len(given)]
      BY <1>1, <1>2, ConcatProperties
    <3> QED BY <3>1, <2>0, <1>1
  <2>10. \A v : encode(v)' = encode(v)
    BY <2>0, SameColumn
  <2>11. ASSUME NEW p \in 1..(nrows + k)
         PROVE  stored'[p] = encode(given'[p]) /\ stored'[p] # Error
    <3>1. CASE p <= nrows
      <4>1. p \in 1..nrows
        BY <1>1, <3>1
      <4>2. stored'[p] = stored[p] /\ given'[p] = given[p]
        BY <2>7, <2>8, <2>9, <3>1
      <4> QED BY <1>1, <4>1, <4>2
    <3>2. CASE ~(p <= nrows)
      <4>1. p - nrows \in 1..k
        BY <1>1, <1>2, <3>2
      <4>2. stored'[p] = new[p - nrows] /\ given'[p] = values[p - nrows]
        BY <2>7, <2>8, <2>9, <3>2
      <4> QED BY <2>1, <4>1, <4>2
    <3> QED BY <3>1, <3>2
  <2>12. nrows' \in 0..MaxRows /\ nrows' <= Len(stored')
    <3>1. Len(tail) \in Nat
      BY <2>5
    <3> QED BY <3>1, <1>0, <1>1, <1>2, <2>0, <2>8
  <2>13. \A p \in 1..nrows' : stored'[p] = encode(given[p])' /\ stored'[p] # Error
    <3>1. \A p \in 1..nrows' : stored'[p] = encode(given'[p]) /\ stored'[p] # Error
      BY <2>0, <2>11
    <3> QED BY <3>1, <2>0 DEF encode
  <2> QED BY <1>1, <2>0, <2>8, <2>9, <2>12, <2>13 DEF RowsFit, encode
<1> QED BY <1>3, <1>4

\* A truncate takes the last rows off; the dataset keeps them.
LEMMA TruncateKeeps ==
  ASSUME ReadsInv, NEW n \in 0..MaxRows, Truncate(n)
  PROVE  RowsFit'
<1>1. /\ column \in Columns /\ nrows \in 0..MaxRows /\ MaxRows \in Nat /\ n < nrows
      /\ stored \in Seq(Cells) /\ Len(stored) \in Nat /\ nrows <= Len(stored)
      /\ given \in Seq(Values) /\ Len(given) = nrows
      /\ \A p \in 1..nrows : stored[p] = encode(given[p]) /\ stored[p] # Error
      /\ nrows' = n /\ given' = SubSeq(given, 1, n) /\ column' = column /\ stored' = stored
  BY ReadsAssumption DEF ReadsInv, RowsFit, Truncate
<1>2. /\ SubSeq(given, 1, n) \in Seq(Values)
      /\ Len(SubSeq(given, 1, n)) = IF 1 <= n THEN n - 1 + 1 ELSE 0
      /\ \A i \in 1..(n - 1 + 1) : SubSeq(given, 1, n)[i] = given[1 + i - 1]
  <2>1. \A i \in 1..Len(given) : given[i] \in Values
    BY <1>1
  <2>2. \A i \in 1..n : given[i] \in Values
    BY <1>1, <2>1
  <2>3. 1 \in Int /\ n \in Int
    OBVIOUS
  <2> QED BY <2>2, <2>3, SubSeqProperties
<1>3. given' \in Seq(Values) /\ Len(given') = n /\ \A p \in 1..n : given'[p] = given[p]
  BY <1>1, <1>2
<1>4. \A p \in 1..n : stored'[p] = encode(given'[p]) /\ stored'[p] # Error
  <2>1. \A p \in 1..n : p \in 1..nrows
    BY <1>1
  <2> QED BY <1>1, <1>3, <2>1
<1>5. \A p \in 1..nrows' : stored'[p] = encode(given[p])' /\ stored'[p] # Error
  BY <1>1, <1>4 DEF encode
<1>6. nrows' \in 0..MaxRows /\ nrows' <= Len(stored') /\ Len(given') = nrows'
  BY <1>1, <1>3
<1> QED BY <1>1, <1>3, <1>5, <1>6 DEF RowsFit, encode

-----------------------------------------------------------------------------
(* The invariant.                                                          *)

\* A read that only sets the state of readers leaves the rows as they are.
LEMMA SameTable ==
  ASSUME RowsFit, UNCHANGED table
  PROVE  RowsFit'
BY DEF RowsFit, table, encode

\* A running read keeps its key.
LEMMA SameKey ==
  ASSUME KeyFits, pc # "idle", UNCHANGED <<table, key, want>>,
         pc' \in {"gather", "restore", "answered"}, blocks' \in SUBSET (Int \X Int)
  PROVE  KeyFits'
<1>1. nrows' = nrows /\ key' = key /\ want' = want
  BY DEF table
<1>2. Resolve(key, nrows)' = Resolve(key, nrows)
  BY <1>1
<1>3. IsKey(key)' <=> IsKey(key)
  BY <1>1
<1> QED BY <1>1, <1>2, <1>3 DEF KeyFits

\* An answer that is not a scattered read's owes nothing to chunks.
LEMMA Unscattered ==
  ASSUME UNCHANGED <<table, key, want>>, pc' = "answered",
         answer' = Error \/ column.kind = "list" \/ column.chunk_len = 0
           \/ key.form \notin {"positions", "mask"}
  PROVE  FetchesOnlyWanted' /\ GatherFits' /\ BlocksFit'
BY DEF FetchesOnlyWanted, GatherFits, BlocksFit, table

\* Every column of a new table is empty.
LEMMA InitReads ==
  ASSUME Init PROVE ReadsInv
<1>1. RowsFit
  BY ReadsAssumption DEF Init, RowsFit
<1>2. KeyFits /\ GatherFits /\ BlocksFit /\ ReadsBack /\ FetchesOnlyWanted
  BY DEF Init, KeyFits, GatherFits, BlocksFit, ReadsBack, FetchesOnlyWanted
<1> QED BY <1>1, <1>2 DEF ReadsInv

\* Nothing is owed while no read runs.
LEMMA Idle ==
  ASSUME pc' = "idle", blocks' = {}
  PROVE  KeyFits' /\ GatherFits' /\ BlocksFit' /\ ReadsBack' /\ FetchesOnlyWanted'
BY DEF KeyFits, GatherFits, BlocksFit, ReadsBack, FetchesOnlyWanted

\* Every step keeps the invariant.
LEMMA StepReads ==
  ASSUME ReadsInv, [Next]_vars PROVE ReadsInv'
<1>0. RowsFit /\ KeyFits /\ GatherFits /\ BlocksFit /\ ReadsBack /\ FetchesOnlyWanted
  BY DEF ReadsInv
<1>1. ASSUME NEW values \in Given[column.kind], AppendValues(values) PROVE ReadsInv'
  <2>1. pc' = "idle" /\ blocks' = {}
    BY <1>0, <1>1 DEF AppendValues, local, KeyFits
  <2> QED BY <1>1, <2>1, AppendKeeps, Idle DEF ReadsInv
<1>2. ASSUME NEW n \in 0..MaxRows, Truncate(n) PROVE ReadsInv'
  <2>1. pc' = "idle" /\ blocks' = {}
    BY <1>0, <1>2 DEF Truncate, local, KeyFits
  <2> QED BY <1>2, <2>1, TruncateKeeps, Idle DEF ReadsInv
<1>3. ASSUME NEW k \in Keys, Ask(k) PROVE ReadsInv'
  <2>1. /\ key' = k /\ want' = Resolve(k, nrows) /\ pc' = "resolved"
        /\ blocks' = {} /\ UNCHANGED table /\ nrows' = nrows
    BY <1>0, <1>3 DEF Ask, KeyFits, table
  <2>2. IsKey(k)
    BY ReadsAssumption
  <2>3. IsKey(key)' <=> IsKey(k)
    BY <2>1
  <2>4. Resolve(key, nrows)' = Resolve(k, nrows)
    BY <2>1
  <2>5. KeyFits'
    BY <2>1, <2>2, <2>3, <2>4 DEF KeyFits
  <2>6. GatherFits' /\ BlocksFit' /\ ReadsBack' /\ FetchesOnlyWanted'
    BY <2>1 DEF GatherFits, BlocksFit, ReadsBack, FetchesOnlyWanted
  <2> QED BY <1>0, <2>1, <2>5, <2>6, SameTable DEF ReadsInv
<1>4. ASSUME Refuse PROVE ReadsInv'
  <2>1. /\ pc # "idle" /\ want = Error /\ answer' = Error /\ pc' = "answered"
        /\ UNCHANGED <<table, key, want>> /\ blocks' = blocks
    BY <1>4 DEF Refuse
  <2>2. UNCHANGED table /\ blocks' \in SUBSET (Int \X Int)
    BY <1>0, <2>1 DEF KeyFits
  <2>3. nrows \in Nat /\ IsKey(key) /\ want = Resolve(key, nrows)
    BY <1>0, <2>1, ReadsAssumption DEF RowsFit, KeyFits
  <2>4. OutOfRange /\ key.form # "slice"
    <3>1. OutOfRange
      BY <2>1, <2>3, ResolvedRight
    <3> QED BY <3>1 DEF OutOfRange
  <2>5. nrows' = nrows /\ key' = key
    BY <2>1 DEF table
  <2>6. OutOfRange' /\ key'.form # "slice"
    BY <2>4, <2>5 DEF OutOfRange, Entry
  <2>7. ReadsBack'
    BY <2>1, <2>6 DEF ReadsBack
  <2> QED BY <1>0, <2>1, <2>2, <2>7, SameTable, SameKey, Unscattered DEF ReadsInv
<1>5. ASSUME ReadSpan PROVE ReadsInv'
  <2> DEFINE lo == IF want = <<>> THEN 0 ELSE Min(Range(want))
             hi == IF want = <<>> THEN 0 ELSE Max(Range(want)) + 1
  <2>1. /\ pc # "idle" /\ want # Error /\ pc' = "answered" /\ UNCHANGED <<table, key, want>>
        /\ blocks' = {<<lo, hi>>}
        /\ column.kind = "list" \/ key.form \notin {"positions", "mask"}
    BY <1>5 DEF ReadSpan, Answer
  <2>2. lo \in Int /\ hi \in Int
    <3>1. /\ Range(want) \subseteq 0..(nrows - 1) /\ IsFiniteSet(Range(want))
          /\ Range(want) = {want[i] : i \in DOMAIN want} /\ DOMAIN want = 1..Len(want)
          /\ Len(want) \in Nat /\ want \in Seq(0..(nrows - 1))
      BY <1>0, <2>1, Resolved
    <3>2. CASE want # <<>>
      <4>1. want[1] \in Range(want)
        <5>1. 1 \in DOMAIN want
          BY <3>1, <3>2
        <5> QED BY <3>1, <5>1
      <4>2. Range(want) \subseteq Int /\ Range(want) # {}
        <5>1. 0..(nrows - 1) \subseteq Int
          OBVIOUS
        <5> QED BY <3>1, <4>1, <5>1
      <4>3. Min(Range(want)) \in Range(want) /\ Max(Range(want)) \in Range(want)
        BY <3>1, <4>2, MinMax
      <4>4. Min(Range(want)) \in Int /\ Max(Range(want)) \in Int
        BY <4>2, <4>3
      <4> QED BY <3>2, <4>4
    <3> QED BY <3>2
  <2> HIDE DEF lo, hi
  <2>3. UNCHANGED table /\ blocks' \in SUBSET (Int \X Int)
    BY <2>1, <2>2, OneBlock
  <2>4. ReadsBack'
    BY <1>5, SpanStep
  <2> QED BY <1>0, <2>1, <2>3, <2>4, SameTable, SameKey, Unscattered DEF ReadsInv
<1>6. ASSUME ReadWhole PROVE ReadsInv'
  <2>1. /\ pc # "idle" /\ pc' = "answered" /\ UNCHANGED <<table, key, want>>
        /\ blocks' = {<<0, nrows>>}
        /\ column.chunk_len = 0 \/ key.form \notin {"positions", "mask"}
    BY <1>6 DEF ReadWhole, Answer
  <2>2. nrows \in Int
    BY <1>0, ReadsAssumption DEF RowsFit
  <2>3. UNCHANGED table /\ blocks' \in SUBSET (Int \X Int)
    BY <2>1, <2>2, OneBlock
  <2>4. ReadsBack'
    BY <1>6, WholeStep
  <2> QED BY <1>0, <2>1, <2>3, <2>4, SameTable, SameKey, Unscattered DEF ReadsInv
<1>7. ASSUME select PROVE ReadsInv'
  <2>1. /\ pc # "idle" /\ pc' = "answered" /\ UNCHANGED <<table, key, want>>
        /\ blocks' = {<<0, nrows>>} /\ column.kind = "list"
    BY <1>7 DEF select, Answer
  <2>2. nrows \in Int
    BY <1>0, ReadsAssumption DEF RowsFit
  <2>3. UNCHANGED table /\ blocks' \in SUBSET (Int \X Int)
    BY <2>1, <2>2, OneBlock
  <2>4. ReadsBack'
    BY <1>7, SelectStep
  <2> QED BY <1>0, <2>1, <2>3, <2>4, SameTable, SameKey, Unscattered DEF ReadsInv
<1>8. ASSUME pc # "idle", pc' \in {"gather", "restore"}, UNCHANGED <<table, key, want>>,
             blocks' \in SUBSET (Int \X Int), GatherFits', BlocksFit'
      PROVE  ReadsInv'
  <2>1. UNCHANGED table
    BY <1>8
  <2>2. ReadsBack' /\ FetchesOnlyWanted'
    BY <1>8 DEF ReadsBack, FetchesOnlyWanted
  <2>3. KeyFits'
    BY <1>0, <1>8, SameKey
  <2> QED BY <1>0, <1>8, <2>1, <2>2, <2>3, SameTable DEF ReadsInv
<1>9. ASSUME Sort PROVE ReadsInv'
  <2>1. pc # "idle" /\ pc' = "gather" /\ UNCHANGED <<table, key, want>> /\ blocks' = blocks
    BY <1>9 DEF Sort
  <2> QED BY <1>0, <1>8, <1>9, <2>1, SortKeeps DEF KeyFits
<1>11. ASSUME GatherRange PROVE ReadsInv'
  <2>1. pc # "idle" /\ pc' = "restore" /\ UNCHANGED <<table, key, want>>
    BY <1>11 DEF GatherRange
  <2> QED BY <1>8, <1>11, <2>1, RangeKeeps
<1>12. ASSUME GatherRun PROVE ReadsInv'
  <2>1. pc # "idle" /\ pc' = "gather" /\ UNCHANGED <<table, key, want>>
    BY <1>12 DEF GatherRun
  <2> QED BY <1>8, <1>12, <2>1, RunKeeps
<1>13. ASSUME EndGather PROVE ReadsInv'
  <2>1. pc # "idle" /\ pc' = "restore" /\ UNCHANGED <<table, key, want>> /\ blocks' = blocks
    BY <1>13 DEF EndGather
  <2> QED BY <1>0, <1>8, <1>13, <2>1, EndKeeps DEF KeyFits
<1>14. ASSUME Restore PROVE ReadsInv'
  <2>1. pc = "restore" /\ pc' = "answered" /\ UNCHANGED <<table, key, want>> /\ blocks' = blocks
    BY <1>14 DEF Restore, Answer
  <2>2. UNCHANGED table /\ blocks' \in SUBSET (Int \X Int) /\ pc # "idle"
    BY <1>0, <2>1 DEF KeyFits
  <2>3. ReadsBack'
    BY <1>14, RestoreStep
  <2>4. GatherFits' /\ BlocksFit'
    BY <2>1 DEF GatherFits, BlocksFit
  <2>5. FetchesOnlyWanted'
    BY <1>0, <2>1 DEF BlocksFit, FetchesOnlyWanted, table, chunk
  <2>6. KeyFits' /\ RowsFit'
    BY <1>0, <2>1, <2>2, SameTable, SameKey
  <2> QED BY <2>3, <2>4, <2>5, <2>6 DEF ReadsInv
<1>15. ASSUME Return PROVE ReadsInv'
  <2>1. pc' = "idle" /\ blocks' = {} /\ UNCHANGED table
    BY <1>15 DEF Return
  <2> QED BY <1>0, <2>1, SameTable, Idle DEF ReadsInv
<1>16. ASSUME UNCHANGED vars PROVE ReadsInv'
  <2>1. /\ column' = column /\ nrows' = nrows /\ stored' = stored /\ given' = given
        /\ pc' = pc /\ key' = key /\ want' = want /\ order' = order /\ chunks' = chunks
        /\ raw' = raw /\ blocks' = blocks /\ answer' = answer
    BY <1>16 DEF vars, table, local
  <2>2. RowsFit' /\ KeyFits'
    BY <1>0, <2>1 DEF RowsFit, KeyFits, encode
  <2>3. GatherFits' /\ BlocksFit' /\ FetchesOnlyWanted'
    BY <1>0, <2>1 DEF GatherFits, BlocksFit, FetchesOnlyWanted, chunk, Sorted, Gathered, Ascending
  <2>4. ReadsBack'
    <3>1. CASE pc = "answered"
      <4>1. UNCHANGED <<table, key, want>> /\ answer' = answer
        BY <2>1 DEF table
      <4>2. /\ answer = IF OutOfRange THEN Error
                        ELSE [i \in DOMAIN Wanted |-> Meant(given[Wanted[i] + 1])]
            /\ key.form = "slice" =>
                 LET step == IF key.of[3] = None THEN 1 ELSE key.of[3] IN
                 /\ Range(want) = SliceRows(key.of[1], key.of[2], step)
                 /\ \A i, j \in DOMAIN want :
                      i < j => IF step > 0 THEN want[i] < want[j] ELSE want[i] > want[j]
        BY <1>0, <3>1, Zenon DEF ReadsBack
      <4> QED BY <4>1, <4>2, SameAnswer
    <3>2. CASE pc # "answered"
      BY <2>1, <3>2 DEF ReadsBack
    <3> QED BY <3>1, <3>2
  <2> QED BY <2>2, <2>3, <2>4 DEF ReadsInv
<1> QED
  BY <1>1, <1>2, <1>3, <1>4, <1>5, <1>6, <1>7, <1>9, <1>11, <1>12, <1>13, <1>14, <1>15, <1>16
  DEF Next

\* What the invariant says of every state (the readers of _hdf5.py, indexes.py and
\* the columns): the dataset holds the encoding of what was appended, and a
\* running read has fetched the right rows so far.
THEOREM ReadersRight == Spec => []ReadsInv
<1>1. Init => ReadsInv
  BY InitReads
<1>2. ReadsInv /\ [Next]_vars => ReadsInv'
  BY StepReads
<1> QED BY <1>1, <1>2, PTL DEF Spec

\* Whatever key is used and whatever truncate left behind NROWS, a reader gives
\* back the values callers appended, in the order asked for, repeats included
\* (Column.read_rows, ListColumn.read_rows, Selection.read, Selection.to_arrow).
THEOREM WhatWasAppended == Spec => []ReadsBack
<1>1. ReadsInv => ReadsBack
  BY DEF ReadsInv
<1> QED BY <1>1, ReadersRight, PTL

\* A scattered read of a chunked column fetches no chunk without a wanted row,
\* none twice, and nothing behind NROWS (gather_rows).
THEOREM NoChunkInVain == Spec => []FetchesOnlyWanted
<1>1. ReadsInv => FetchesOnlyWanted
  BY DEF ReadsInv
<1> QED BY <1>1, ReadersRight, PTL
=============================================================================
