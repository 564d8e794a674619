---------------------------- MODULE IndexFileProofs ----------------------------
(***************************************************************************)
(* Proofs about IndexFile for any columns, values, fills and bounds: what  *)
(* the deep check accepts answers truthfully, no rebuild makes an index    *)
(* valid that would fail it, every call leaves a file that validates, and  *)
(* a dead builder leaves nothing that is believed and wrong.               *)
(***************************************************************************)
EXTENDS IndexFileInvariant, IndexKindsProofs

-----------------------------------------------------------------------------
(* Content.                                                                *)

\* The rows of a column as the lemmas about kinds want them.
LEMMA RowsTyped ==
  ASSUME NEW rows \in Seq(Element)
  PROVE  /\ Len(rows) \in Nat /\ DOMAIN rows = 1..Len(rows)
         /\ \A r \in 1..Len(rows) : rows[r] \in Element
OBVIOUS

\* A column has finitely many values.
LEMMA FiniteValues ==
  ASSUME NEW n \in Nat, NEW rows, NEW S, S \subseteq 1..n
  PROVE  IsFiniteSet(S) /\ IsFiniteSet({rows[r] : r \in S})
<1> DEFINE T == {rows[r] : r \in S}
<1>1. IsFiniteSet(S)
  <2>1. IsFiniteSet(1..n)
    BY FS_Interval
  <2> QED BY <2>1, FS_Subset
<1>2. [r \in S |-> rows[r]] \in Surjection(S, T)
  BY DEF Surjection
<1> HIDE DEF T
<1>3. IsFiniteSet(T)
  BY <1>1, <1>2, FS_Surjection
<1> QED BY <1>1, <1>3 DEF T

\* CHUNK_MINMAX is a list of entries, one per chunk, that count its rows.
LEMMA MinmaxEntries ==
  ASSUME NEW n \in Nat, NEW rows, \A r \in 1..n : rows[r] \in Element, NEW f \in FillValue,
         NEW c \in 0..(data_chunk_count(n) - 1)
  PROVE  LET e == compute_chunk_minmax(rows, n, f)[c]
         IN  e \in Entries /\ e.n = Cardinality(ChunkRows(c, n))
<1> DEFINE chunk  == ChunkRows(c, n)
           good   == {s \in chunk : Orderable(rows[s], f)}
           values == {rows[s] : s \in good}
           nans   == {s \in chunk : rows[s] = NaN}
           fills  == {s \in chunk : is_missing(rows[s], f)}
           none   == IF f # NoFill THEN f ELSE NaN
           low    == IF values = {} THEN none ELSE Min(values)
           high   == IF values = {} THEN none ELSE Max(values)
<1>1. compute_chunk_minmax(rows, n, f)[c] =
        [min |-> low, max |-> high, nans |-> Cardinality(nans), fills |-> Cardinality(fills),
         n |-> Cardinality(chunk)]
  BY DEF compute_chunk_minmax
<1>2. chunk \subseteq 1..n /\ good \subseteq 1..n /\ nans \subseteq 1..n /\ fills \subseteq 1..n
  BY DEF ChunkRows
<1>3. \A s \in good : rows[s] \in Int
  BY <1>2 DEF Orderable, Element
<1>4. none \in Int \cup {NaN}
  BY DEF FillValue
<1> HIDE DEF chunk, good, nans, fills, none
<1>5. IsFiniteSet(chunk) /\ IsFiniteSet(nans) /\ IsFiniteSet(fills) /\ IsFiniteSet(values)
  <2>1. IsFiniteSet(values)
    BY <1>2, FiniteValues
  <2> QED BY <1>2, <2>1, FiniteValues
<1>6. Cardinality(chunk) \in Nat /\ Cardinality(nans) \in Nat /\ Cardinality(fills) \in Nat
  BY <1>5, FS_CardinalityType
<1>7. values \subseteq Int
  BY <1>3
<1>8. low \in Int \cup {NaN} /\ high \in Int \cup {NaN}
  <2>1. CASE values = {}
    BY <2>1, <1>4
  <2>2. CASE values # {}
    <3> HIDE DEF values
    <3>1. Min(values) \in values /\ Max(values) \in values
      BY <1>5, <1>7, <2>2, Extremes DEF Min, Max
    <3> QED BY <3>1, <2>2, <1>7
  <2> QED BY <2>1, <2>2
<1> HIDE DEF low, high, values
<1> QED BY <1>1, <1>6, <1>8 DEF Entries, chunk

\* A list behind another.
LEMMA TwoLists ==
  ASSUME NEW S, NEW a \in Seq(S), NEW b \in Seq(S), NEW t, t = a \o b
  PROVE  /\ t \in Seq(S) /\ Len(t) = Len(a) + Len(b)
         /\ \A i \in 1..Len(a) : t[i] = a[i]
         /\ \A i \in 1..Len(b) : t[i + Len(a)] = b[i]
<1>1. /\ a \o b \in Seq(S) /\ Len(a \o b) = Len(a) + Len(b)
      /\ \A i \in 1..(Len(a) + Len(b)) : (a \o b)[i] = IF i <= Len(a) THEN a[i] ELSE b[i - Len(a)]
  BY ConcatProperties
<1>2. /\ t \in Seq(S) /\ Len(t) = Len(a) + Len(b)
      /\ \A i \in 1..(Len(a) + Len(b)) : t[i] = IF i <= Len(a) THEN a[i] ELSE b[i - Len(a)]
  BY <1>1, Zenon
<1>3. Len(a) \in Nat /\ Len(b) \in Nat
  OBVIOUS
<1>4. ASSUME NEW i \in 1..Len(a) PROVE t[i] = a[i]
  <2>1. i \in 1..(Len(a) + Len(b)) /\ i <= Len(a)
    BY <1>3
  <2> QED BY <2>1, <1>2
<1>5. ASSUME NEW i \in 1..Len(b) PROVE t[i + Len(a)] = b[i]
  <2> DEFINE j == i + Len(a)
  <2>1. j \in 1..(Len(a) + Len(b)) /\ ~(j <= Len(a)) /\ j - Len(a) = i
    BY <1>3
  <2> HIDE DEF j
  <2>2. t[j] = b[i]
    BY <2>1, <1>2
  <2> QED BY <2>2 DEF j
<1> QED BY <1>2, <1>4, <1>5

\* SORTED_ROWS lists every row once, and its two tails are no longer than that.
LEMMA SortedWhole ==
  ASSUME NEW n \in Nat, NEW rows, \A r \in 1..n : rows[r] \in Element, NEW f \in FillValue
  PROVE  LET s == compute_sorted_rows(rows, n, f) IN
         /\ s.perm \in Seq(1..n) /\ Len(s.perm) = n
         /\ {s.perm[r] : r \in 1..n} = 1..n
         /\ s.fills \in Nat /\ s.nans \in Nat /\ s.fills + s.nans <= n
<1> DEFINE nans  == {r \in 1..n : rows[r] = NaN}
           fills == {r \in 1..n : is_missing(rows[r], f)} \ nans
           body  == (1..n) \ (nans \cup fills)
           row   == [r \in 1..n |-> r]
           A == Ordered(body, rows)
           B == Ordered(fills, row)
           C == Ordered(nans, row)
           perm == A \o B \o C
<1>1. compute_sorted_rows(rows, n, f) =
        [perm |-> perm, fills |-> Cardinality(fills), nans |-> Cardinality(nans)]
  BY DEF compute_sorted_rows
<1>2. body \subseteq 1..n /\ fills \subseteq 1..n /\ nans \subseteq 1..n
  OBVIOUS
<1>3. /\ \A r \in body : rows[r] \in Int
      /\ \A r \in fills : row[r] \in Int
      /\ \A r \in nans : row[r] \in Int
  BY DEF Element
<1>4. /\ nans \cap fills = {} /\ body \cap (nans \cup fills) = {}
      /\ body \cup (nans \cup fills) = 1..n
  OBVIOUS
<1> HIDE DEF nans, fills, body, row
<1>5. /\ IsFiniteSet(body) /\ Cardinality(body) \in Nat
      /\ A \in [1..Cardinality(body) -> body] /\ SortedBy(A, body, rows)
  BY <1>2, <1>3, OrderedRows
<1>6. /\ IsFiniteSet(fills) /\ Cardinality(fills) \in Nat
      /\ B \in [1..Cardinality(fills) -> fills] /\ SortedBy(B, fills, row)
  BY <1>2, <1>3, OrderedRows
<1>7. /\ IsFiniteSet(nans) /\ Cardinality(nans) \in Nat
      /\ C \in [1..Cardinality(nans) -> nans] /\ SortedBy(C, nans, row)
  BY <1>2, <1>3, OrderedRows
<1>8. /\ \A r \in body : \E i \in 1..Cardinality(body) : A[i] = r
      /\ \A r \in fills : \E i \in 1..Cardinality(fills) : B[i] = r
      /\ \A r \in nans : \E i \in 1..Cardinality(nans) : C[i] = r
  BY <1>5, <1>6, <1>7 DEF SortedBy
<1> HIDE DEF A, B, C
<1>9. Cardinality(body) + Cardinality(fills) + Cardinality(nans) = n
  <2>1. Cardinality(nans \cup fills) = Cardinality(nans) + Cardinality(fills)
        /\ IsFiniteSet(nans \cup fills)
    BY <1>4, <1>6, <1>7, DisjointSum
  <2>2. Cardinality(body \cup (nans \cup fills)) = Cardinality(body) + Cardinality(nans \cup fills)
    BY <1>4, <1>5, <2>1, DisjointSum
  <2>3. Cardinality(1..n) = n
    BY FS_Interval
  <2>4. Cardinality(body \cup (nans \cup fills)) = Cardinality(1..n)
    BY <1>4
  <2> QED BY <2>1, <2>2, <2>3, <2>4, <1>5, <1>6, <1>7
<1>10. /\ A \in Seq(1..n) /\ Len(A) = Cardinality(body)
       /\ B \in Seq(1..n) /\ Len(B) = Cardinality(fills)
       /\ C \in Seq(1..n) /\ Len(C) = Cardinality(nans)
  <2>1. /\ A \in [1..Cardinality(body) -> 1..n] /\ B \in [1..Cardinality(fills) -> 1..n]
        /\ C \in [1..Cardinality(nans) -> 1..n]
    BY <1>2, <1>5, <1>6, <1>7
  <2> QED BY <2>1, <1>5, <1>6, <1>7, FunctionIsSeq
<1>11. /\ perm \in Seq(1..n) /\ Len(perm) = n
       /\ \A i \in 1..Len(A) : perm[i] = A[i]
       /\ \A i \in 1..Len(B) : perm[i + Len(A)] = B[i]
       /\ \A i \in 1..Len(C) : perm[i + Len(A) + Len(B)] = C[i]
  <2> DEFINE S == 1..n
             t == A \o B
  <2>1. A \in Seq(S) /\ B \in Seq(S) /\ C \in Seq(S) /\ t = A \o B /\ perm = t \o C
    BY <1>10
  <2> HIDE DEF S, t, perm
  <2>2. /\ t \in Seq(S) /\ Len(t) = Len(A) + Len(B)
        /\ \A i \in 1..Len(A) : t[i] = A[i]
        /\ \A i \in 1..Len(B) : t[i + Len(A)] = B[i]
    BY <2>1, TwoLists
  <2>3. /\ perm \in Seq(S) /\ Len(perm) = Len(t) + Len(C)
        /\ \A i \in 1..Len(t) : perm[i] = t[i]
        /\ \A i \in 1..Len(C) : perm[i + Len(t)] = C[i]
    BY <2>1, <2>2, TwoLists
  <2>4. Len(A) \in Nat /\ Len(B) \in Nat /\ Len(C) \in Nat
    BY <1>5, <1>6, <1>7, <1>10
  <2>5. ASSUME NEW i \in 1..Len(A) PROVE perm[i] = A[i]
    <3>1. i \in 1..Len(t)
      BY <2>2, <2>4
    <3> QED BY <3>1, <2>2, <2>3
  <2>6. ASSUME NEW i \in 1..Len(B) PROVE perm[i + Len(A)] = B[i]
    <3>1. i + Len(A) \in 1..Len(t)
      BY <2>2, <2>4
    <3> QED BY <3>1, <2>2, <2>3
  <2>7. ASSUME NEW i \in 1..Len(C) PROVE perm[i + Len(A) + Len(B)] = C[i]
    <3>1. i + Len(A) + Len(B) = i + Len(t)
      BY <2>2, <2>4
    <3> QED BY <3>1, <2>3
  <2> QED BY <2>2, <2>3, <2>4, <2>5, <2>6, <2>7, <1>9, <1>10 DEF S
<1> HIDE DEF perm
<1>12. ASSUME NEW r \in 1..n PROVE \E j \in 1..n : perm[j] = r
  <2>1. r \in body \/ r \in fills \/ r \in nans
    BY <1>4
  <2>2. CASE r \in body
    BY <2>2, <1>5, <1>6, <1>7, <1>8, <1>9, <1>10, <1>11
  <2>3. CASE r \in fills
    <3>1. PICK i \in 1..Cardinality(fills) : B[i] = r
      BY <2>3, <1>8
    <3>2. i + Len(A) \in 1..n
      BY <1>5, <1>6, <1>7, <1>9, <1>10
    <3>3. perm[i + Len(A)] = r
      BY <3>1, <1>10, <1>11
    <3> QED BY <3>2, <3>3
  <2>4. CASE r \in nans
    <3>1. PICK i \in 1..Cardinality(nans) : C[i] = r
      BY <2>4, <1>8
    <3>2. i + Len(A) + Len(B) \in 1..n
      BY <1>5, <1>6, <1>7, <1>9, <1>10
    <3>3. perm[i + Len(A) + Len(B)] = r
      BY <3>1, <1>10, <1>11
    <3> QED BY <3>2, <3>3
  <2> QED BY <2>1, <2>2, <2>3, <2>4
<1>13. \A j \in 1..n : perm[j] \in 1..n
  BY <1>11
<1>14. {perm[r] : r \in 1..n} = 1..n
  BY <1>12, <1>13
<1> QED BY <1>1, <1>5, <1>6, <1>7, <1>9, <1>11, <1>14
\* As many bytes as a row of bits needs.
LEMMA Bytes ==
  ASSUME NEW n \in Nat
  PROVE  bitmap_bytes(n) \in Nat /\ n <= Bits * bitmap_bytes(n)
<1> DEFINE q == (n + Bits - 1) \div Bits
           p == Bits * q
<1>1. Bits \in Nat \ {0} /\ n + Bits - 1 \in Nat
  BY IndexFileAssumption
<1>2. q \in Nat /\ n + Bits - 1 < p + Bits
  BY <1>1, DivBounds
<1>3. p \in Nat
  <2> HIDE DEF q
  <2> QED BY <1>1, <1>2
<1> HIDE DEF p
<1>4. n <= p
  BY <1>1, <1>2, <1>3
<1> QED BY <1>2, <1>4 DEF bitmap_bytes, p

\* The values a bitmap enumerates are the present numbers, each a number.
LEMMA Enumerated ==
  ASSUME NEW rows \in Seq(Element), NEW f \in FillValue
  PROVE  LET values == {rows[r] : r \in {r \in 1..Len(rows) : Orderable(rows[r], f)}}
             enum == Listed(DOMAIN compute_bitmap(rows, Len(rows), f).rows)
         IN  /\ enum \in Seq(Int) /\ DOMAIN enum = 1..Len(enum)
             /\ {enum[k] : k \in DOMAIN enum} = values
<1> DEFINE n == Len(rows)
           good == {r \in 1..n : Orderable(rows[r], f)}
           values == {rows[r] : r \in good}
           key == [x \in values |-> x]
           enum == Ordered(values, key)
           size == Cardinality(values)
<1>1. n \in Nat /\ \A r \in 1..n : rows[r] \in Element
  BY RowsTyped
<1>2. good \subseteq 1..n
  OBVIOUS
<1>3. values \subseteq Int
  BY <1>1 DEF Orderable, Element
<1>4. IsFiniteSet(values)
  <2> HIDE DEF n, good
  <2> QED BY <1>1, <1>2, FiniteValues
<1>5. DOMAIN compute_bitmap(rows, n, f).rows = values
  BY DEF compute_bitmap
<1>6. Listed(DOMAIN compute_bitmap(rows, n, f).rows) = enum
  BY <1>5 DEF Listed
<1> HIDE DEF values
<1>7. \A x \in values : key[x] \in Int
  BY <1>3
<1>8. size \in Nat /\ enum \in [1..size -> values] /\ SortedBy(enum, values, key)
  <2> HIDE DEF key
  <2> QED BY <1>3, <1>4, <1>7, OrderedList
<1> HIDE DEF key, enum, size
<1>9. enum \in [1..size -> Int] /\ \A x \in values : \E k \in 1..size : enum[k] = x
  BY <1>3, <1>8 DEF SortedBy, size
<1>10. enum \in Seq(Int) /\ Len(enum) = size /\ DOMAIN enum = 1..size
  BY <1>8, <1>9, FunctionIsSeq
<1>11. {enum[k] : k \in DOMAIN enum} = values
  BY <1>8, <1>9, <1>10
<1>12. /\ enum \in Seq(Int) /\ DOMAIN enum = 1..Len(enum)
       /\ {enum[k] : k \in DOMAIN enum} = values
  BY <1>10, <1>11
<1> QED BY <1>6, <1>12 DEF values

\* The content of a CHUNK_MINMAX: the entry of each chunk.
LEMMA MinmaxContent ==
  ASSUME NEW rows \in Seq(Element), NEW f \in FillValue
  PROVE  LET content == compute_index_content("CHUNK_MINMAX", rows, f)
             n == Len(rows)
             count == data_chunk_count(n)
         IN  /\ count \in Nat /\ content.data \in Seq(Entries) /\ Len(content.data) = count
             /\ \A j \in 1..count :
                  /\ content.data[j] = compute_chunk_minmax(rows, n, f)[j - 1]
                  /\ content.data[j].n = Cardinality(ChunkRows(j - 1, n))
<1> DEFINE n == Len(rows)
           count == data_chunk_count(n)
           minmax == compute_chunk_minmax(rows, n, f)
           data == [j \in 1..count |-> minmax[j - 1]]
<1>1. n \in Nat /\ \A r \in 1..n : rows[r] \in Element
  BY RowsTyped
<1>2. count \in Nat
  <2>1. n + ChunkLen - 1 \in Nat /\ ChunkLen \in Nat \ {0}
    BY <1>1, KindsAssumption
  <2> QED BY <2>1, DivBounds DEF data_chunk_count
<1>3. compute_index_content("CHUNK_MINMAX", rows, f).data = data
  BY DEF compute_index_content
<1>4. ASSUME NEW j \in 1..count
      PROVE  minmax[j - 1] \in Entries /\ minmax[j - 1].n = Cardinality(ChunkRows(j - 1, n))
  <2>1. j - 1 \in 0..(count - 1)
    BY <1>2
  <2> HIDE DEF n
  <2> QED BY <1>1, <2>1, MinmaxEntries
<1> HIDE DEF minmax, count, n
<1>5. data \in [1..count -> Entries]
  BY <1>4
<1>6. data \in Seq(Entries) /\ Len(data) = count
  BY <1>2, <1>5, FunctionIsSeq
<1>7. \A j \in 1..count : data[j] = minmax[j - 1] /\ data[j].n = Cardinality(ChunkRows(j - 1, n))
  BY <1>4
<1> QED BY <1>2, <1>3, <1>6, <1>7 DEF minmax, count, n

\* The content of SORTED_ROWS.
LEMMA SortedRowsContent ==
  ASSUME NEW rows \in Seq(Element), NEW f \in FillValue
  PROVE  LET content == compute_index_content("SORTED_ROWS", rows, f)
             sorted == compute_sorted_rows(rows, Len(rows), f)
         IN  content = [data |-> sorted.perm, fills |-> sorted.fills, nans |-> sorted.nans]
BY DEF compute_index_content

\* The values of a column that a bitmap enumerates.
Present(rows, f) == {rows[r] : r \in {r \in 1..Len(rows) : Orderable(rows[r], f)}}

\* The content of a BITMAP: per value the set of its rows.
LEMMA BitmapContent ==
  ASSUME NEW rows \in Seq(Element), NEW f \in FillValue
  PROVE  LET content == compute_index_content("BITMAP", rows, f)
             n == Len(rows)
         IN  /\ content.enum \in Seq(Int) /\ content.data \in Seq(SUBSET (1..n))
             /\ Len(content.data) = Len(content.enum)
             /\ \A k \in 1..Len(content.enum) : content.data[k] = Bitset(rows, content.enum[k])
             /\ Range(content.enum) = Present(rows, f)
             /\ content.width = bitmap_bytes(n)
             /\ content.exhaustive = (\A r \in 1..n : rows[r] = NaN => is_missing(NaN, f))
<1> DEFINE n == Len(rows)
           values == {rows[r] : r \in {r \in 1..n : Orderable(rows[r], f)}}
           enum == Listed(DOMAIN compute_bitmap(rows, n, f).rows)
           data == [k \in DOMAIN enum |-> Bitset(rows, enum[k])]
           exhaustive == \A r \in 1..n : rows[r] = NaN => is_missing(NaN, f)
           content == compute_index_content("BITMAP", rows, f)
<1>1. content = [enum |-> enum, data |-> data, width |-> bitmap_bytes(n),
                 exhaustive |-> compute_bitmap(rows, n, f).exhaustive]
  BY DEF compute_index_content
<1>2. compute_bitmap(rows, n, f).exhaustive = exhaustive
  BY DEF compute_bitmap
<1>3. /\ enum \in Seq(Int) /\ DOMAIN enum = 1..Len(enum)
      /\ {enum[k] : k \in DOMAIN enum} = values
  BY Enumerated
<1>4. DOMAIN rows = 1..n
  BY RowsTyped
<1> HIDE DEF enum, values, exhaustive
<1>5. Len(enum) \in Nat
  BY <1>3
<1>6. data \in [1..Len(enum) -> SUBSET (1..n)]
  BY <1>3, <1>4 DEF Bitset
<1>7. data \in Seq(SUBSET (1..n)) /\ Len(data) = Len(enum)
  <2> HIDE DEF data
  <2> QED BY <1>5, <1>6, FunctionIsSeq
<1>8. \A k \in 1..Len(enum) : data[k] = Bitset(rows, enum[k])
  BY <1>3
<1>9. Range(enum) = values
  BY <1>3 DEF Range
<1> HIDE DEF data, content
<1>10. /\ content.enum = enum /\ content.data = data /\ content.width = bitmap_bytes(n)
       /\ content.exhaustive = exhaustive
  BY <1>1, <1>2
<1> QED BY <1>3, <1>7, <1>8, <1>9, <1>10 DEF values, exhaustive, content, Present

\* The beginning of a list.
LEMMA Beginning ==
  ASSUME NEW S, NEW s \in Seq(S), NEW k \in Nat, k <= Len(s)
  PROVE  /\ SubSeq(s, 1, k) \in Seq(S) /\ Len(SubSeq(s, 1, k)) = k
         /\ \A j \in 1..k : SubSeq(s, 1, k)[j] = s[j]
OBVIOUS

-----------------------------------------------------------------------------
(* What the deep check accepts answers truthfully.                         *)

\* A column as the lemmas about kinds want it.
LEMMA ColumnTyped ==
  ASSUME ColumnsFit, NEW c \in Columns
  PROVE  /\ col[c] \in Seq(Element) /\ fill[c] \in FillValue
         /\ Len(col[c]) = nrows /\ nrows \in Nat /\ DOMAIN col[c] = 1..nrows
         /\ \A r \in 1..nrows : col[c][r] \in Element
<1>1. Cells \subseteq Element /\ Fills \subseteq FillValue
  BY IndexFileAssumption DEF Element, FillValue
<1>2. col[c] \in Seq(Cells) /\ fill[c] \in Fills /\ Len(col[c]) = nrows
  BY DEF ColumnsFit
<1> HIDE DEF nrows
<1>3. col[c] \in Seq(Element) /\ fill[c] \in FillValue
  BY <1>1, <1>2
<1>4. /\ Len(col[c]) \in Nat /\ DOMAIN col[c] = 1..Len(col[c])
      /\ \A r \in 1..Len(col[c]) : col[c][r] \in Element
  BY <1>3, RowsTyped
<1> QED BY <1>2, <1>3, <1>4

\* The rows a question asks for are those of the theorems about kinds.
LEMMA MatchesExact ==
  ASSUME NEW c, NEW op, NEW v
  PROVE  Matches(c, op, v) = Exact(col[c], nrows, fill[c], op, v)
BY DEF Matches, Exact

\* A question of the model is one of the theorems about kinds.
LEMMA QuestionTyped ==
  ASSUME NEW q \in Questions
  PROVE  \/ q[1] \in ScalarOps /\ q[2] \in Int
         \/ q[1] = "between" /\ q[2] \in Int \X Int
BY IndexFileAssumption DEF ScalarOps

\* CHUNK_MINMAX: no match is pruned.
LEMMA MinmaxTruth ==
  ASSUME ColumnsFit, NEW c \in Columns, NEW i, IsDataset(obj[i]), obj[i].kind = "CHUNK_MINMAX",
         check_index(obj, i, col[c], fill[c], TRUE)
  PROVE  TellsTruth(i, c)
<1> DEFINE d == obj[i]
           n == nrows
           rows == col[c]
           f == fill[c]
           count == data_chunk_count(n)
           minmax == compute_chunk_minmax(rows, n, f)
           content == compute_index_content("CHUNK_MINMAX", rows, f)
           read == [k \in 0..(count - 1) |-> d.data[k + 1]]
<1>1. /\ rows \in Seq(Element) /\ f \in FillValue /\ Len(rows) = n /\ n \in Nat
      /\ \A r \in 1..n : rows[r] \in Element
  BY ColumnTyped
<1>2. Len(d.data) >= count /\ SubSeq(d.data, 1, count) = content.data
  <2> HIDE DEF n, rows, f, content, count
  <2>1. d.kind = "CHUNK_MINMAX" /\ check_index(obj, i, rows, f, TRUE)
    BY DEF rows, f
  <2>2. /\ validate_minmax_structure(d, Len(rows))
        /\ SubSeq(d.data, 1, data_chunk_count(Len(rows)))
             = compute_index_content("CHUNK_MINMAX", rows, f).data
    BY <2>1, Zenon DEF check_index
  <2> QED BY <2>2, <1>1 DEF validate_minmax_structure, content, count
<1>3. /\ count \in Nat
      /\ \A j \in 1..count : content.data[j] = minmax[j - 1]
  <2> HIDE DEF n
  <2> QED BY <1>1, MinmaxContent
<1>4. minmax = [k \in 0..(count - 1) |-> minmax[k]]
  BY DEF compute_chunk_minmax
<1>5. d.data \in Seq(Range(d.data))
  BY DEF IsDataset
<1> HIDE DEF d, n, rows, f, count, minmax, content
<1>6. \A j \in 1..count : d.data[j] = minmax[j - 1]
  <2>1. \A j \in 1..count : SubSeq(d.data, 1, count)[j] = d.data[j]
    BY <1>2, <1>3, <1>5, Beginning
  <2> QED BY <2>1, <1>2, <1>3
<1>7. read = minmax
  <2>1. ASSUME NEW k \in 0..(count - 1) PROVE d.data[k + 1] = minmax[k]
    <3>1. k + 1 \in 1..count /\ (k + 1) - 1 = k
      BY <1>3
    <3> QED BY <3>1, <1>6
  <2> QED BY <2>1, <1>4
<1> HIDE DEF read
<1>8. ASSUME NEW q \in Questions
      PROVE  /\ Raises \notin ChunksAnswer(i, c, q[1], q[2])
             /\ Matches(c, q[1], q[2]) \subseteq ChunksAnswer(i, c, q[1], q[2])
  <2> DEFINE answer == chunks_to_rows(prune(minmax, q[1], q[2], f), n)
  <2>1. ~(Len(d.data) < count)
    BY <1>2, <1>3, <1>5
  <2>2. ChunksAnswer(i, c, q[1], q[2]) = chunks_to_rows(prune(read, q[1], q[2], f), n)
    BY <2>1 DEF ChunksAnswer, d, n, f, count, read
  <2>3. Exact(rows, n, f, q[1], q[2]) \subseteq answer
    BY <1>1, QuestionTyped, PruneKeepsMatches DEF minmax
  <2>4. answer \subseteq Nat
    BY <1>1 DEF chunks_to_rows, ChunkRows
  <2>5. Raises \notin Nat
    BY IndexFileAssumption
  <2> HIDE DEF answer
  <2>6. ChunksAnswer(i, c, q[1], q[2]) = answer
    BY <2>2, <1>7 DEF answer
  <2>7. Matches(c, q[1], q[2]) = Exact(rows, n, f, q[1], q[2])
    BY MatchesExact DEF rows, n, f
  <2> QED BY <2>3, <2>4, <2>5, <2>6, <2>7
<1> QED BY <1>8, Zenon DEF TellsTruth

\* SORTED_ROWS: exactly the matches.
LEMMA SortedTruth ==
  ASSUME ColumnsFit, NEW c \in Columns, NEW i, IsDataset(obj[i]), obj[i].kind = "SORTED_ROWS",
         check_index(obj, i, col[c], fill[c], TRUE)
  PROVE  TellsTruth(i, c)
<1> DEFINE d == obj[i]
           n == nrows
           rows == col[c]
           f == fill[c]
           sorted == compute_sorted_rows(rows, n, f)
           body == Body(rows, n, f)
           size == Cardinality(body)
           read == [perm |-> d.data, fills |-> d.fills, nans |-> d.nans]
<1>1. /\ rows \in Seq(Element) /\ f \in FillValue /\ Len(rows) = n /\ n \in Nat
      /\ \A r \in 1..n : rows[r] \in Element
  BY ColumnTyped
<1>2. /\ validate_sorted_rows_structure(d, n)
      /\ SubSeq(d.data, 1, n) = sorted.perm /\ d.fills = sorted.fills /\ d.nans = sorted.nans
  <2> HIDE DEF n, rows, f, sorted
  <2>1. d.kind = "SORTED_ROWS" /\ check_index(obj, i, rows, f, TRUE)
    BY DEF rows, f
  <2>2. /\ validate_sorted_rows_structure(d, Len(rows))
        /\ SubSeq(d.data, 1, Len(rows)) = compute_index_content("SORTED_ROWS", rows, f).data
        /\ d.fills = compute_index_content("SORTED_ROWS", rows, f).fills
        /\ d.nans = compute_index_content("SORTED_ROWS", rows, f).nans
    BY <2>1, Zenon DEF check_index
  <2>3. compute_index_content("SORTED_ROWS", rows, f)
          = [data |-> sorted.perm, fills |-> sorted.fills, nans |-> sorted.nans]
    BY <1>1, SortedRowsContent DEF sorted
  <2> QED BY <2>2, <2>3, <1>1
<1>3. /\ size \in Nat /\ n - sorted.nans - sorted.fills = size
      /\ \A j \in 1..size : sorted.perm[j] = Ordered(body, rows)[j]
  BY <1>1, SortedContent
<1>4. sorted.fills \in Nat /\ sorted.nans \in Nat /\ sorted.fills + sorted.nans <= n
  BY <1>1, SortedWhole
<1>5. d.data \in Seq(Range(d.data))
  BY DEF IsDataset
<1>6. Len(d.data) >= n /\ None \notin {d.fills, d.nans} /\ d.ordered = TRUE
  BY <1>2 DEF validate_sorted_rows_structure
<1> HIDE DEF d, n, rows, f, sorted, body, size
<1>7. \A j \in 1..size : read.perm[j] = Ordered(body, rows)[j]
  <2>1. \A j \in 1..n : SubSeq(d.data, 1, n)[j] = d.data[j]
    BY <1>1, <1>5, <1>6, Beginning
  <2>2. size <= n
    BY <1>1, <1>3, <1>4
  <2> QED BY <2>1, <2>2, <1>1, <1>2, <1>3
<1>8. n - read.nans - read.fills = size
  BY <1>2, <1>3
<1>9. ASSUME NEW q \in Questions
      PROVE  RowsAnswer(i, c, q[1], q[2]) = Matches(c, q[1], q[2])
  <2>1. RowsAnswer(i, c, q[1], q[2]) = sorted_rows(rows, n, read, q[1], q[2])
    <3>1. ~(Len(d.data) < n \/ d.ordered # TRUE \/ None \in {d.fills, d.nans})
      <4>1. ~(Len(d.data) < n)
        BY <1>1, <1>5, <1>6
      <4> QED BY <4>1, <1>6, Zenon
    <3>2. ~(d.fills + d.nans > n)
      BY <1>1, <1>2, <1>4
    <3> QED BY <3>1, <3>2, Zenon DEF RowsAnswer, d, n, rows, read
  <2>2. sorted_rows(rows, n, read, q[1], q[2]) = Exact(rows, n, f, q[1], q[2])
    <3>1. /\ Cardinality(Body(rows, n, f)) \in Nat
          /\ n - read.nans - read.fills = Cardinality(Body(rows, n, f))
          /\ \A j \in 1..Cardinality(Body(rows, n, f)) :
               read.perm[j] = Ordered(Body(rows, n, f), rows)[j]
      BY <1>3, <1>7, <1>8 DEF size, body
    <3> HIDE DEF read
    <3> QED BY <3>1, <1>1, QuestionTyped, SortedBodyExact
  <2>3. Matches(c, q[1], q[2]) = Exact(rows, n, f, q[1], q[2])
    BY MatchesExact DEF rows, n, f
  <2> QED BY <2>1, <2>2, <2>3
<1> QED BY <1>9, Zenon DEF TellsTruth

\* BITMAP: exactly the rows with a value, or no answer.
LEMMA BitmapTruth ==
  ASSUME ColumnsFit, NEW c \in Columns, NEW i, IsDataset(obj[i]), IsDataset(obj[obj[i].values]),
         obj[i].kind = "BITMAP", check_index(obj, i, col[c], fill[c], TRUE)
  PROVE  TellsTruth(i, c)
<1> DEFINE d == obj[i]
           n == nrows
           rows == col[c]
           f == fill[c]
           stored == obj[d.values].data
           bits == Bits * bitmap_bytes(n)
           present == {rows[r] : r \in {r \in DOMAIN rows : ~is_missing(rows[r], f)}}
<1>1. /\ rows \in Seq(Element) /\ f \in FillValue /\ Len(rows) = n /\ n \in Nat
      /\ DOMAIN rows = 1..n /\ \A r \in 1..n : rows[r] \in Element
  BY ColumnTyped
<1>2. /\ validate_bitmap_structure(obj, d, n) /\ deep_check_bitmap(d, stored, rows, f)
  <2> HIDE DEF n, rows, f
  <2>1. d.kind = "BITMAP" /\ check_index(obj, i, rows, f, TRUE)
    BY DEF rows, f
  <2>2. /\ validate_bitmap_structure(obj, d, Len(rows))
        /\ deep_check_bitmap(d, stored, rows, f)
    BY <2>1, Zenon DEF check_index
  <2> QED BY <2>2, <1>1
<1>3. /\ d.dtype = "right" /\ d.values # NoName /\ obj[d.values].dtype = "right"
      /\ obj[d.values].kind = None /\ Len(d.data) = Len(stored) /\ d.width >= bitmap_bytes(n)
  BY <1>2 DEF validate_bitmap_structure
<1>4. d.data \in Seq(Range(d.data)) /\ stored \in Seq(Range(stored)) /\ d.width \in Nat
  BY DEF IsDataset
<1> HIDE DEF d, n, rows, f, stored
<1>5. \A k \in DOMAIN stored : d.data[k] \cap 1..bits = Bitset(rows, stored[k])
  BY <1>2, <1>1 DEF deep_check_bitmap
<1>6. d.exhaustive = TRUE => present \subseteq {stored[k] : k \in DOMAIN stored}
  BY <1>2 DEF deep_check_bitmap
<1>7. bitmap_bytes(n) \in Nat /\ n <= bits
  BY <1>1, Bytes
<1>8. bits \in Nat
  <2>1. Bits \in Nat
    BY IndexFileAssumption
  <2> QED BY <2>1, <1>7
<1> HIDE DEF bits, present
<1>9. bitmap_values_dataset(obj, i) = d.values
  <2>1. obj[d.values].dtype # "absent"
    BY <1>3
  <2> QED BY <2>1, <1>3, Zenon DEF bitmap_values_dataset, d
<1>10. DOMAIN stored = 1..Len(stored) /\ Len(stored) \in Nat
  BY <1>4
<1>11. ASSUME NEW q \in Questions, q[1] = "=="
       PROVE  BitmapAnswer(i, c, q[2]) \in {Matches(c, "==", q[2]), {CannotSay}}
  <2> DEFINE v == q[2]
             matches == {k \in DOMAIN stored : Equal(stored[k], v)}
             exact == Exact(rows, n, f, "==", v)
             found == UNION {d.data[k] \cap 1..n : k \in matches}
  <2>1. v \in Int /\ v # NaN /\ v # NoFill
    <3>1. q[2] \in Int
      BY <1>11, QuestionTyped
    <3> QED BY <3>1, KindsAssumption
  <2>2. exact = {r \in 1..n : rows[r] = v /\ ~(f # NoFill /\ v = f)}
    BY DEF Exact, Compare, is_missing
  <2> HIDE DEF v
  <2>3. BitmapAnswer(i, c, v) =
          IF n = 0 \/ v = f THEN {}
          ELSE IF matches = {} THEN IF d.exhaustive = TRUE THEN {} ELSE {CannotSay}
          ELSE IF \E k \in matches : k > Len(d.data) THEN {Raises}
          ELSE found
    <3>1. ~(d.width < bitmap_bytes(n))
      BY <1>3, <1>4, <1>7
    <3>2. ~(d.dtype # "right" \/ d.width < bitmap_bytes(n) \/ d.values = NoName)
      BY <3>1, <1>3, Zenon
    <3> QED BY <3>2, <1>9, Zenon DEF BitmapAnswer, d, n, f, stored
  <2>4. ASSUME n = 0 \/ v = f PROVE exact = {}
    BY <2>1, <2>2, <2>4, <1>1
  <2>5. ASSUME ~(n = 0 \/ v = f) PROVE exact = {r \in 1..n : rows[r] = v}
    BY <2>2, <2>5
  <2>6. ASSUME ~(n = 0 \/ v = f), matches = {}, d.exhaustive = TRUE PROVE exact = {}
    <3> SUFFICES ASSUME NEW r \in exact PROVE FALSE
      OBVIOUS
    <3>1. r \in 1..n /\ rows[r] = v /\ ~is_missing(rows[r], f)
      BY <2>5, <2>6 DEF Exact
    <3>2. v \in present
      BY <3>1, <1>1 DEF present
    <3>3. PICK k \in DOMAIN stored : stored[k] = v
      BY <3>2, <1>6, <2>6
    <3>4. k \in matches
      BY <3>3, <2>1 DEF Equal
    <3> QED BY <3>4, <2>6
  <2>7. ~\E k \in matches : k > Len(d.data)
    BY <1>3, <1>10
  <2>8. ASSUME ~(n = 0 \/ v = f), matches # {} PROVE found = exact
    <3>1. ASSUME NEW k \in matches PROVE d.data[k] \cap 1..n = {r \in 1..n : rows[r] = v}
      <4>1. k \in DOMAIN stored /\ stored[k] = v
        BY <3>1 DEF Equal
      <4>2. d.data[k] \cap 1..bits = Bitset(rows, v)
        BY <4>1, <1>5
      <4>3. 1..n \subseteq 1..bits
        BY <1>1, <1>7, <1>8
      <4>4. Bitset(rows, v) = {r \in 1..n : rows[r] = v}
        BY <1>1, <2>1 DEF Bitset, Equal
      <4> QED BY <4>2, <4>3, <4>4
    <3> HIDE DEF matches
    <3>2. found = {r \in 1..n : rows[r] = v}
      BY <3>1, <2>8
    <3> QED BY <3>2, <2>5, <2>8
  <2>9. Matches(c, "==", v) = exact
    BY MatchesExact DEF rows, n, f
  <2> HIDE DEF matches, exact, found
  <2>10. BitmapAnswer(i, c, v) \in {exact, {CannotSay}}
    <3>1. CASE n = 0 \/ v = f
      BY <3>1, <2>3, <2>4
    <3>2. CASE ~(n = 0 \/ v = f) /\ matches = {}
      <4>1. BitmapAnswer(i, c, v) = IF d.exhaustive = TRUE THEN {} ELSE {CannotSay}
        BY <3>2, <2>3
      <4>2. CASE d.exhaustive = TRUE
        BY <4>1, <4>2, <3>2, <2>6
      <4>3. CASE d.exhaustive # TRUE
        BY <4>1, <4>3
      <4> QED BY <4>2, <4>3
    <3>3. CASE ~(n = 0 \/ v = f) /\ matches # {}
      BY <3>3, <2>3, <2>7, <2>8
    <3> QED BY <3>1, <3>2, <3>3
  <2> QED BY <2>9, <2>10 DEF v
<1> QED BY <1>11, Zenon DEF TellsTruth

\* What a description of a column is believed to be worth, whatever its kind.
LEMMA DeepTruth ==
  ASSUME ColumnsFit, DatasetsFit, NEW c \in Columns, NEW i \in Names,
         check_index(obj, i, col[c], fill[c], TRUE)
  PROVE  TellsTruth(i, c)
<1>1. IsDataset(obj[i]) /\ Named(obj, i)
  BY DEF DatasetsFit, Fits
<1>2. CASE obj[i].kind = "CHUNK_MINMAX"
  BY <1>1, <1>2, MinmaxTruth
<1>3. CASE obj[i].kind = "SORTED_ROWS"
  BY <1>1, <1>3, SortedTruth
<1>4. CASE obj[i].kind = "BITMAP"
  <2>1. validate_bitmap_structure(obj, obj[i], Len(col[c]))
    BY <1>4, Zenon DEF check_index
  <2>2. obj[i].values # NoName
    BY <2>1 DEF validate_bitmap_structure
  <2>3. obj[i].values = ValuesOf(i)
    BY <2>2, <1>1 DEF Named
  <2>4. ValuesOf(i) \in Names
    BY DEF ValuesOf, Names
  <2>5. IsDataset(obj[obj[i].values])
    BY <2>3, <2>4 DEF DatasetsFit, Fits
  <2> QED BY <1>1, <1>4, <2>5, BitmapTruth
<1>5. CASE obj[i].kind \notin Kinds
  <2>1. ~(obj[i].kind = "CHUNK_MINMAX") /\ ~(obj[i].kind = "SORTED_ROWS") /\ ~(obj[i].kind = "BITMAP")
    BY <1>5 DEF Kinds
  <2> QED BY <2>1, Zenon DEF TellsTruth
<1> QED BY <1>2, <1>3, <1>4, <1>5 DEF Kinds

\* DeepMeansRight is a consequence of the types alone: nothing is assumed of who
\* wrote the file.
LEMMA DeepEnough ==
  ASSUME ColumnsFit, DatasetsFit, LinksFit
  PROVE  DeepMeansRight
<1> SUFFICES ASSUME validate_search_indexes(TRUE), NEW c \in Columns, NEW i \in Linked(c),
                    index_is_valid(i)
             PROVE  TellsTruth(i, c)
  BY Zenon DEF DeepMeansRight
<1>1. Rule9(i, c, TRUE)
  BY Zenon DEF validate_search_indexes
<1>2. i \in Names
  BY DEF LinksFit, IsLinks, Linked
<1> QED BY <1>1, <1>2, DeepTruth DEF Rule9

-----------------------------------------------------------------------------
(* Rebuilding one index.                                                   *)

\* The fields of a dataset.
LEMMA BareFields ==
  DOMAIN Bare = {"kind", "data", "width", "limit", "dtype", "top", "sg", "sn", "fills", "nans",
                 "ordered", "exhaustive", "values"}
BY DEF Bare

\* A list is a list of its elements.
LEMMA ListOver ==
  ASSUME NEW S, NEW list \in Seq(S), NEW T, T = Range(list)
  PROVE  list \in Seq(T)
<1>1. list \in [1..Len(list) -> T] /\ Len(list) \in Nat
  BY DEF Range
<1> QED BY <1>1, FunctionIsSeq

\* The same, for their set.
LEMMA OwnElements ==
  ASSUME NEW S, NEW list \in Seq(S)
  PROVE  list \in Seq(Range(list))
BY ListOver

\* Entries written over those there are: they are the beginning of what is there now.
LEMMA EntriesWritten ==
  ASSUME NEW d, d.data \in Seq(Range(d.data)), NEW S, NEW data \in Seq(S)
  PROVE  LET w == write_entries(d, data)
         IN  /\ w \in Seq(Range(w)) /\ Len(w) \in Nat /\ Len(w) >= Len(data)
             /\ SubSeq(w, 1, Len(data)) = data /\ \A j \in 1..Len(data) : w[j] = data[j]
<1> DEFINE w == write_entries(d, data)
           T == S \cup Range(d.data)
           rest == SubSeq(d.data, Len(data) + 1, Len(d.data))
<1>1. data \in Seq(T) /\ Len(data) \in Nat /\ Len(d.data) \in Nat
  OBVIOUS
<1>2. rest \in Seq(T)
  <2>1. \A j \in (Len(data) + 1)..Len(d.data) : d.data[j] \in T
    BY <1>1
  <2> HIDE DEF T
  <2> QED BY <1>1, <2>1, SubSeqProperties
<1>3. w = data \o rest
  BY DEF write_entries
<1> HIDE DEF T, rest, w
<1>4. /\ w \in Seq(T) /\ Len(w) = Len(data) + Len(rest)
      /\ \A j \in 1..Len(data) : w[j] = data[j]
  BY <1>1, <1>2, <1>3, TwoLists
<1>5. Len(rest) \in Nat
  BY <1>2
<1>6. w \in Seq(Range(w)) /\ Len(w) \in Nat /\ Len(w) >= Len(data)
  BY <1>1, <1>4, <1>5, OwnElements
<1>7. SubSeq(w, 1, Len(data)) = data
  <2> DEFINE s == SubSeq(w, 1, Len(data))
  <2>1. s \in Seq(T) /\ Len(s) = Len(data) /\ \A j \in 1..Len(data) : s[j] = w[j]
    BY <1>1, <1>4, <1>6, Beginning
  <2> HIDE DEF s
  <2>2. s = data
    BY <2>1, <1>1, <1>4, SeqEqual
  <2> QED BY <2>2 DEF s
<1> QED BY <1>4, <1>6, <1>7 DEF w

\* What no rebuild changes of a dataset.
SameShape(e, d) == e.kind = d.kind /\ e.dtype = d.dtype /\ e.values = d.values /\ e.top = d.top

\* Index i rewritten with this content of n rows, under the token g.
Rewritten(o, i, content, n, g) ==
  [write_index_content(o, i, content) EXCEPT ![i].sg = g, ![i].sn = n]

\* Index i of p is what a rebuild for these rows under the token g makes of it.
IsRebuilt(p, o, i, rows, f, g) ==
  /\ IsDataset(p[i]) /\ SameShape(p[i], o[i])
  /\ p[i].sg = g /\ p[i].sn = Len(rows)
  /\ check_index(p, i, rows, f, TRUE)

\* A CHUNK_MINMAX that fits is rebuilt whole.
LEMMA RebuiltMinmax ==
  ASSUME NEW o, o = [m \in Names |-> o[m]], NEW i \in Names, IsDataset(o[i]),
         o[i].kind = "CHUNK_MINMAX",
         NEW rows \in Seq(Element), NEW f \in FillValue, NEW g \in Nat,
         NEW content, content = compute_index_content("CHUNK_MINMAX", rows, f),
         index_content_fits(o, i, Len(rows), content),
         NEW p, p = Rewritten(o, i, content, Len(rows), g)
  PROVE  /\ p = [m \in Names |-> p[m]] /\ \A m \in Names \ {i} : p[m] = o[m]
         /\ IsRebuilt(p, o, i, rows, f, g)
<1> DEFINE d == o[i]
           n == Len(rows)
           w == write_entries(d, content.data)
           e == p[i]
           count == data_chunk_count(n)
<1>1. d.dtype = "right"
  BY DEF index_content_fits
<1>2. write_index_content(o, i, content) = [o EXCEPT ![i].data = w]
  BY Zenon DEF write_index_content
<1>3. p = [[o EXCEPT ![i].data = w] EXCEPT ![i].sg = g, ![i].sn = n]
  BY <1>2 DEF Rewritten
<1>4. n \in Nat
  BY RowsTyped
<1>5. d = [x \in DOMAIN Bare |-> d[x]] /\ d.data \in Seq(Range(d.data))
  BY DEF IsDataset
<1> HIDE DEF n, w
<1>6. /\ p = [m \in Names |-> p[m]] /\ \A m \in Names \ {i} : p[m] = o[m]
      /\ e = [[d EXCEPT !.data = w] EXCEPT !.sg = g, !.sn = n]
  BY <1>3
<1>7. /\ count \in Nat /\ content.data \in Seq(Entries) /\ Len(content.data) = count
      /\ \A j \in 1..count : content.data[j].n = Cardinality(ChunkRows(j - 1, n))
  BY MinmaxContent DEF n
<1>8. /\ w \in Seq(Range(w)) /\ Len(w) \in Nat /\ Len(w) >= count
      /\ SubSeq(w, 1, count) = content.data /\ \A j \in 1..count : w[j] = content.data[j]
  <2> DEFINE data == content.data
  <2>1. data \in Seq(Entries) /\ w = write_entries(d, data) /\ d.data \in Seq(Range(d.data))
    BY <1>5, <1>7 DEF w
  <2> HIDE DEF data, d, count
  <2>2. /\ w \in Seq(Range(w)) /\ Len(w) \in Nat /\ Len(w) >= Len(data)
        /\ SubSeq(w, 1, Len(data)) = data /\ \A j \in 1..Len(data) : w[j] = data[j]
    BY <2>1, EntriesWritten, Zenon
  <2> QED BY <2>2, <1>7 DEF data
<1> HIDE DEF d, e, count
<1>9. /\ e = [x \in DOMAIN Bare |-> e[x]] /\ e.data = w /\ e.sg = g /\ e.sn = n
      /\ \A x \in DOMAIN Bare \ {"data", "sg", "sn"} : e[x] = d[x]
  BY <1>5, <1>6, BareFields
<1>10. /\ e.kind = d.kind /\ e.dtype = d.dtype /\ e.values = d.values /\ e.top = d.top
       /\ e.width = d.width /\ e.limit = d.limit
  BY <1>9, BareFields
<1>11. IsDataset(e)
  BY <1>4, <1>8, <1>9, <1>10 DEF IsDataset, d
<1>12. validate_minmax_structure(e, n)
  <2>1. ASSUME NEW j \in 1..count PROVE e.data[j] # Zero /\ e.data[j].n = Cardinality(ChunkRows(j - 1, n))
    <3>1. e.data[j] = content.data[j] /\ content.data[j] \in Entries
      BY <1>7, <1>8, <1>9
    <3>2. Zero \notin Entries
      BY IndexFileAssumption
    <3> QED BY <3>1, <3>2, <1>7
  <2>2. e.dtype \in {"right", "half"} /\ Len(e.data) >= count
    BY <1>1, <1>8, <1>9, <1>10 DEF d
  <2> QED BY <2>1, <2>2 DEF validate_minmax_structure, count
<1>13. check_index(p, i, rows, f, TRUE)
  <2>1. SubSeq(e.data, 1, data_chunk_count(Len(rows))) = compute_index_content("CHUNK_MINMAX", rows, f).data
    BY <1>8, <1>9 DEF count, n
  <2>2. e.kind = "CHUNK_MINMAX" /\ validate_minmax_structure(e, Len(rows))
    BY <1>10, <1>12 DEF d, n
  <2> QED BY <2>1, <2>2, Zenon DEF check_index, e
<1> QED BY <1>6, <1>9, <1>10, <1>11, <1>13 DEF IsRebuilt, SameShape, d, e, n

\* So is a SORTED_ROWS.
LEMMA RebuiltSorted ==
  ASSUME NEW o, o = [m \in Names |-> o[m]], NEW i \in Names, IsDataset(o[i]),
         o[i].kind = "SORTED_ROWS",
         NEW rows \in Seq(Element), NEW f \in FillValue, NEW g \in Nat,
         NEW content, content = compute_index_content("SORTED_ROWS", rows, f),
         index_content_fits(o, i, Len(rows), content),
         NEW p, p = Rewritten(o, i, content, Len(rows), g)
  PROVE  /\ p = [m \in Names |-> p[m]] /\ \A m \in Names \ {i} : p[m] = o[m]
         /\ IsRebuilt(p, o, i, rows, f, g)
<1> DEFINE d == o[i]
           n == Len(rows)
           w == write_entries(d, content.data)
           e == p[i]
<1>1. d.dtype = "right" /\ (n > 0 => d.top >= n - 1) /\ d.top \in Nat /\ n \in Nat
  BY RowsTyped DEF index_content_fits, IsDataset
<1>2. write_index_content(o, i, content) =
        [o EXCEPT ![i] = [d EXCEPT !.data = w, !.fills = content.fills, !.nans = content.nans,
                                   !.ordered = TRUE]]
  BY Zenon DEF write_index_content
<1>3. p = [[o EXCEPT ![i] = [d EXCEPT !.data = w, !.fills = content.fills, !.nans = content.nans,
                                      !.ordered = TRUE]] EXCEPT ![i].sg = g, ![i].sn = n]
  BY <1>2 DEF Rewritten
<1>4. d.top >= n - 1
  <2> HIDE DEF d, n
  <2> QED BY <1>1
<1>5. d = [x \in DOMAIN Bare |-> d[x]] /\ d.data \in Seq(Range(d.data))
  BY DEF IsDataset
<1> HIDE DEF n, w
<1>6. /\ p = [m \in Names |-> p[m]] /\ \A m \in Names \ {i} : p[m] = o[m]
      /\ e = [[d EXCEPT !.data = w, !.fills = content.fills, !.nans = content.nans,
                        !.ordered = TRUE] EXCEPT !.sg = g, !.sn = n]
  BY <1>3
<1>7. /\ content.data \in Seq(1..n) /\ Len(content.data) = n
      /\ {content.data[r] : r \in 1..n} = 1..n
      /\ content.fills \in Nat /\ content.nans \in Nat /\ content.fills + content.nans <= n
  <2> DEFINE sorted == compute_sorted_rows(rows, n, f)
  <2>1. content = [data |-> sorted.perm, fills |-> sorted.fills, nans |-> sorted.nans]
    BY SortedRowsContent DEF n
  <2>2. \A r \in 1..n : rows[r] \in Element
    BY RowsTyped DEF n
  <2>3. /\ sorted.perm \in Seq(1..n) /\ Len(sorted.perm) = n
        /\ {sorted.perm[r] : r \in 1..n} = 1..n
        /\ sorted.fills \in Nat /\ sorted.nans \in Nat /\ sorted.fills + sorted.nans <= n
    BY <1>1, <2>2, SortedWhole
  <2> HIDE DEF sorted
  <2>4. content.data = sorted.perm /\ content.fills = sorted.fills /\ content.nans = sorted.nans
    BY <2>1
  <2> QED BY <2>3, <2>4, Zenon
<1>8. /\ w \in Seq(Range(w)) /\ Len(w) \in Nat /\ Len(w) >= n
      /\ SubSeq(w, 1, n) = content.data /\ \A j \in 1..n : w[j] = content.data[j]
  <2> DEFINE S == 1..n
             data == content.data
  <2>1. data \in Seq(S) /\ w = write_entries(d, data) /\ d.data \in Seq(Range(d.data))
    BY <1>5, <1>7, Zenon DEF w
  <2> HIDE DEF S, data, d
  <2>2. /\ w \in Seq(Range(w)) /\ Len(w) \in Nat /\ Len(w) >= Len(data)
        /\ SubSeq(w, 1, Len(data)) = data /\ \A j \in 1..Len(data) : w[j] = data[j]
    BY <2>1, EntriesWritten, Zenon
  <2> QED BY <2>2, <1>7 DEF data
<1> HIDE DEF d, e
<1>9. /\ e = [x \in DOMAIN Bare |-> e[x]] /\ e.data = w /\ e.sg = g /\ e.sn = n
      /\ e.fills = content.fills /\ e.nans = content.nans /\ e.ordered = TRUE
      /\ \A x \in DOMAIN Bare \ {"data", "sg", "sn", "fills", "nans", "ordered"} : e[x] = d[x]
  BY <1>5, <1>6, BareFields
<1>10. /\ e.kind = d.kind /\ e.dtype = d.dtype /\ e.values = d.values /\ e.top = d.top
       /\ e.width = d.width /\ e.limit = d.limit
  BY <1>9, BareFields
<1>11. IsDataset(e)
  BY <1>1, <1>8, <1>9, <1>10 DEF IsDataset, d
<1>12. validate_sorted_rows_structure(e, n)
  <2>1. e.dtype = "right" /\ e.top >= n - 1 /\ Len(e.data) >= n /\ e.ordered = TRUE
    BY <1>1, <1>4, <1>8, <1>9, <1>10
  <2>2. None \notin {e.fills, e.nans} /\ e.fills + e.nans <= n
    BY <1>7, <1>9, IndexFileAssumption
  <2>3. {e.data[r] : r \in 1..n} = 1..n
    <3>1. \A r \in 1..n : e.data[r] = content.data[r]
      BY <1>8, <1>9, Zenon
    <3>2. {e.data[r] : r \in 1..n} = {content.data[r] : r \in 1..n}
      BY <3>1, Zenon
    <3> QED BY <3>2, <1>7, Zenon
  <2> QED BY <2>1, <2>2, <2>3 DEF validate_sorted_rows_structure
<1>13. check_index(p, i, rows, f, TRUE)
  <2>1. /\ SubSeq(e.data, 1, Len(rows)) = compute_index_content("SORTED_ROWS", rows, f).data
        /\ e.fills = compute_index_content("SORTED_ROWS", rows, f).fills
        /\ e.nans = compute_index_content("SORTED_ROWS", rows, f).nans
    BY <1>8, <1>9 DEF n
  <2>2. e.kind = "SORTED_ROWS" /\ validate_sorted_rows_structure(e, Len(rows))
    BY <1>10, <1>12 DEF d, n
  <2> QED BY <2>1, <2>2, Zenon DEF check_index, e
<1> QED BY <1>6, <1>9, <1>10, <1>11, <1>13 DEF IsRebuilt, SameShape, d, e, n

\* What deep_check_bitmap asks of a bitmap, its own content fulfils.
LEMMA BitmapPasses ==
  ASSUME NEW rows \in Seq(Element), NEW f \in FillValue,
         NEW content, content = compute_index_content("BITMAP", rows, f),
         NEW e, e.data = content.data, e.exhaustive = content.exhaustive
  PROVE  /\ deep_check_bitmap(e, content.enum, rows, f)
         /\ Len(rows) % Bits # 0 =>
              \A k \in DOMAIN e.data :
                e.data[k] \cap (Len(rows) + 1)..(Bits * bitmap_bytes(Len(rows))) = {}
<1> DEFINE n == Len(rows)
           bits == Bits * bitmap_bytes(n)
           enum == content.enum
           present == {rows[r] : r \in {r \in DOMAIN rows : ~is_missing(rows[r], f)}}
           values == {rows[r] : r \in {r \in 1..n : Orderable(rows[r], f)}}
           data == content.data
<1>1. n \in Nat /\ DOMAIN rows = 1..n /\ \A r \in 1..n : rows[r] \in Element
  BY RowsTyped
<1>2. bitmap_bytes(n) \in Nat /\ n <= bits
  BY <1>1, Bytes
<1>3. bits \in Nat
  <2>1. Bits \in Nat
    BY IndexFileAssumption
  <2> QED BY <2>1, <1>2
<1>4. /\ enum \in Seq(Int) /\ data \in Seq(SUBSET (1..n)) /\ Len(data) = Len(enum)
      /\ \A k \in 1..Len(enum) : data[k] = Bitset(rows, enum[k])
      /\ {enum[k] : k \in 1..Len(enum)} = values
      /\ content.exhaustive = (\A r \in 1..n : rows[r] = NaN => is_missing(NaN, f))
  <2>1. /\ enum \in Seq(Int) /\ data \in Seq(SUBSET (1..n)) /\ Len(data) = Len(enum)
        /\ \A k \in 1..Len(enum) : data[k] = Bitset(rows, enum[k])
    BY BitmapContent
  <2>2. {enum[k] : k \in 1..Len(enum)} = values
    <3>1. Range(enum) = Present(rows, f)
      BY BitmapContent
    <3>2. DOMAIN enum = 1..Len(enum)
      BY <2>1
    <3> HIDE DEF enum
    <3> QED BY <3>1, <3>2 DEF Range, Present
  <2>3. content.exhaustive = (\A r \in 1..n : rows[r] = NaN => is_missing(NaN, f))
    BY BitmapContent
  <2> QED BY <2>1, <2>2, <2>3
<1> HIDE DEF n, bits, enum, data
<1>5. DOMAIN enum = 1..Len(enum) /\ DOMAIN data = 1..Len(enum)
  BY <1>4
<1>6. \A x : Bitset(rows, x) \subseteq 1..n
  BY <1>1 DEF Bitset
<1>7. ASSUME NEW k \in DOMAIN enum PROVE data[k] \cap 1..bits = Bitset(rows, enum[k])
  <2>1. data[k] = Bitset(rows, enum[k])
    BY <1>4, <1>5
  <2>2. 1..n \subseteq 1..bits
    BY <1>1, <1>2, <1>3
  <2> QED BY <2>1, <2>2, <1>6
<1>8. content.exhaustive = TRUE => NaN \notin present /\ present \subseteq {enum[k] : k \in DOMAIN enum}
  <2> SUFFICES ASSUME content.exhaustive = TRUE, NEW r \in 1..n, ~is_missing(rows[r], f)
               PROVE  rows[r] # NaN /\ rows[r] \in {enum[k] : k \in DOMAIN enum}
    BY <1>1
  <2>1. rows[r] # NaN
    BY <1>4
  <2>2. Orderable(rows[r], f)
    BY <2>1 DEF Orderable
  <2>3. rows[r] \in values
    BY <2>2
  <2> HIDE DEF values
  <2> QED BY <2>1, <2>3, <1>4, <1>5
<1>9. ASSUME NEW k \in DOMAIN data PROVE data[k] \cap (n + 1)..bits = {}
  <2>1. data[k] \subseteq 1..n
    BY <1>4, <1>5, <1>6
  <2> QED BY <2>1, <1>1, <1>3
<1> HIDE DEF present
<1>10. deep_check_bitmap(e, enum, rows, f)
  BY <1>7, <1>8 DEF deep_check_bitmap, bits, data, present, n
<1> QED BY <1>9, <1>10 DEF enum, bits, data, n

\* A BITMAP is rebuilt with the values it refers to.
LEMMA RebuiltBitmap ==
  ASSUME NEW o, o = [m \in Names |-> o[m]], \A m \in Names : IsDataset(o[m]) /\ Named(o, m),
         NEW i \in Names, o[i].kind = "BITMAP",
         NEW rows \in Seq(Element), NEW f \in FillValue, NEW g \in Nat,
         NEW content, content = compute_index_content("BITMAP", rows, f),
         index_content_fits(o, i, Len(rows), content),
         NEW p, p = Rewritten(o, i, content, Len(rows), g)
  PROVE  LET v == ValuesOf(i) IN
         /\ p = [m \in Names |-> p[m]] /\ \A m \in Names \ {i, v} : p[m] = o[m]
         /\ v # i /\ IsDataset(p[v]) /\ SameShape(p[v], o[v]) /\ o[v].dtype = "right"
         /\ p[v].sg = o[v].sg /\ p[v].sn = o[v].sn
         /\ IsRebuilt(p, o, i, rows, f, g)
<1> DEFINE d == o[i]
           n == Len(rows)
           v == ValuesOf(i)
           e == p[i]
           u == p[v]
           data == content.data
           enum == content.enum
           width == content.width
           all == content.exhaustive
<1>1. /\ v \in Names /\ v # i /\ d.values = v /\ bitmap_values_dataset(o, i) = v
      /\ o[v].dtype = "right" /\ o[v].kind = None /\ d.dtype = "right"
  <2>1. bitmap_values_dataset(o, i) # NoName /\ d.dtype = "right"
        /\ o[bitmap_values_dataset(o, i)].dtype = "right"
    <3>1. index_content_fits(o, i, n, content) /\ o[i].kind = "BITMAP"
      OBVIOUS
    <3> HIDE DEF n, d
    <3> QED BY <3>1, Zenon DEF index_content_fits, d
  <2>2. bitmap_values_dataset(o, i) = d.values /\ d.values # NoName /\ o[d.values].kind = None
    BY <2>1, Zenon DEF bitmap_values_dataset
  <2>3. d.values = v
    BY <2>2 DEF Named
  <2>4. v \in Names
    BY DEF ValuesOf, Names
  <2>5. None # "BITMAP"
    BY IndexFileAssumption DEF SEARCH_INDEX_KINDS, Kinds
  <2> QED BY <2>1, <2>2, <2>3, <2>4, <2>5
<1>2. n \in Nat
  BY RowsTyped
<1>3. /\ d = [x \in DOMAIN Bare |-> d[x]] /\ o[v] = [x \in DOMAIN Bare |-> o[v][x]]
      /\ IsDataset(d) /\ IsDataset(o[v])
  BY <1>1 DEF IsDataset
<1>4. /\ enum \in Seq(Int) /\ data \in Seq(SUBSET (1..n)) /\ Len(data) = Len(enum)
      /\ width = bitmap_bytes(n)
  BY BitmapContent
<1>5. bitmap_bytes(n) \in Nat
  BY <1>2, Bytes
<1>6. enum \in Seq(Range(enum)) /\ data \in Seq(Range(data))
  <2> DEFINE S == SUBSET (1..n)
  <2>1. data \in Seq(S) /\ enum \in Seq(Int)
    BY <1>4
  <2> HIDE DEF S, data, enum
  <2> QED BY <2>1, OwnElements
<1>7. write_index_content(o, i, content) =
        [o EXCEPT ![v].data = enum,
                  ![i] = [d EXCEPT !.data = data, !.width = width, !.ordered = TRUE,
                                   !.exhaustive = all]]
  <2>1. o[i].kind = "BITMAP" /\ bitmap_values_dataset(o, i) = v
    BY <1>1
  <2> HIDE DEF v
  <2> QED BY <2>1, Zenon DEF write_index_content
<1>8. p = [[o EXCEPT ![v].data = enum,
                     ![i] = [d EXCEPT !.data = data, !.width = width, !.ordered = TRUE,
                                      !.exhaustive = all]]
             EXCEPT ![i].sg = g, ![i].sn = n]
  BY <1>7 DEF Rewritten
<1> HIDE DEF n, v, data, enum, width, all
<1>9. /\ p = [m \in Names |-> p[m]] /\ \A m \in Names \ {i, v} : p[m] = o[m]
      /\ u = [o[v] EXCEPT !.data = enum]
      /\ e = [[d EXCEPT !.data = data, !.width = width, !.ordered = TRUE, !.exhaustive = all]
                EXCEPT !.sg = g, !.sn = n]
  BY <1>1, <1>8
<1> DEFINE ov == o[v]
<1> HIDE DEF d, e, u, ov
<1>10. /\ e = [x \in DOMAIN Bare |-> e[x]] /\ e.data = data /\ e.sg = g /\ e.sn = n
       /\ e.width = width /\ e.ordered = TRUE /\ e.exhaustive = all
       /\ e.kind = d.kind /\ e.dtype = d.dtype /\ e.values = d.values /\ e.top = d.top
       /\ e.limit = d.limit
  BY <1>3, <1>9, BareFields
<1>11. /\ u = [x \in DOMAIN Bare |-> u[x]] /\ u.data = enum
       /\ u.kind = ov.kind /\ u.dtype = ov.dtype /\ u.values = ov.values /\ u.top = ov.top
       /\ u.limit = ov.limit /\ u.width = ov.width /\ u.sg = ov.sg /\ u.sn = ov.sn
  BY <1>3, <1>9, BareFields DEF ov
<1>12. IsDataset(e)
  BY <1>2, <1>3, <1>4, <1>5, <1>6, <1>10 DEF IsDataset
<1>13. IsDataset(u)
  BY <1>3, <1>6, <1>11 DEF IsDataset, ov
<1>14. validate_bitmap_structure(p, e, n) /\ deep_check_bitmap(e, p[e.values].data, rows, f)
  <2>1. e.values = v /\ p[e.values] = u /\ e.values # NoName
    <3>1. NoName \notin Names
      BY IndexFileAssumption
    <3> QED BY <3>1, <1>1, <1>10 DEF u, d
  <2>2. u.dtype = "right" /\ u.kind = None /\ e.dtype = "right"
    BY <1>1, <1>10, <1>11 DEF d, ov
  <2>3. Len(e.data) = Len(u.data) /\ e.width >= bitmap_bytes(n)
    BY <1>4, <1>5, <1>10, <1>11
  <2>4. /\ deep_check_bitmap(e, enum, rows, f)
        /\ n % Bits # 0 =>
             \A k \in DOMAIN e.data : e.data[k] \cap (n + 1)..(Bits * bitmap_bytes(n)) = {}
    BY <1>10, BitmapPasses DEF n, enum, data, all
  <2> QED BY <2>1, <2>2, <2>3, <2>4, <1>11, Zenon DEF validate_bitmap_structure
<1>15. check_index(p, i, rows, f, TRUE)
  <2>1. e.kind = "BITMAP" /\ validate_bitmap_structure(p, e, Len(rows))
    BY <1>10, <1>14 DEF d, n
  <2> QED BY <2>1, <1>14, Zenon DEF check_index, e
<1>16. IsRebuilt(p, o, i, rows, f, g)
  BY <1>10, <1>12, <1>15 DEF IsRebuilt, SameShape, d, e, n
<1>17. v # i /\ IsDataset(p[v]) /\ SameShape(p[v], o[v]) /\ p[v].sg = o[v].sg /\ p[v].sn = o[v].sn
  BY <1>1, <1>11, <1>13 DEF SameShape, u, ov
<1> QED BY <1>1, <1>9, <1>16, <1>17 DEF v

\* The index m is what it was, with the values it may refer to.
Same(p, o, m) ==
  p[m] = o[m] /\ (m[2] = "BITMAP" => p[ValuesOf(m)] = o[ValuesOf(m)])

\* An index is in a column and has a kind.
LEMMA IndexNames ==
  ASSUME NEW m \in Columns \X Kinds
  PROVE  /\ m \in Names /\ m[1] \in Columns /\ m[2] \in Kinds /\ m = <<m[1], m[2]>>
         /\ ValuesOf(m) \in Names /\ ValuesOf(m) \notin Columns \X Kinds /\ ValuesOf(m) # m
         /\ \A j \in Columns \X Kinds : j # m /\ j[2] = m[2] => ValuesOf(j) # ValuesOf(m)
BY DEF ValuesOf, Names, Kinds

\* What an index is worth depends on itself and its values only.
LEMMA SameCheck ==
  ASSUME NEW o, Fits(o), NEW m \in Columns \X Kinds, NEW p, Same(p, o, m),
         NEW rows, NEW f, check_index(o, m, rows, f, TRUE)
  PROVE  check_index(p, m, rows, f, TRUE)
<1>1. p[m] = o[m] /\ m \in Names /\ Named(o, m)
  BY IndexNames DEF Same, Fits
<1>2. CASE o[m].kind = "CHUNK_MINMAX"
  <2>1. /\ validate_minmax_structure(o[m], Len(rows))
        /\ SubSeq(o[m].data, 1, data_chunk_count(Len(rows)))
             = compute_index_content("CHUNK_MINMAX", rows, f).data
    BY <1>2, Zenon DEF check_index
  <2> QED BY <2>1, <1>1, <1>2, Zenon DEF check_index
<1>3. CASE o[m].kind = "SORTED_ROWS"
  <2>1. /\ validate_sorted_rows_structure(o[m], Len(rows))
        /\ SubSeq(o[m].data, 1, Len(rows)) = compute_index_content("SORTED_ROWS", rows, f).data
        /\ o[m].fills = compute_index_content("SORTED_ROWS", rows, f).fills
        /\ o[m].nans = compute_index_content("SORTED_ROWS", rows, f).nans
    BY <1>3, Zenon DEF check_index
  <2> QED BY <2>1, <1>1, <1>3, Zenon DEF check_index
<1>4. CASE o[m].kind = "BITMAP"
  <2>1. /\ validate_bitmap_structure(o, o[m], Len(rows))
        /\ deep_check_bitmap(o[m], o[o[m].values].data, rows, f)
    BY <1>4, Zenon DEF check_index
  <2>2. o[m].values # NoName
    BY <2>1 DEF validate_bitmap_structure
  <2>3. o[m].values = ValuesOf(m) /\ m[2] = "BITMAP"
    BY <2>2, <1>1, <1>4 DEF Named, Kinds
  <2>4. p[o[m].values] = o[o[m].values]
    BY <2>3 DEF Same
  <2>5. validate_bitmap_structure(p, p[m], Len(rows))
    BY <2>1, <2>4, <1>1, Zenon DEF validate_bitmap_structure
  <2> QED BY <2>1, <2>4, <2>5, <1>1, <1>4, Zenon DEF check_index
<1>5. CASE o[m].kind \notin Kinds
  <2>1. ~(p[m].kind = "CHUNK_MINMAX") /\ ~(p[m].kind = "SORTED_ROWS") /\ ~(p[m].kind = "BITMAP")
    BY <1>1, <1>5 DEF Kinds
  <2> QED BY <2>1, Zenon DEF check_index
<1> QED BY <1>2, <1>3, <1>4, <1>5 DEF Kinds

\* A rebuild leaves an index as it is or makes it right; it changes no other
\* index, and no token but its own.
LEMMA RefreshOne ==
  ASSUME NEW o, Fits(o), NEW i \in Names, NEW rows \in Seq(Element), NEW f \in FillValue,
         NEW g \in Nat, NEW p, p = refresh_one(o, i, rows, f, g)
  PROVE  /\ Fits(p) /\ \A m \in Names : SameShape(p[m], o[m])
         /\ \A m \in Names \ {i} : p[m].sg = o[m].sg /\ p[m].sn = o[m].sn
         /\ \A m \in Columns \X Kinds : m # i => Same(p, o, m)
         /\ \A m \in Names : p[m] = o[m] \/ o[m].dtype = "right"
         /\ p = o \/ (i \in Columns \X Kinds /\ IsRebuilt(p, o, i, rows, f, g))
<1> DEFINE content == compute_index_content(o[i].kind, rows, f)
           v == ValuesOf(i)
<1>1. o = [m \in Names |-> o[m]] /\ \A m \in Names : IsDataset(o[m]) /\ Named(o, m)
  BY DEF Fits
<1>2. CASE p = o
  BY <1>1, <1>2 DEF Fits, SameShape, Same
<1>3. CASE p # o
  <2>1. /\ o[i].kind \in Kinds /\ index_content_fits(o, i, Len(rows), content)
        /\ p = Rewritten(o, i, content, Len(rows), g)
    <3>1. ~(o[i].kind \notin Kinds) /\ ~(~index_content_fits(o, i, Len(rows), content))
      BY <1>3, Zenon DEF refresh_one
    <3>2. p = Rewritten(o, i, content, Len(rows), g)
      BY <3>1, Zenon DEF refresh_one, Rewritten
    <3> QED BY <3>1, <3>2
  <2>2. i[2] = o[i].kind /\ i \in Columns \X Kinds
    <3>1. i[2] = o[i].kind
      BY <1>1, <2>1 DEF Named
    <3> QED BY <3>1, <2>1 DEF Names
  <2>3. /\ p = [m \in Names |-> p[m]] /\ \A m \in Names \ {i, v} : p[m] = o[m]
        /\ o[i].kind # "BITMAP" => \A m \in Names \ {i} : p[m] = o[m]
        /\ IsDataset(p[v]) /\ SameShape(p[v], o[v])
        /\ p[v].sg = o[v].sg /\ p[v].sn = o[v].sn
        /\ o[i].kind = "BITMAP" => o[v].dtype = "right"
        /\ IsRebuilt(p, o, i, rows, f, g)
    <3>1. v \in Names /\ v # i
      BY <2>2, IndexNames
    <3>2. IsDataset(o[v]) /\ SameShape(o[v], o[v])
      BY <1>1, <3>1 DEF SameShape
    <3>3. CASE o[i].kind = "CHUNK_MINMAX"
      <4>1. /\ p = [m \in Names |-> p[m]] /\ \A m \in Names \ {i} : p[m] = o[m]
            /\ IsRebuilt(p, o, i, rows, f, g)
        BY <3>3, <1>1, <2>1, RebuiltMinmax
      <4> QED BY <4>1, <3>1, <3>2, <3>3
    <3>4. CASE o[i].kind = "SORTED_ROWS"
      <4>1. /\ p = [m \in Names |-> p[m]] /\ \A m \in Names \ {i} : p[m] = o[m]
            /\ IsRebuilt(p, o, i, rows, f, g)
        BY <3>4, <1>1, <2>1, RebuiltSorted
      <4> QED BY <4>1, <3>1, <3>2, <3>4
    <3>5. CASE o[i].kind = "BITMAP"
      <4> DEFINE k == content
      <4>1. /\ k = compute_index_content("BITMAP", rows, f)
            /\ index_content_fits(o, i, Len(rows), k)
            /\ p = Rewritten(o, i, k, Len(rows), g)
        BY <3>5, <2>1
      <4> HIDE DEF k
      <4>2. /\ p = [m \in Names |-> p[m]] /\ \A m \in Names \ {i, v} : p[m] = o[m]
            /\ v # i /\ IsDataset(p[v]) /\ SameShape(p[v], o[v]) /\ o[v].dtype = "right"
            /\ p[v].sg = o[v].sg /\ p[v].sn = o[v].sn
            /\ IsRebuilt(p, o, i, rows, f, g)
        BY <3>5, <1>1, <4>1, RebuiltBitmap
      <4> QED BY <4>2, <3>5
    <3> QED BY <3>3, <3>4, <3>5, <2>1 DEF Kinds
  <2>4. IsDataset(p[i]) /\ SameShape(p[i], o[i])
    BY <2>3 DEF IsRebuilt
  <2>5. \A m \in Names : IsDataset(p[m]) /\ SameShape(p[m], o[m])
    <3> SUFFICES ASSUME NEW m \in Names PROVE IsDataset(p[m]) /\ SameShape(p[m], o[m])
      OBVIOUS
    <3>1. CASE m \in {i, v}
      BY <3>1, <2>3, <2>4
    <3>2. CASE m \notin {i, v}
      BY <3>2, <1>1, <2>3 DEF SameShape
    <3> QED BY <3>1, <3>2
  <2>6. \A m \in Names : Named(p, m)
    BY <1>1, <2>5 DEF Named, SameShape
  <2>7. \A m \in Names \ {i} : p[m].sg = o[m].sg /\ p[m].sn = o[m].sn
    <3> SUFFICES ASSUME NEW m \in Names, m # i PROVE p[m].sg = o[m].sg /\ p[m].sn = o[m].sn
      OBVIOUS
    <3>1. m = v \/ p[m] = o[m]
      BY <2>3
    <3> QED BY <3>1, <2>3
  <2>8. ASSUME NEW m \in Columns \X Kinds, m # i PROVE Same(p, o, m)
    <3>1. m \in Names /\ v \notin Columns \X Kinds
      BY <2>2, IndexNames
    <3>2. p[m] = o[m]
      BY <3>1, <2>3, <2>8
    <3>3. ASSUME m[2] = "BITMAP" PROVE p[ValuesOf(m)] = o[ValuesOf(m)]
      <4>1. ValuesOf(m) \in Names /\ ValuesOf(m) # i
        BY <2>2, IndexNames
      <4>2. CASE o[i].kind = "BITMAP"
        <5>1. ValuesOf(m) # v
          BY <4>2, <2>2, <2>8, <3>3, IndexNames
        <5> QED BY <5>1, <4>1, <2>3
      <4>3. CASE o[i].kind # "BITMAP"
        BY <4>1, <4>3, <2>3
      <4> QED BY <4>2, <4>3
    <3> QED BY <3>2, <3>3 DEF Same
  <2>9. o[i].dtype = "right"
    BY <2>1, Zenon DEF index_content_fits
  <2>10. \A m \in Names : p[m] = o[m] \/ o[m].dtype = "right"
    BY <2>3, <2>9
  <2> QED BY <2>2, <2>3, <2>5, <2>6, <2>7, <2>8, <2>10 DEF Fits
<1> QED BY <1>2, <1>3

-----------------------------------------------------------------------------
(* Rebuilding many.                                                        *)

\* The datasets after some of them were rebuilt for these rows: an index is what
\* it was, or bears the new token and describes its column.
Tended(q, rows, g) ==
  /\ Fits(q) /\ \A m \in Names : SameShape(q[m], obj[m])
  /\ \A m \in Names : obj[m].dtype = "absent" => q[m] = obj[m]
  /\ \A m \in Names \ (Columns \X Kinds) : q[m].sg = obj[m].sg /\ q[m].sn = obj[m].sn
  /\ \A m \in Columns \X Kinds :
       \/ Same(q, obj, m)
       \/ /\ q[m].sg = g /\ q[m].sn = Len(rows[m[1]])
          /\ check_index(q, m, rows[m[1]], fill[m[1]], TRUE)

\* An index that one column claims is claimed by the column in its name.
LEMMA OneClaimant ==
  ASSUME LinksFit, NEW i, Cardinality(Claimants(i)) = 1
  PROVE  (CHOOSE c \in Claimants(i) : TRUE) = i[1] /\ i[1] \in Columns
<1>1. Claimants(i) # {}
  <2>1. Cardinality({}) = 0
    BY FS_EmptySet
  <2> QED BY <2>1
<1>2. \A c \in Claimants(i) : c = i[1] /\ c \in Columns
  BY DEF Claimants, Linked, LinksFit, IsLinks
<1> QED BY <1>1, <1>2

\* One step of the loop.
LEMMA TendedOne ==
  ASSUME LinksFit, NEW rows, \A c \in Columns : rows[c] \in Seq(Element) /\ fill[c] \in FillValue,
         NEW g \in Nat, NEW all, NEW q, Tended(q, rows, g), NEW i \in Names,
         NEW p, p = RebuiltOne(q, i, rows, g, all)
  PROVE  Tended(p, rows, g)
<1>1. CASE p = q
  BY <1>1
<1>2. CASE p # q
  <2> DEFINE c == CHOOSE c \in Claimants(i) : TRUE
  <2>1. Cardinality(Claimants(i)) = 1 /\ p = refresh_one(q, i, rows[c], fill[c], g)
    BY <1>2, Zenon DEF RebuiltOne
  <2>2. c = i[1] /\ i[1] \in Columns
    BY <2>1, OneClaimant
  <2> HIDE DEF c
  <2> DEFINE r == rows[i[1]]
             f == fill[i[1]]
  <2>3. r \in Seq(Element) /\ f \in FillValue /\ Fits(q) /\ p = refresh_one(q, i, r, f, g)
    BY <2>1, <2>2 DEF Tended
  <2> HIDE DEF r, f
  <2>4. /\ Fits(p) /\ \A m \in Names : SameShape(p[m], q[m])
        /\ \A m \in Names \ {i} : p[m].sg = q[m].sg /\ p[m].sn = q[m].sn
        /\ \A m \in Columns \X Kinds : m # i => Same(p, q, m)
        /\ \A m \in Names : p[m] = q[m] \/ q[m].dtype = "right"
        /\ p = q \/ (i \in Columns \X Kinds /\ IsRebuilt(p, q, i, r, f, g))
    BY <2>3, RefreshOne
  <2>5. i \in Columns \X Kinds /\ IsRebuilt(p, q, i, r, f, g)
    BY <2>4, <1>2
  <2>6. \A m \in Names : SameShape(p[m], obj[m])
    BY <2>4 DEF Tended, SameShape
  <2>7. \A m \in Names \ (Columns \X Kinds) : p[m].sg = obj[m].sg /\ p[m].sn = obj[m].sn
    BY <2>4, <2>5 DEF Tended
  <2>8. ASSUME NEW m \in Columns \X Kinds
        PROVE  \/ Same(p, obj, m)
               \/ /\ p[m].sg = g /\ p[m].sn = Len(rows[m[1]])
                  /\ check_index(p, m, rows[m[1]], fill[m[1]], TRUE)
    <3>1. CASE m = i
      BY <3>1, <2>5 DEF IsRebuilt, r, f
    <3>2. CASE m # i
      <4>1. Same(p, q, m)
        BY <2>4, <3>2
      <4>2. CASE Same(q, obj, m)
        BY <4>1, <4>2 DEF Same
      <4>3. CASE /\ q[m].sg = g /\ q[m].sn = Len(rows[m[1]])
                 /\ check_index(q, m, rows[m[1]], fill[m[1]], TRUE)
        <5>1. check_index(p, m, rows[m[1]], fill[m[1]], TRUE)
          BY <4>1, <4>3, <2>3, SameCheck
        <5> QED BY <5>1, <4>1, <4>3 DEF Same
      <4> QED BY <4>2, <4>3 DEF Tended
    <3> QED BY <3>1, <3>2
  <2>9. \A m \in Names : obj[m].dtype = "absent" => p[m] = obj[m]
    BY <2>4 DEF Tended, SameShape
  <2> QED BY <2>4, <2>6, <2>7, <2>8, <2>9 DEF Tended
<1> QED BY <1>1, <1>2

\* A set of names can be listed.
LEMMA NamesListed ==
  ASSUME NEW indexes, indexes \subseteq Names
  PROVE  /\ Len(SetToSeq(indexes)) \in Nat
         /\ \A k \in 1..Len(SetToSeq(indexes)) : SetToSeq(indexes)[k] \in Names
<1> DEFINE S == indexes
           size == Cardinality(S)
           list == SetToSeq(S)
<1>1. IsFiniteSet(S)
  <2>1. IsFiniteSet(Columns)
    BY IndexFileAssumption
  <2>2. IsFiniteSet(Kinds \cup {"values"})
    <3>1. Kinds \cup {"values"} = {"CHUNK_MINMAX", "SORTED_ROWS", "BITMAP", "values"}
      BY DEF Kinds
    <3>2. IsFiniteSet({}) /\ \A T, x : IsFiniteSet(T) => IsFiniteSet(T \cup {x})
      BY FS_EmptySet, FS_AddElement
    <3>3. IsFiniteSet({} \cup {"CHUNK_MINMAX"} \cup {"SORTED_ROWS"} \cup {"BITMAP"} \cup {"values"})
      BY <3>2, Zenon
    <3>4. {} \cup {"CHUNK_MINMAX"} \cup {"SORTED_ROWS"} \cup {"BITMAP"} \cup {"values"}
            = Kinds \cup {"values"}
      BY <3>1
    <3> QED BY <3>3, <3>4
  <2>3. IsFiniteSet(Names)
    BY <2>1, <2>2, FS_Product DEF Names
  <2> QED BY <2>3, FS_Subset
<1>2. size \in Nat /\ ExistsBijection(1..size, S)
  BY <1>1, FS_CardinalityType
<1>3. \E f \in [1..size -> S] : IsInjective(f)
  BY <1>2 DEF ExistsBijection, Bijection, Injection, Surjection, IsInjective
<1>4. list \in [1..size -> S]
  BY <1>3 DEF SetToSeq
<1> HIDE DEF size, list
<1>5. Len(list) = size
  BY <1>2, <1>4, FunctionIsSeq
<1>6. Len(list) \in Nat /\ \A k \in 1..Len(list) : list[k] \in Names
  BY <1>2, <1>4, <1>5
<1> QED BY <1>6 DEF list

\* The whole loop.
LEMMA RebuiltTends ==
  ASSUME LinksFit, Fits(obj), NEW rows,
         \A c \in Columns : rows[c] \in Seq(Element) /\ fill[c] \in FillValue,
         NEW g \in Nat, NEW all, NEW indexes, indexes \subseteq Names
  PROVE  Tended(Rebuilt(indexes, rows, g, all), rows, g)
<1> DEFINE list == SetToSeq(indexes)
           N == Len(list)
           Step(o, k) == RebuiltOne(o, list[k], rows, g, all)
           Around(f, k) == IF k = 0 THEN obj ELSE Step(f[k - 1], k)
           after[k \in 0..N] == Around(after, k)
<1>1. N \in Nat /\ \A k \in 1..N : list[k] \in Names
  BY NamesListed
<1>2. \A o : \A k \in 1..N : Tended(o, rows, g) => Tended(Step(o, k), rows, g)
  BY <1>1, TendedOne
<1>3. Tended(obj, rows, g)
  BY DEF Tended, Same, SameShape
<1>4. Rebuilt(indexes, rows, g, all) = after[N]
  BY DEF Rebuilt
<1> HIDE DEF list, N, Step
<1>5. \E f : f = [k \in 0..N |-> Around(f, k)]
  <2> DEFINE M == {n \in Nat : \E f : f = [k \in 0..n |-> Around(f, k)]}
  <2>1. 0 \in M
    <3> DEFINE f == [k \in 0..0 |-> obj]
    <3>1. f = [k \in 0..0 |-> Around(f, k)]
      OBVIOUS
    <3> QED BY <3>1
  <2>2. ASSUME NEW n \in Nat, n \in M PROVE n + 1 \in M
    <3>1. PICK f : f = [k \in 0..n |-> Around(f, k)]
      BY <2>2
    <3> DEFINE h == [k \in 0..(n + 1) |-> IF k <= n THEN f[k] ELSE Step(f[n], n + 1)]
    <3>2. \A k \in 0..n : h[k] = f[k] /\ f[k] = Around(f, k)
      BY <3>1
    <3>3. ASSUME NEW k \in 0..(n + 1) PROVE h[k] = Around(h, k)
      <4>1. CASE k = 0
        <5>1. k \in 0..n
          BY <4>1
        <5>2. h[k] = Around(f, k)
          BY <5>1, <3>2
        <5> HIDE DEF h
        <5> QED BY <5>2, <4>1
      <4>2. CASE k \in 1..n
        <5>1. k - 1 \in 0..n /\ k \in 0..n
          BY <4>2
        <5>2. h[k - 1] = f[k - 1] /\ h[k] = Around(f, k)
          BY <5>1, <3>2
        <5> HIDE DEF h
        <5> QED BY <5>2, <4>2
      <4>3. CASE k = n + 1
        <5>1. h[k] = Step(f[n], k) /\ h[k - 1] = f[n] /\ k # 0
          BY <4>3
        <5> HIDE DEF h
        <5> QED BY <5>1
      <4> QED BY <4>1, <4>2, <4>3
    <3>4. h = [k \in 0..(n + 1) |-> h[k]]
      OBVIOUS
    <3> HIDE DEF h, Around
    <3>5. h = [k \in 0..(n + 1) |-> Around(h, k)]
      BY <3>3, <3>4
    <3> QED BY <3>5
  <2> HIDE DEF M
  <2>3. N \in M
    BY <1>1, <2>1, <2>2, NatSetInduction
  <2> QED BY <2>3 DEF M
<1>6. after = [k \in 0..N |-> Around(after, k)]
  <2> HIDE DEF Around
  <2> QED BY <1>5
<1> HIDE DEF after
<1> DEFINE T == {n \in Nat : n <= N => Tended(after[n], rows, g)}
<1>7. 0 \in T
  <2>1. after[0] = obj
    BY <1>1, <1>6
  <2> QED BY <2>1, <1>3
<1>8. ASSUME NEW n \in Nat, n \in T PROVE n + 1 \in T
  <2> SUFFICES ASSUME n + 1 <= N PROVE Tended(after[n + 1], rows, g)
    OBVIOUS
  <2>1. n <= N /\ n + 1 \in 1..N /\ n + 1 \in 0..N /\ (n + 1) - 1 = n /\ n + 1 # 0
    BY <1>1
  <2>2. after[n + 1] = Step(after[n], n + 1)
    BY <2>1, <1>6
  <2>3. Tended(after[n], rows, g)
    BY <1>8, <2>1
  <2> QED BY <2>1, <2>2, <2>3, <1>2
<1>9. N \in T
  <2> HIDE DEF T
  <2> QED BY <1>1, <1>7, <1>8, NatSetInduction
<1> QED BY <1>4, <1>9, <1>1

-----------------------------------------------------------------------------
(* The builder.                                                            *)

\* The programs, write by write.
LEMMA Programs ==
  /\ Program("CHUNK_MINMAX") =
       <<"dataset", "content", "KIND", "SOURCE_GENERATION", "SOURCE_NROWS", "unlink", "link">>
  /\ Program("SORTED_ROWS") =
       <<"dataset", "content", "KIND", "FILL_TAIL", "NAN_TAIL", "ORDERED",
         "SOURCE_GENERATION", "SOURCE_NROWS", "unlink", "link">>
  /\ Program("BITMAP") =
       <<"values", "dataset", "enumeration", "content", "KIND", "VALUES", "ORDERED",
         "EXHAUSTIVE", "SOURCE_GENERATION", "SOURCE_NROWS", "unlink", "link">>
BY DEF Program

Steps ==
  {"values", "dataset", "enumeration", "content", "KIND", "VALUES", "FILL_TAIL", "NAN_TAIL",
   "ORDERED", "EXHAUSTIVE", "SOURCE_GENERATION", "SOURCE_NROWS", "unlink", "link"}

\* They are lists of these.
LEMMA ProgramSeq ==
  ASSUME NEW kind \in Kinds
  PROVE  Program(kind) \in Seq(Steps)
<1> DEFINE P == Program(kind)
<1>1. CASE kind = "CHUNK_MINMAX"
  <2>1. P = <<"dataset", "content", "KIND", "SOURCE_GENERATION", "SOURCE_NROWS", "unlink", "link">>
    BY <1>1, Programs
  <2> HIDE DEF P
  <2>2. P \in Seq(Steps)
    BY <2>1 DEF Steps
  <2> QED BY <2>2 DEF P
<1>2. CASE kind = "SORTED_ROWS"
  <2>1. P = <<"dataset", "content", "KIND", "FILL_TAIL", "NAN_TAIL", "ORDERED",
              "SOURCE_GENERATION", "SOURCE_NROWS", "unlink", "link">>
    BY <1>2, Programs
  <2> HIDE DEF P
  <2>2. P \in Seq(Steps)
    BY <2>1 DEF Steps
  <2> QED BY <2>2 DEF P
<1>3. CASE kind = "BITMAP"
  <2>1. P = <<"values", "dataset", "enumeration", "content", "KIND", "VALUES", "ORDERED",
              "EXHAUSTIVE", "SOURCE_GENERATION", "SOURCE_NROWS", "unlink", "link">>
    BY <1>3, Programs
  <2> HIDE DEF P
  <2>2. P \in Seq(Steps)
    BY <2>1 DEF Steps
  <2> QED BY <2>2 DEF P
<1> QED BY <1>1, <1>2, <1>3 DEF Kinds

\* A dataset is made before it is written to, its content before its tokens, and
\* everything before the list of links.
WellPlaced(kind, P, k) ==
  /\ Len(P) \in Nat /\ Len(P) > 0
  /\ P[k] = "values" => k = 1 /\ kind = "BITMAP"
  /\ P[k] = "dataset" => \A j \in 1..(k - 1) : P[j] = "values"
  /\ P[k] \notin {"values", "dataset"} => Wrote(kind, k, "dataset")
  /\ P[k] = "enumeration" => kind = "BITMAP" /\ Wrote(kind, k, "values")
  /\ P[k] = "VALUES" => kind = "BITMAP"
  /\ P[k] \in {"FILL_TAIL", "NAN_TAIL"} => kind = "SORTED_ROWS"
  /\ P[k] = "EXHAUSTIVE" => kind = "BITMAP"
  /\ P[k] \in {"SOURCE_NROWS", "unlink", "link"} =>
       /\ Wrote(kind, k, "content") /\ Wrote(kind, k, "KIND")
       /\ Wrote(kind, k, "SOURCE_GENERATION")
       /\ kind = "SORTED_ROWS" => /\ Wrote(kind, k, "FILL_TAIL")
                                  /\ Wrote(kind, k, "NAN_TAIL")
                                  /\ Wrote(kind, k, "ORDERED")
       /\ kind = "BITMAP" => /\ Wrote(kind, k, "enumeration")
                             /\ Wrote(kind, k, "VALUES")
                             /\ Wrote(kind, k, "EXHAUSTIVE")
  /\ P[k] \in {"unlink", "link"} => Wrote(kind, k, "SOURCE_NROWS")
  /\ P[k] = "link" <=> k = Len(P)

\* The programs are in that order.
LEMMA InOrder ==
  ASSUME NEW kind \in Kinds, NEW k \in 1..Len(Program(kind))
  PROVE  WellPlaced(kind, Program(kind), k)
<1> DEFINE P == Program(kind)
<1>1. \A j \in 1..(k - 1) : Wrote(kind, k, P[j])
  <2> TAKE j \in 1..(k - 1)
  <2>1. \E i \in 1..(k - 1) : Program(kind)[i] = P[j]
    OBVIOUS
  <2> QED BY <2>1, Zenon DEF Wrote
<1>2. CASE kind = "CHUNK_MINMAX"
  <2>1. /\ Len(P) = 7 /\ P[1] = "dataset" /\ P[2] = "content" /\ P[3] = "KIND"
        /\ P[4] = "SOURCE_GENERATION" /\ P[5] = "SOURCE_NROWS" /\ P[6] = "unlink"
        /\ P[7] = "link"
    BY <1>2, Programs
  <2> HIDE DEF P
  <2>2. k \in 1..7
    BY <2>1 DEF P
  <2>3. /\ (1 < k => Wrote(kind, k, "dataset")) /\ (2 < k => Wrote(kind, k, "content"))
        /\ (3 < k => Wrote(kind, k, "KIND")) /\ (4 < k => Wrote(kind, k, "SOURCE_GENERATION"))
        /\ (5 < k => Wrote(kind, k, "SOURCE_NROWS")) /\ (6 < k => Wrote(kind, k, "unlink"))
    BY <1>1, <2>1, <2>2
  <2>4. /\ (P[k] = "dataset" <=> k = 1) /\ (P[k] = "content" <=> k = 2)
        /\ (P[k] = "KIND" <=> k = 3) /\ (P[k] = "SOURCE_GENERATION" <=> k = 4)
        /\ (P[k] = "SOURCE_NROWS" <=> k = 5) /\ (P[k] = "unlink" <=> k = 6)
        /\ (P[k] = "link" <=> k = 7)
    BY <2>1, <2>2
  <2>5. /\ P[k] # "values" /\ P[k] # "enumeration" /\ P[k] # "VALUES" /\ P[k] # "FILL_TAIL"
        /\ P[k] # "NAN_TAIL" /\ P[k] # "EXHAUSTIVE"
    BY <2>1, <2>2
  <2>6. WellPlaced(kind, P, k)
    BY <1>2, <2>1, <2>2, <2>3, <2>4, <2>5 DEF WellPlaced
  <2> QED BY <2>6 DEF P
<1>3. CASE kind = "SORTED_ROWS"
  <2>1. /\ Len(P) = 10 /\ P[1] = "dataset" /\ P[2] = "content" /\ P[3] = "KIND"
        /\ P[4] = "FILL_TAIL" /\ P[5] = "NAN_TAIL" /\ P[6] = "ORDERED"
        /\ P[7] = "SOURCE_GENERATION" /\ P[8] = "SOURCE_NROWS" /\ P[9] = "unlink"
        /\ P[10] = "link"
    BY <1>3, Programs
  <2> HIDE DEF P
  <2>2. k \in 1..10
    BY <2>1 DEF P
  <2>3. /\ (1 < k => Wrote(kind, k, "dataset")) /\ (2 < k => Wrote(kind, k, "content"))
        /\ (3 < k => Wrote(kind, k, "KIND")) /\ (4 < k => Wrote(kind, k, "FILL_TAIL"))
        /\ (5 < k => Wrote(kind, k, "NAN_TAIL")) /\ (6 < k => Wrote(kind, k, "ORDERED"))
        /\ (7 < k => Wrote(kind, k, "SOURCE_GENERATION"))
        /\ (8 < k => Wrote(kind, k, "SOURCE_NROWS")) /\ (9 < k => Wrote(kind, k, "unlink"))
    BY <1>1, <2>1, <2>2
  <2>4. /\ (P[k] = "dataset" <=> k = 1) /\ (P[k] = "content" <=> k = 2)
        /\ (P[k] = "KIND" <=> k = 3) /\ (P[k] = "FILL_TAIL" <=> k = 4)
        /\ (P[k] = "NAN_TAIL" <=> k = 5) /\ (P[k] = "ORDERED" <=> k = 6)
        /\ (P[k] = "SOURCE_GENERATION" <=> k = 7) /\ (P[k] = "SOURCE_NROWS" <=> k = 8)
        /\ (P[k] = "unlink" <=> k = 9) /\ (P[k] = "link" <=> k = 10)
    BY <2>1, <2>2
  <2>5. /\ P[k] # "values" /\ P[k] # "enumeration" /\ P[k] # "VALUES" /\ P[k] # "EXHAUSTIVE"
    BY <2>1, <2>2
  <2>6. WellPlaced(kind, P, k)
    BY <1>3, <2>1, <2>2, <2>3, <2>4, <2>5 DEF WellPlaced
  <2> QED BY <2>6 DEF P
<1>4. CASE kind = "BITMAP"
  <2>1. /\ Len(P) = 12 /\ P[1] = "values" /\ P[2] = "dataset" /\ P[3] = "enumeration"
        /\ P[4] = "content" /\ P[5] = "KIND" /\ P[6] = "VALUES" /\ P[7] = "ORDERED"
        /\ P[8] = "EXHAUSTIVE" /\ P[9] = "SOURCE_GENERATION" /\ P[10] = "SOURCE_NROWS"
        /\ P[11] = "unlink" /\ P[12] = "link"
    BY <1>4, Programs
  <2> HIDE DEF P
  <2>2. k \in 1..12
    BY <2>1 DEF P
  <2>3. /\ (1 < k => Wrote(kind, k, "values")) /\ (2 < k => Wrote(kind, k, "dataset"))
        /\ (3 < k => Wrote(kind, k, "enumeration")) /\ (4 < k => Wrote(kind, k, "content"))
        /\ (5 < k => Wrote(kind, k, "KIND")) /\ (6 < k => Wrote(kind, k, "VALUES"))
        /\ (7 < k => Wrote(kind, k, "ORDERED")) /\ (8 < k => Wrote(kind, k, "EXHAUSTIVE"))
        /\ (9 < k => Wrote(kind, k, "SOURCE_GENERATION"))
        /\ (10 < k => Wrote(kind, k, "SOURCE_NROWS")) /\ (11 < k => Wrote(kind, k, "unlink"))
    BY <1>1, <2>1, <2>2
  <2>4. /\ (P[k] = "values" <=> k = 1) /\ (P[k] = "dataset" <=> k = 2)
        /\ (P[k] = "enumeration" <=> k = 3) /\ (P[k] = "content" <=> k = 4)
        /\ (P[k] = "KIND" <=> k = 5) /\ (P[k] = "VALUES" <=> k = 6)
        /\ (P[k] = "ORDERED" <=> k = 7) /\ (P[k] = "EXHAUSTIVE" <=> k = 8)
        /\ (P[k] = "SOURCE_GENERATION" <=> k = 9) /\ (P[k] = "SOURCE_NROWS" <=> k = 10)
        /\ (P[k] = "unlink" <=> k = 11) /\ (P[k] = "link" <=> k = 12)
    BY <2>1, <2>2
  <2>5. /\ P[k] # "FILL_TAIL" /\ P[k] # "NAN_TAIL"
    BY <2>1, <2>2
  <2>6. WellPlaced(kind, P, k)
    BY <1>4, <2>1, <2>2, <2>3, <2>4, <2>5 DEF WellPlaced
  <2> QED BY <2>6 DEF P
<1> QED BY <1>2, <1>3, <1>4 DEF Kinds

\* What one write makes of each field of an index.
Fields(e, d, step, i, content) ==
  /\ e = [x \in DOMAIN Bare |-> e[x]]
  /\ e.data = (IF step = "content" THEN content.data ELSE d.data)
  /\ e.kind = (IF step = "KIND" THEN i[2] ELSE d.kind)
  /\ e.fills = (IF step = "FILL_TAIL" THEN content.fills ELSE d.fills)
  /\ e.nans = (IF step = "NAN_TAIL" THEN content.nans ELSE d.nans)
  /\ e.ordered = (IF step = "ORDERED" THEN TRUE ELSE d.ordered)
  /\ e.exhaustive = (IF step = "EXHAUSTIVE" THEN content.exhaustive ELSE d.exhaustive)
  /\ e.values = (IF step = "VALUES" THEN ValuesOf(i) ELSE d.values)
  /\ e.sg = (IF step = "SOURCE_GENERATION" THEN gen ELSE d.sg)
  /\ e.sn = (IF step = "SOURCE_NROWS" THEN nrows ELSE d.sn)
  /\ e.width = d.width /\ e.limit = d.limit /\ e.dtype = d.dtype /\ e.top = d.top

\* A write but the first sets one attribute or the data, or nothing.
LEMMA OneField ==
  ASSUME NEW d, d = [x \in DOMAIN Bare |-> d[x]], NEW step \in Steps \ {"dataset"}, NEW i,
         NEW content, NEW e, e = Written(d, step, i, content)
  PROVE  Fields(e, d, step, i, content)
<1> DEFINE n == nrows
           w == ValuesOf(i)
<1> HIDE DEF n, w
<1>1. CASE step = "content"
  <2>1. e = [d EXCEPT !.data = content.data]
    BY <1>1, Zenon DEF Written
  <2> QED BY <1>1, <2>1, BareFields DEF Fields
<1>2. CASE step = "KIND"
  <2>1. e = [d EXCEPT !.kind = i[2]]
    BY <1>2, Zenon DEF Written
  <2> QED BY <1>2, <2>1, BareFields DEF Fields
<1>3. CASE step = "FILL_TAIL"
  <2>1. e = [d EXCEPT !.fills = content.fills]
    BY <1>3, Zenon DEF Written
  <2> QED BY <1>3, <2>1, BareFields DEF Fields
<1>4. CASE step = "NAN_TAIL"
  <2>1. e = [d EXCEPT !.nans = content.nans]
    BY <1>4, Zenon DEF Written
  <2> QED BY <1>4, <2>1, BareFields DEF Fields
<1>5. CASE step = "ORDERED"
  <2>1. e = [d EXCEPT !.ordered = TRUE]
    BY <1>5, Zenon DEF Written
  <2> QED BY <1>5, <2>1, BareFields DEF Fields
<1>6. CASE step = "EXHAUSTIVE"
  <2>1. e = [d EXCEPT !.exhaustive = content.exhaustive]
    BY <1>6, Zenon DEF Written
  <2> QED BY <1>6, <2>1, BareFields DEF Fields
<1>7. CASE step = "VALUES"
  <2>1. e = [d EXCEPT !.values = w]
    BY <1>7, Zenon DEF Written, w, ValuesOf
  <2> QED BY <1>7, <2>1, BareFields DEF Fields, w
<1>8. CASE step = "SOURCE_GENERATION"
  <2>1. e = [d EXCEPT !.sg = gen]
    BY <1>8, Zenon DEF Written
  <2> QED BY <1>8, <2>1, BareFields DEF Fields
<1>9. CASE step = "SOURCE_NROWS"
  <2>1. e = [d EXCEPT !.sn = n]
    BY <1>9, Zenon DEF Written, n
  <2> QED BY <1>9, <2>1, BareFields DEF Fields, n
<1>10. CASE step \in {"values", "enumeration", "unlink", "link"}
  <2>1. e = d
    <3>1. CASE step = "values"
      BY <3>1, Zenon DEF Written
    <3>2. CASE step = "enumeration"
      BY <3>2, Zenon DEF Written
    <3>3. CASE step = "unlink"
      BY <3>3, Zenon DEF Written
    <3>4. CASE step = "link"
      BY <3>4, Zenon DEF Written
    <3> QED BY <1>10, <3>1, <3>2, <3>3, <3>4
  <2> QED BY <1>10, <2>1 DEF Fields
<1> QED BY <1>1, <1>2, <1>3, <1>4, <1>5, <1>6, <1>7, <1>8, <1>9, <1>10 DEF Steps

\* What is written is lists.
LEMMA ContentTyped ==
  ASSUME NEW kind \in Kinds, NEW rows \in Seq(Element), NEW f \in FillValue,
         NEW content, content = compute_index_content(kind, rows, f)
  PROVE  /\ content.data \in Seq(Range(content.data))
         /\ kind = "BITMAP" => content.enum \in Seq(Range(content.enum)) /\ content.width \in Nat
<1>1. CASE kind = "CHUNK_MINMAX"
  <2>1. content.data \in Seq(Entries)
    BY <1>1, MinmaxContent
  <2> QED BY <1>1, <2>1, OwnElements
<1>2. CASE kind = "SORTED_ROWS"
  <2> DEFINE n == Len(rows)
             S == 1..n
             sorted == compute_sorted_rows(rows, n, f)
  <2>1. content = [data |-> sorted.perm, fills |-> sorted.fills, nans |-> sorted.nans]
    BY <1>2, SortedRowsContent
  <2>2. n \in Nat /\ \A r \in 1..n : rows[r] \in Element
    BY RowsTyped
  <2> HIDE DEF n
  <2>3. sorted.perm \in Seq(S)
    BY <2>2, SortedWhole
  <2> HIDE DEF sorted, S
  <2>4. content.data \in Seq(S)
    BY <2>1, <2>3
  <2> QED BY <1>2, <2>4, OwnElements
<1>3. CASE kind = "BITMAP"
  <2> DEFINE n == Len(rows)
             S == SUBSET (1..n)
             data == content.data
             enum == content.enum
  <2>1. data \in Seq(S) /\ enum \in Seq(Int) /\ content.width = bitmap_bytes(n)
    BY <1>3, BitmapContent
  <2>2. bitmap_bytes(n) \in Nat
    <3>1. n \in Nat
      BY RowsTyped
    <3> QED BY <3>1, Bytes
  <2> HIDE DEF S, data, enum
  <2>3. data \in Seq(Range(data)) /\ enum \in Seq(Range(enum))
    BY <2>1, OwnElements
  <2> QED BY <2>1, <2>2, <2>3 DEF data, enum
<1> QED BY <1>1, <1>2, <1>3 DEF Kinds

\* A dataset to which nothing was written yet.
LEMMA NothingWritten ==
  ASSUME NEW S, NEW data \in Seq(S), NEW zero, NEW e, e = Unwritten(data, zero)
  PROVE  /\ e = [x \in DOMAIN Bare |-> e[x]] /\ e.data \in Seq(Range(e.data))
         /\ e.kind = None /\ e.values = NoName /\ e.sg = None /\ e.sn = None
         /\ e.dtype = "right" /\ e.top = Endless /\ e.limit = Endless /\ e.width = 0
<1> DEFINE list == [j \in DOMAIN data |-> zero]
           k == Len(data)
<1>1. k \in Nat /\ list \in [1..k -> {zero}]
  OBVIOUS
<1>2. e = [Bare EXCEPT !.data = list]
  BY DEF Unwritten
<1> HIDE DEF list, k
<1>3. list \in Seq({zero})
  BY <1>1, FunctionIsSeq
<1>4. list \in Seq(Range(list))
  BY <1>3, OwnElements
<1> QED BY <1>2, <1>4 DEF Bare

\* The first write makes a bare dataset.
LEMMA FirstWrite ==
  ASSUME NEW d, NEW i \in Columns \X Kinds, NEW content, content.data \in Seq(Range(content.data)),
         i[2] = "BITMAP" => content.width \in Nat, NEW e, e = Written(d, "dataset", i, content)
  PROVE  /\ e = [x \in DOMAIN Bare |-> e[x]] /\ IsDataset(e)
         /\ e.kind = None /\ e.values = NoName /\ e.sg = None /\ e.sn = None
         /\ e.dtype = "right" /\ e.top = Endless
         /\ i[2] = "BITMAP" => e.width = content.width
<1> DEFINE data == content.data
<1>1. Endless \in Nat
  BY IndexFileAssumption
<1>2. CASE i[2] = "BITMAP"
  <2> DEFINE u == Unwritten(data, {})
  <2>1. e = [u EXCEPT !.width = content.width]
    BY <1>2, Zenon DEF Written
  <2>2. data \in Seq(Range(data))
    OBVIOUS
  <2> HIDE DEF data
  <2>3. /\ u = [x \in DOMAIN Bare |-> u[x]] /\ u.data \in Seq(Range(u.data))
        /\ u.kind = None /\ u.values = NoName /\ u.sg = None /\ u.sn = None
        /\ u.dtype = "right" /\ u.top = Endless /\ u.limit = Endless /\ u.width = 0
    BY <2>2, NothingWritten
  <2> HIDE DEF u
  <2>4. /\ e = [x \in DOMAIN Bare |-> e[x]] /\ e.data = u.data /\ e.kind = None
        /\ e.values = NoName /\ e.sg = None /\ e.sn = None /\ e.dtype = "right"
        /\ e.top = Endless /\ e.limit = Endless /\ e.width = content.width
    BY <2>1, <2>3, BareFields
  <2> QED BY <1>1, <1>2, <2>3, <2>4 DEF IsDataset
<1>3. CASE i[2] # "BITMAP"
  <2>1. e = Unwritten(data, Zero)
    BY <1>3, Zenon DEF Written
  <2>2. data \in Seq(Range(data))
    OBVIOUS
  <2> HIDE DEF data
  <2>3. /\ e = [x \in DOMAIN Bare |-> e[x]] /\ e.data \in Seq(Range(e.data))
        /\ e.kind = None /\ e.values = NoName /\ e.sg = None /\ e.sn = None
        /\ e.dtype = "right" /\ e.top = Endless /\ e.limit = Endless /\ e.width = 0
    BY <2>1, <2>2, NothingWritten
  <2> QED BY <1>1, <1>3, <2>3 DEF IsDataset
<1> QED BY <1>2, <1>3

\* One write to the dataset of values.
LEMMA ValuesWritten ==
  ASSUME NEW d, IsDataset(d), d.kind = None, NEW step, NEW content,
         content.enum \in Seq(Range(content.enum)), NEW e, e = WrittenValues(d, step, content)
  PROVE  /\ IsDataset(e) /\ e.kind = None
         /\ step \notin {"values", "enumeration"} => e = d
         /\ step = "values" => e.values = NoName /\ e.sg = None /\ e.dtype = "right"
         /\ step = "enumeration" => /\ e.data = content.enum /\ e.dtype = d.dtype
                                    /\ e.values = d.values /\ e.sg = d.sg
<1> DEFINE enum == content.enum
<1>1. enum \in Seq(Range(enum))
  OBVIOUS
<1>2. CASE step = "values"
  <2>1. e = Unwritten(enum, Zero)
    BY <1>2, Zenon DEF WrittenValues
  <2> HIDE DEF enum
  <2>2. /\ e = [x \in DOMAIN Bare |-> e[x]] /\ e.data \in Seq(Range(e.data))
        /\ e.kind = None /\ e.values = NoName /\ e.sg = None /\ e.sn = None
        /\ e.dtype = "right" /\ e.top = Endless /\ e.limit = Endless /\ e.width = 0
    BY <1>1, <2>1, NothingWritten
  <2>3. Endless \in Nat
    BY IndexFileAssumption
  <2> QED BY <1>2, <2>2, <2>3 DEF IsDataset
<1>3. CASE step = "enumeration"
  <2>1. e = [d EXCEPT !.data = enum]
    BY <1>3, Zenon DEF WrittenValues
  <2> HIDE DEF enum
  <2>2. d = [x \in DOMAIN Bare |-> d[x]]
    BY DEF IsDataset
  <2>3. /\ e = [x \in DOMAIN Bare |-> e[x]] /\ e.data = enum /\ e.kind = d.kind
        /\ e.values = d.values /\ e.sg = d.sg /\ e.sn = d.sn /\ e.dtype = d.dtype
        /\ e.top = d.top /\ e.limit = d.limit /\ e.width = d.width
    BY <2>1, <2>2, BareFields
  <2>4. IsDataset(e)
    BY <1>1, <2>3 DEF IsDataset
  <2> QED BY <1>3, <2>3, <2>4 DEF enum
<1>4. CASE step \notin {"values", "enumeration"}
  <2>1. e = d
    BY <1>4, Zenon DEF WrittenValues
  <2> QED BY <1>4, <2>1
<1> QED BY <1>2, <1>3, <1>4

\* A write adds one step to those done.
LEMMA WroteNext ==
  ASSUME NEW kind, NEW k \in Nat \ {0}, NEW s
  PROVE  Wrote(kind, k + 1, s) <=> Wrote(kind, k, s) \/ Program(kind)[k] = s
<1>1. 1..((k + 1) - 1) = 1..(k - 1) \cup {k}
  OBVIOUS
<1> QED BY <1>1, Zenon DEF Wrote

\* The datasets after one write.
AfterWrite(o, i, step, content) ==
  [o EXCEPT ![i] = Written(o[i], step, i, content),
            ![ValuesOf(i)] = WrittenValues(o[ValuesOf(i)], step, content)]

\* One write of a builder: the datasets stay such, no other is touched, and the
\* builder is one step further.
LEMMA OneWrite ==
  ASSUME NEW o, Fits(o), NEW i \in Columns \X Kinds, NEW content,
         content.data \in Seq(Range(content.data)),
         i[2] = "BITMAP" => content.enum \in Seq(Range(content.enum)) /\ content.width \in Nat,
         gen \in Nat, nrows \in Nat, \A m \in Names : Dated(o[m], gen),
         NEW k \in 1..Len(Program(i[2])), Built(o, i, k, content, gen, nrows),
         NEW step, step = Program(i[2])[k],
         NEW p, p = AfterWrite(o, i, step, content)
  PROVE  /\ Fits(p) /\ \A m \in Names : Dated(p[m], gen)
         /\ \A m \in Names \ {i, ValuesOf(i)} : p[m] = o[m]
         /\ i[2] # "BITMAP" => p[ValuesOf(i)] = o[ValuesOf(i)]
         /\ Built(p, i, k + 1, content, gen, nrows)
<1> DEFINE v == ValuesOf(i)
           kind == i[2]
           P == Program(kind)
           d == o[i]
           x == o[v]
           e == p[i]
           u == p[v]
           n == nrows
           Did(s) == Wrote(kind, k, s)
           Does(s) == Wrote(kind, k + 1, s)
<1>1. /\ i \in Names /\ v \in Names /\ v # i /\ kind \in Kinds
  BY IndexNames
<1>2. /\ k \in Nat \ {0} /\ step \in Steps /\ WellPlaced(kind, P, k)
  <2>1. Program(kind) \in Seq(Steps) /\ Len(P) \in Nat
    BY <1>1, ProgramSeq
  <2>2. step \in Steps
    BY <2>1
  <2>3. WellPlaced(kind, P, k)
    BY <1>1, InOrder
  <2> QED BY <2>1, <2>2, <2>3
<1>3. \A s : Does(s) <=> Did(s) \/ step = s
  BY <1>2, WroteNext
<1>4. /\ o = [m \in Names |-> o[m]] /\ IsDataset(d) /\ IsDataset(x) /\ Named(o, i) /\ Named(o, v)
  BY <1>1 DEF Fits
<1>5. /\ p = [m \in Names |-> p[m]]
      /\ e = Written(d, step, i, content) /\ u = WrittenValues(x, step, content)
      /\ \A m \in Names \ {i, v} : p[m] = o[m]
  <2>1. p = [[o EXCEPT ![i] = Written(d, step, i, content)]
               EXCEPT ![v] = WrittenValues(x, step, content)]
    BY DEF AfterWrite
  <2> HIDE DEF v, d, x
  <2> QED BY <2>1, <1>1, <1>4
<1>6. /\ d.kind = (IF Did("KIND") THEN kind ELSE None)
      /\ d.values = (IF Did("VALUES") THEN v ELSE NoName)
      /\ d.sg = (IF Did("SOURCE_GENERATION") THEN gen ELSE None)
      /\ d.sn = (IF Did("SOURCE_NROWS") THEN n ELSE None)
      /\ Did("dataset") => d.dtype = "right" /\ d.top = Endless
      /\ Did("content") => d.data = content.data
      /\ Did("FILL_TAIL") => d.fills = content.fills
      /\ Did("NAN_TAIL") => d.nans = content.nans
      /\ Did("ORDERED") => d.ordered = TRUE
      /\ Did("EXHAUSTIVE") => d.exhaustive = content.exhaustive
      /\ kind = "BITMAP" =>
           /\ x.kind = None
           /\ Did("dataset") => d.width = content.width
           /\ Did("values") => x.dtype = "right"
           /\ Did("enumeration") => x.data = content.enum
  BY Zenon DEF Built
<1>7. step = "dataset" => \A s : s # "values" => ~Did(s)
  BY <1>2 DEF WellPlaced, Wrote
<1>8. step = "values" => kind = "BITMAP" /\ \A s : ~Did(s)
  BY <1>2 DEF WellPlaced, Wrote
<1>9. /\ step \notin {"values", "dataset"} => Did("dataset")
      /\ step = "enumeration" => kind = "BITMAP" /\ Did("values")
      /\ step = "VALUES" => kind = "BITMAP"
  BY <1>2 DEF WellPlaced
<1>10. gen # None /\ n \in Nat /\ gen \in Nat
  BY IndexFileAssumption
<1>11. Dated(d, gen) /\ Dated(x, gen)
  BY <1>1
<1> HIDE DEF P, d, x, e, u, n, Did, Does
<1>12. step # "dataset" => Fields(e, d, step, i, content)
  BY <1>2, <1>4, <1>5, OneField DEF IsDataset
<1>13. step = "dataset" =>
         /\ e = [y \in DOMAIN Bare |-> e[y]] /\ IsDataset(e)
         /\ e.kind = None /\ e.values = NoName /\ e.sg = None /\ e.sn = None
         /\ e.dtype = "right" /\ e.top = Endless /\ (kind = "BITMAP" => e.width = content.width)
  BY <1>5, FirstWrite
<1>14. kind = "BITMAP" =>
         /\ IsDataset(u) /\ u.kind = None
         /\ step \notin {"values", "enumeration"} => u = x
         /\ step = "values" => u.values = NoName /\ u.sg = None /\ u.dtype = "right"
         /\ step = "enumeration" => /\ u.data = content.enum /\ u.dtype = x.dtype
                                    /\ u.values = x.values /\ u.sg = x.sg
  BY <1>4, <1>5, <1>6, ValuesWritten
<1>15. kind # "BITMAP" => u = x
  <2> SUFFICES ASSUME kind # "BITMAP" PROVE u = x
    OBVIOUS
  <2>1. ~(step = "values") /\ ~(step = "enumeration")
    BY <1>8, <1>9
  <2> QED BY <2>1, <1>5, Zenon DEF WrittenValues
<1> HIDE DEF v, kind
<1>16. IsDataset(e)
  <2>1. CASE step = "dataset"
    BY <2>1, <1>13
  <2>2. CASE step # "dataset"
    <3>1. Fields(e, d, step, i, content) /\ IsDataset(d)
      BY <2>2, <1>4, <1>12
    <3>2. kind \in SEARCH_INDEX_KINDS
      BY <1>1 DEF SEARCH_INDEX_KINDS
    <3>3. e.kind \in SEARCH_INDEX_KINDS \cup {"FUTURE_KIND", None}
      BY <3>1, <3>2 DEF Fields, IsDataset, kind
    <3>4. e.data \in Seq(Range(e.data))
      <4>1. e.data = content.data \/ e.data = d.data
        BY <3>1 DEF Fields
      <4>2. content.data \in Seq(Range(content.data)) /\ d.data \in Seq(Range(d.data))
        BY <3>1 DEF IsDataset
      <4> QED BY <4>1, <4>2, Zenon
    <3>5. e.sg \in Nat \cup {None} /\ e.sn \in Nat \cup {None}
      BY <3>1, <1>10 DEF Fields, IsDataset, n
    <3>6. e = [y \in DOMAIN Bare |-> e[y]] /\ e.width \in Nat /\ e.limit \in Nat /\ e.top \in Nat
      BY <3>1 DEF Fields, IsDataset
    <3> QED BY <3>3, <3>4, <3>5, <3>6, Zenon DEF IsDataset
  <2> QED BY <2>1, <2>2
<1>17. IsDataset(u)
  BY <1>4, <1>14, <1>15
<1>18. None \notin Kinds
  BY IndexFileAssumption DEF SEARCH_INDEX_KINDS
<1>19. Named(p, i)
  <2>1. e.kind \in Kinds => e.kind = kind
    BY <1>6, <1>12, <1>13, <1>18 DEF Fields, kind
  <2>2. e.values = NoName \/ (kind = "BITMAP" /\ e.values = v)
    BY <1>4, <1>9, <1>12, <1>13 DEF Fields, kind, Named, d, v
  <2> QED BY <2>1, <2>2 DEF Named, e, v, kind
<1>20. Named(p, v)
  <2>1. u.kind \in Kinds => u.kind = v[2]
    BY <1>4, <1>14, <1>15, <1>18 DEF Named, x
  <2>2. u.values = NoName \/ (v[2] = "BITMAP" /\ u.values = ValuesOf(v))
    BY <1>4, <1>14, <1>15 DEF Named, x
  <2> QED BY <2>1, <2>2 DEF Named, u
<1>21. Fits(p)
  <2> SUFFICES ASSUME NEW m \in Names PROVE IsDataset(p[m]) /\ Named(p, m)
    BY <1>5 DEF Fits
  <2>1. CASE m = i
    BY <2>1, <1>16, <1>19 DEF e
  <2>2. CASE m = v
    BY <2>2, <1>17, <1>20 DEF u
  <2>3. CASE m \notin {i, v}
    BY <2>3, <1>5 DEF Fits, Named
  <2> QED BY <2>1, <2>2, <2>3
<1>22. Dated(e, gen)
  <2>1. CASE step = "dataset"
    BY <2>1, <1>10, <1>13 DEF Dated
  <2>2. CASE step = "values"
    <3>1. e = d
      BY <2>2, <1>5, Zenon DEF Written
    <3> QED BY <3>1, <1>11
  <2>3. CASE step \notin {"values", "dataset"}
    <3>1. e.dtype = "right" /\ (e.sg = gen \/ e.sg = d.sg)
      BY <2>3, <1>6, <1>9, <1>12 DEF Fields
    <3> QED BY <3>1, <1>10, <1>11 DEF Dated
  <2> QED BY <2>1, <2>2, <2>3
<1>23. Dated(u, gen)
  <2>1. CASE kind # "BITMAP" \/ step \notin {"values", "enumeration"}
    BY <2>1, <1>11, <1>14, <1>15
  <2>2. CASE kind = "BITMAP" /\ step = "values"
    BY <2>2, <1>10, <1>14 DEF Dated
  <2>3. CASE kind = "BITMAP" /\ step = "enumeration"
    <3>1. u.dtype = "right" /\ u.sg = x.sg
      BY <2>3, <1>6, <1>9, <1>14
    <3> QED BY <3>1, <1>10, <1>11 DEF Dated
  <2> QED BY <2>1, <2>2, <2>3
<1>24. \A m \in Names : Dated(p[m], gen)
  <2> TAKE m \in Names
  <2>1. m = i \/ m = v \/ p[m] = o[m]
    BY <1>5
  <2> QED BY <2>1, <1>22, <1>23 DEF e, u
<1>25. Built(p, i, k + 1, content, gen, nrows)
  <2>1. CASE step = "dataset"
    <3>1. \A s : Does(s) => s \in {"values", "dataset"}
      BY <2>1, <1>3, <1>7
    <3>2. /\ ~Does("KIND") /\ ~Does("VALUES") /\ ~Does("SOURCE_GENERATION")
          /\ ~Does("SOURCE_NROWS") /\ ~Does("content") /\ ~Does("FILL_TAIL") /\ ~Does("NAN_TAIL")
          /\ ~Does("ORDERED") /\ ~Does("EXHAUSTIVE") /\ ~Does("enumeration")
      BY <3>1
    <3>3. kind = "BITMAP" => u.kind = None /\ (Does("values") => u.dtype = "right")
      BY <2>1, <1>3, <1>6, <1>14
    <3>4. /\ e.kind = None /\ e.values = NoName /\ e.sg = None /\ e.sn = None
          /\ e.dtype = "right" /\ e.top = Endless /\ (kind = "BITMAP" => e.width = content.width)
      BY <2>1, <1>13
    <3>5. /\ e.kind = (IF Does("KIND") THEN kind ELSE None)
          /\ e.values = (IF Does("VALUES") THEN v ELSE NoName)
          /\ e.sg = (IF Does("SOURCE_GENERATION") THEN gen ELSE None)
          /\ e.sn = (IF Does("SOURCE_NROWS") THEN n ELSE None)
      BY <3>2, <3>4
    <3> QED BY <3>2, <3>3, <3>4, <3>5, Zenon DEF Built, Does, e, u, kind, v, n
  <2>2. CASE step # "dataset"
    <3>1. Fields(e, d, step, i, content)
      BY <2>2, <1>12
    <3>2. /\ e.kind = (IF Does("KIND") THEN kind ELSE None)
          /\ e.values = (IF Does("VALUES") THEN v ELSE NoName)
          /\ e.sg = (IF Does("SOURCE_GENERATION") THEN gen ELSE None)
          /\ e.sn = (IF Does("SOURCE_NROWS") THEN n ELSE None)
      BY <3>1, <1>3, <1>6 DEF Fields, kind, v, n
    <3>3. /\ Does("dataset") => e.dtype = "right" /\ e.top = Endless
          /\ Does("content") => e.data = content.data
          /\ Does("FILL_TAIL") => e.fills = content.fills
          /\ Does("NAN_TAIL") => e.nans = content.nans
          /\ Does("ORDERED") => e.ordered = TRUE
          /\ Does("EXHAUSTIVE") => e.exhaustive = content.exhaustive
      BY <2>2, <3>1, <1>3, <1>6 DEF Fields
    <3>4. kind = "BITMAP" =>
            /\ u.kind = None
            /\ Does("dataset") => e.width = content.width
            /\ Does("values") => u.dtype = "right"
            /\ Does("enumeration") => u.data = content.enum
      <4> SUFFICES ASSUME kind = "BITMAP"
                   PROVE  /\ u.kind = None
                          /\ Does("dataset") => e.width = content.width
                          /\ Does("values") => u.dtype = "right"
                          /\ Does("enumeration") => u.data = content.enum
        OBVIOUS
      <4>1. u.kind = None /\ (Does("dataset") => e.width = content.width)
        BY <2>2, <3>1, <1>3, <1>6, <1>14 DEF Fields
      <4>2. Does("values") => u.dtype = "right"
        BY <1>3, <1>6, <1>14
      <4>3. Does("enumeration") => u.data = content.enum
        <5>1. CASE step = "values"
          BY <5>1, <1>3, <1>8
        <5>2. CASE step # "values"
          BY <5>2, <1>3, <1>6, <1>14
        <5> QED BY <5>1, <5>2
      <4> QED BY <4>1, <4>2, <4>3
    <3> QED BY <3>2, <3>3, <3>4, Zenon DEF Built, Does, e, u, kind, v, n
  <2> QED BY <2>1, <2>2
<1> QED BY <1>5, <1>15, <1>21, <1>24, <1>25 DEF v, kind, u, x

\* All of a list is its beginning.
LEMMA WholeList ==
  ASSUME NEW S, NEW list \in Seq(S)
  PROVE  SubSeq(list, 1, Len(list)) = list
<1> DEFINE s == SubSeq(list, 1, Len(list))
<1>1. Len(list) \in Nat
  OBVIOUS
<1>2. s \in Seq(S) /\ Len(s) = Len(list) /\ \A j \in 1..Len(list) : s[j] = list[j]
  BY <1>1, Beginning
<1> HIDE DEF s
<1>3. s = list
  BY <1>1, <1>2, SeqEqual
<1> QED BY <1>3 DEF s

\* With its SOURCE_NROWS an index has everything else.
LEMMA LastToken ==
  ASSUME NEW kind \in Kinds, NEW k \in Nat, k <= Len(Program(kind)) + 1,
         Wrote(kind, k, "SOURCE_NROWS")
  PROVE  /\ Wrote(kind, k, "dataset") /\ Wrote(kind, k, "content") /\ Wrote(kind, k, "KIND")
         /\ Wrote(kind, k, "SOURCE_GENERATION")
         /\ kind = "SORTED_ROWS" => /\ Wrote(kind, k, "FILL_TAIL") /\ Wrote(kind, k, "NAN_TAIL")
                                    /\ Wrote(kind, k, "ORDERED")
         /\ kind = "BITMAP" => /\ Wrote(kind, k, "values") /\ Wrote(kind, k, "enumeration")
                               /\ Wrote(kind, k, "VALUES") /\ Wrote(kind, k, "EXHAUSTIVE")
<1> DEFINE P == Program(kind)
<1>1. PICK j \in 1..(k - 1) : P[j] = "SOURCE_NROWS"
  BY DEF Wrote
<1>2. Len(P) \in Nat
  BY ProgramSeq
<1> HIDE DEF P
<1>3. j \in 1..Len(P) /\ 1..(j - 1) \subseteq 1..(k - 1)
  BY <1>2 DEF P
<1>4. WellPlaced(kind, P, j)
  BY <1>3, InOrder DEF P
<1>5. \A s : Wrote(kind, j, s) => Wrote(kind, k, s)
  BY <1>3, Zenon DEF Wrote
<1>6. kind = "BITMAP" => Wrote(kind, j, "values")
  <2> SUFFICES ASSUME kind = "BITMAP" PROVE Wrote(kind, j, "values")
    OBVIOUS
  <2>1. PICK m \in 1..(j - 1) : P[m] = "enumeration"
    BY <1>1, <1>4 DEF WellPlaced, Wrote, P
  <2>2. m \in 1..Len(P) /\ 1..(m - 1) \subseteq 1..(j - 1)
    BY <1>2, <1>3
  <2>3. WellPlaced(kind, P, m)
    BY <2>2, InOrder DEF P
  <2>4. Wrote(kind, m, "values")
    BY <2>1, <2>3 DEF WellPlaced
  <2> QED BY <2>2, <2>4, Zenon DEF Wrote
<1> QED BY <1>1, <1>4, <1>5, <1>6 DEF WellPlaced

\* A complete index passes the deep check.
LEMMA CompletePasses ==
  ASSUME NEW o, Fits(o), NEW i \in Columns \X Kinds, NEW rows \in Seq(Element),
         Len(rows) <= MaxRows, NEW f \in FillValue,
         NEW content, content = compute_index_content(i[2], rows, f), NEW g,
         NEW k \in Nat, k <= Len(Program(i[2])) + 1, Wrote(i[2], k, "SOURCE_NROWS"),
         Built(o, i, k, content, g, Len(rows))
  PROVE  /\ check_index(o, i, rows, f, TRUE)
         /\ o[i].kind = i[2] /\ o[i].dtype = "right" /\ o[i].sg = g /\ o[i].sn = Len(rows)
         /\ i[2] = "BITMAP" => o[i].values = ValuesOf(i) /\ o[ValuesOf(i)].kind = None
<1> DEFINE d == o[i]
           x == o[ValuesOf(i)]
           kind == i[2]
           n == Len(rows)
<1>1. kind \in Kinds /\ i \in Names /\ ValuesOf(i) \in Names
  BY IndexNames
<1>2. /\ Wrote(kind, k, "dataset") /\ Wrote(kind, k, "content") /\ Wrote(kind, k, "KIND")
      /\ Wrote(kind, k, "SOURCE_GENERATION")
      /\ kind = "SORTED_ROWS" => /\ Wrote(kind, k, "FILL_TAIL") /\ Wrote(kind, k, "NAN_TAIL")
                                 /\ Wrote(kind, k, "ORDERED")
      /\ kind = "BITMAP" => /\ Wrote(kind, k, "values") /\ Wrote(kind, k, "enumeration")
                            /\ Wrote(kind, k, "VALUES") /\ Wrote(kind, k, "EXHAUSTIVE")
  BY <1>1, LastToken
<1>3. /\ d.kind = kind /\ d.sg = g /\ d.sn = n /\ d.dtype = "right" /\ d.top = Endless
      /\ d.data = content.data
      /\ kind = "SORTED_ROWS" => /\ d.fills = content.fills /\ d.nans = content.nans
                                 /\ d.ordered = TRUE
      /\ kind = "BITMAP" => /\ d.values = ValuesOf(i) /\ d.exhaustive = content.exhaustive
                            /\ x.kind = None /\ d.width = content.width
                            /\ x.dtype = "right" /\ x.data = content.enum
  BY <1>2, Zenon DEF Built
<1>4. n \in Nat /\ \A r \in 1..n : rows[r] \in Element
  BY RowsTyped
<1>5. Endless \in Nat /\ MaxRows \in Nat /\ Endless > MaxRows + 1
  BY IndexFileAssumption
<1>6. CASE kind = "CHUNK_MINMAX"
  <2> DEFINE count == data_chunk_count(n)
             data == content.data
  <2>1. /\ count \in Nat /\ data \in Seq(Entries) /\ Len(data) = count
        /\ \A j \in 1..count : data[j].n = Cardinality(ChunkRows(j - 1, n))
    BY <1>6, MinmaxContent
  <2> HIDE DEF data, count
  <2>2. SubSeq(data, 1, count) = data
    BY <2>1, WholeList
  <2>3. \A j \in 1..count : data[j] # Zero
    <3>1. Zero \notin Entries
      BY IndexFileAssumption
    <3> QED BY <2>1, <3>1
  <2>4. d.dtype \in {"right", "half"} /\ Len(d.data) >= count
    BY <1>3, <2>1 DEF data
  <2>5. validate_minmax_structure(d, n)
    BY <1>3, <2>1, <2>3, <2>4, Zenon DEF validate_minmax_structure, data, count
  <2>6. SubSeq(d.data, 1, data_chunk_count(Len(rows)))
          = compute_index_content("CHUNK_MINMAX", rows, f).data
    BY <1>3, <1>6, <2>2 DEF data, count
  <2> QED BY <1>3, <1>6, <2>5, <2>6, Zenon DEF check_index
<1>7. CASE kind = "SORTED_ROWS"
  <2> DEFINE S == 1..n
             sorted == compute_sorted_rows(rows, n, f)
             data == content.data
  <2>1. content = [data |-> sorted.perm, fills |-> sorted.fills, nans |-> sorted.nans]
    BY <1>7, SortedRowsContent
  <2> HIDE DEF n
  <2>2. /\ sorted.perm \in Seq(S) /\ Len(sorted.perm) = n
        /\ {sorted.perm[r] : r \in 1..n} = 1..n
        /\ sorted.fills \in Nat /\ sorted.nans \in Nat /\ sorted.fills + sorted.nans <= n
    BY <1>4, SortedWhole
  <2> HIDE DEF sorted
  <2>3. data = sorted.perm /\ content.fills = sorted.fills /\ content.nans = sorted.nans
    BY <2>1
  <2> HIDE DEF S, data
  <2>4. data \in Seq(S) /\ Len(data) = n
    BY <2>2, <2>3
  <2>5. SubSeq(data, 1, n) = data
    BY <2>4, WholeList
  <2>6. {d.data[r] : r \in 1..n} = 1..n
    <3>1. d.data = sorted.perm
      BY <1>3, <2>3 DEF data
    <3> QED BY <3>1, <2>2, Zenon
  <2>7. d.top >= n - 1 /\ Len(d.data) >= n
    <3>1. d.top >= n - 1
      BY <1>3, <1>4, <1>5 DEF n
    <3>2. Len(d.data) >= n
      BY <1>3, <1>4, <2>4 DEF data
    <3> QED BY <3>1, <3>2
  <2>8. None \notin {d.fills, d.nans} /\ d.fills + d.nans <= n
    BY <1>3, <1>7, <2>2, <2>3, IndexFileAssumption
  <2>9. validate_sorted_rows_structure(d, n)
    BY <1>3, <1>7, <2>6, <2>7, <2>8, Zenon DEF validate_sorted_rows_structure
  <2>10. SubSeq(d.data, 1, Len(rows)) = compute_index_content("SORTED_ROWS", rows, f).data
    BY <1>3, <1>7, <2>5 DEF data, n
  <2> QED BY <1>3, <1>7, <2>9, <2>10, Zenon DEF check_index, n
<1>8. CASE kind = "BITMAP"
  <2> DEFINE data == content.data
             enum == content.enum
  <2>1. Len(data) = Len(enum) /\ content.width = bitmap_bytes(n)
    BY <1>8, BitmapContent
  <2>2. bitmap_bytes(n) \in Nat
    BY <1>4, Bytes
  <2>3. /\ deep_check_bitmap(d, enum, rows, f)
        /\ n % Bits # 0 =>
             \A j \in DOMAIN d.data : d.data[j] \cap (n + 1)..(Bits * bitmap_bytes(n)) = {}
    <3>1. content = compute_index_content("BITMAP", rows, f)
      BY <1>8
    <3>2. d.data = content.data /\ d.exhaustive = content.exhaustive
      BY <1>3, <1>8
    <3> HIDE DEF d
    <3> QED BY <3>1, <3>2, BitmapPasses
  <2> HIDE DEF n, data, enum
  <2>4. d.width >= bitmap_bytes(n)
    BY <1>3, <1>8, <2>1, <2>2
  <2>5. d.values # NoName
    BY <1>1, <1>3, <1>8, IndexFileAssumption
  <2>6. validate_bitmap_structure(o, d, n)
    BY <1>3, <1>8, <2>1, <2>3, <2>4, <2>5, Zenon DEF validate_bitmap_structure, data, enum
  <2>7. deep_check_bitmap(d, o[d.values].data, rows, f)
    BY <1>3, <1>8, <2>3, Zenon DEF enum
  <2> QED BY <1>3, <1>8, <2>6, <2>7, Zenon DEF check_index, n
<1> QED BY <1>1, <1>3, <1>6, <1>7, <1>8 DEF Kinds

-----------------------------------------------------------------------------
(* Every step keeps the types.                                             *)

Typed == ColumnsFit /\ DatasetsFit /\ LinksFit /\ BuilderFits

\* The generation a call works under; without one there are no datasets.
LEMMA Generation ==
  ASSUME DatasetsFit
  PROVE  /\ ensure_generation \in Nat /\ ensure_generation # None
         /\ gen # None => ensure_generation = gen
         /\ gen = None => /\ ensure_generation = 0 /\ search_index_datasets = {}
                          /\ \A m \in Names : obj[m] = Absent
<1>1. None \notin Nat
  BY IndexFileAssumption
<1>2. CASE gen # None
  BY <1>1, <1>2 DEF ensure_generation, DatasetsFit
<1>3. CASE gen = None
  <2>1. \A m \in Names : obj[m] = Absent
    BY <1>3 DEF DatasetsFit, Dated
  <2>2. Absent.kind = None
    BY DEF Absent, Bare
  <2>3. search_index_datasets = {}
    BY <2>1, <2>2 DEF search_index_datasets, Members
  <2>4. {obj[i].sg : i \in search_index_datasets} \ {None} = {}
    BY <2>3
  <2>5. ensure_generation = 0
    BY <1>3, <2>4, Zenon DEF ensure_generation
  <2> QED BY <1>1, <1>3, <2>1, <2>3, <2>5
<1> QED BY <1>2, <1>3

\* Links stay links while the datasets they refer to stay indexes.
LEMMA LinksStay ==
  ASSUME NEW o, NEW list, NEW c, NEW b, IsLinks(o, list, c, b), NEW p, NEW b2,
         \A m \in Names : m # b /\ o[m].dtype # "absent" /\ o[m].kind # None =>
           m # b2 /\ p[m].dtype # "absent" /\ p[m].kind # None
  PROVE  IsLinks(p, list, c, b2)
BY DEF IsLinks

\* What is linked is an index of the column that links it.
LEMMA LinkedIndexes ==
  ASSUME LinksFit, NEW c \in Columns, NEW i \in Linked(c)
  PROVE  i \in Names /\ i[1] = c /\ i # call.index /\ i \in search_index_datasets
BY DEF LinksFit, IsLinks, Linked, search_index_datasets, Members

\* Nothing was written before the first step.
LEMMA NothingDone ==
  ASSUME NEW kind, NEW s
  PROVE  ~Wrote(kind, 1, s)
BY DEF Wrote

\* There is something to do.
LEMMA ProgramLong ==
  ASSUME NEW kind \in Kinds
  PROVE  Len(Program(kind)) \in Nat /\ Len(Program(kind)) > 0
<1> DEFINE P == Program(kind)
<1>1. CASE kind = "CHUNK_MINMAX"
  <2>1. P = <<"dataset", "content", "KIND", "SOURCE_GENERATION", "SOURCE_NROWS", "unlink", "link">>
    BY <1>1, Programs
  <2> HIDE DEF P
  <2>2. Len(P) = 7
    BY <2>1
  <2> QED BY <2>2 DEF P
<1>2. CASE kind = "SORTED_ROWS"
  <2>1. P = <<"dataset", "content", "KIND", "FILL_TAIL", "NAN_TAIL", "ORDERED",
              "SOURCE_GENERATION", "SOURCE_NROWS", "unlink", "link">>
    BY <1>2, Programs
  <2> HIDE DEF P
  <2>2. Len(P) = 10
    BY <2>1
  <2> QED BY <2>2 DEF P
<1>3. CASE kind = "BITMAP"
  <2>1. P = <<"values", "dataset", "enumeration", "content", "KIND", "VALUES", "ORDERED",
              "EXHAUSTIVE", "SOURCE_GENERATION", "SOURCE_NROWS", "unlink", "link">>
    BY <1>3, Programs
  <2> HIDE DEF P
  <2>2. Len(P) = 12
    BY <2>1
  <2> QED BY <2>2 DEF P
<1> QED BY <1>1, <1>2, <1>3 DEF Kinds

\* A builder begins.
LEMMA BuildBegins ==
  ASSUME Typed, NEW c \in Columns, NEW kind \in Kinds, BeginBuild(c, kind)
  PROVE  Typed'
<1> DEFINE i == <<c, kind>>
           free == ((IF kind = "BITMAP" THEN {<<c, "values">>} ELSE {}) \cup {i}) \cap Members = {}
           P == Program(kind)
<1>1. /\ gen' = ensure_generation /\ UNCHANGED <<col, fill, obj, links, plant, killed>>
      /\ call = NoCall
      /\ call' = IF free THEN [index |-> i, todo |-> P, old |-> links[c]] ELSE NoCall
  BY DEF BeginBuild, Idle
<1>2. ColumnsFit'
  BY <1>1 DEF Typed, ColumnsFit, nrows
<1>3. gen' \in Nat /\ gen' # None /\ (gen # None => gen' = gen)
      /\ (gen = None => \A m \in Names : obj[m] = Absent)
  BY <1>1, Generation DEF Typed
<1>4. Absent.sg = None /\ Absent.kind = None /\ Absent.values = NoName /\ Absent.sn = None
      /\ Absent.dtype = "absent"
  BY DEF Absent, Bare
<1>5. \A m \in Names : Dated(obj[m], gen')
  BY <1>3, <1>4 DEF Typed, DatasetsFit, Dated
<1>6. DatasetsFit'
  BY <1>1, <1>3, <1>5 DEF Typed, DatasetsFit
<1>7. NoCall.index = NoName /\ NoName \notin Names
  BY IndexFileAssumption DEF NoCall
<1>8. i \in Columns \X Kinds /\ i \in Names /\ ValuesOf(i) = <<c, "values">> /\ ValuesOf(i) \in Names
  BY IndexNames DEF ValuesOf
<1>9. \A d \in Columns : IsLinks(obj, links[d], d, NoName)
  BY <1>1, <1>7 DEF Typed, LinksFit
<1>10. CASE ~free
  <2>1. call' = NoCall /\ call' = call
    BY <1>1, <1>10
  <2> QED BY <1>1, <1>2, <1>6, <2>1 DEF Typed, LinksFit, BuilderFits, Idle
<1>11. CASE free
  <2>1. call' = [index |-> i, todo |-> P, old |-> links[c]]
    BY <1>1, <1>11
  <2>2. obj[i].dtype = "absent" /\ (kind = "BITMAP" => obj[ValuesOf(i)].dtype = "absent")
    BY <1>8, <1>11 DEF Members
  <2>3. obj[i] = Absent /\ (kind = "BITMAP" => obj[ValuesOf(i)] = Absent)
    BY <1>8, <2>2 DEF Typed, DatasetsFit, Dated
  <2> HIDE DEF P, free
  <2>4. \A d \in Columns : IsLinks(obj, links[d], d, i)
    BY <1>9, <2>2, LinksStay
  <2>5. LinksFit'
    BY <1>1, <2>1, <2>4 DEF Typed, LinksFit
  <2>6. ASSUME NEW content, NEW g, NEW n PROVE Built(obj, i, 1, content, g, n)
    BY <1>4, <2>3, NothingDone, Zenon DEF Built
  <2>7. P \in Seq(Steps) /\ Len(P) \in Nat /\ 1 \in 1..Len(P) /\ P = SubSeq(P, 1, Len(P))
    <3>1. Len(P) \in Nat /\ Len(P) > 0
      BY ProgramLong DEF P
    <3>2. P \in Seq(Steps)
      BY ProgramSeq DEF P
    <3>3. P = SubSeq(P, 1, Len(P))
      BY <3>2, WholeList
    <3> QED BY <3>1, <3>2, <3>3
  <2>8. BuilderFits'
    <3>1. Built(obj', i, 1, ContentOf(i)', gen', nrows')
      BY <2>6, <1>1
    <3>2. IsLinks(obj', links[c], c, i)
      BY <1>1, <2>4
    <3>3. /\ call'.index = i /\ call'.todo = P /\ call'.old = links[c]
          /\ call' = [index |-> call'.index, todo |-> call'.todo, old |-> call'.old]
          /\ i[1] = c /\ i[2] = kind
      BY <2>1
    <3> QED BY <1>3, <1>8, <2>7, <3>1, <3>2, <3>3 DEF BuilderFits, P
  <2> QED BY <1>2, <1>6, <2>5, <2>8 DEF Typed
<1> QED BY <1>10, <1>11

\* A list without its head.
LEMMA TailOf ==
  ASSUME NEW S, NEW s \in Seq(S), Len(s) > 0
  PROVE  /\ Tail(s) \in Seq(S) /\ Len(Tail(s)) = Len(s) - 1
         /\ \A j \in 1..(Len(s) - 1) : Tail(s)[j] = s[j + 1]
OBVIOUS

\* What is left of a list after its first k - 1 elements.
LEMMA Suffix ==
  ASSUME NEW S, NEW P \in Seq(S), NEW k \in 1..Len(P), NEW todo, todo = SubSeq(P, k, Len(P))
  PROVE  /\ Len(todo) = Len(P) - k + 1 /\ Head(todo) = P[k]
         /\ Tail(todo) = SubSeq(P, k + 1, Len(P))
<1>1. Len(P) \in Nat /\ k \in Nat \ {0} /\ k <= Len(P)
  OBVIOUS
<1>2. /\ todo \in Seq(S) /\ Len(todo) = Len(P) - k + 1
      /\ \A j \in 1..Len(todo) : todo[j] = P[k + j - 1]
  BY <1>1
<1>3. Head(todo) = P[k]
  BY <1>1, <1>2
<1> DEFINE t == Tail(todo)
           u == SubSeq(P, k + 1, Len(P))
<1>4. t \in Seq(S) /\ Len(t) = Len(P) - k /\ \A j \in 1..Len(t) : t[j] = todo[j + 1]
  <2>1. Len(todo) > 0
    BY <1>1, <1>2
  <2>2. t \in Seq(S) /\ Len(t) = Len(todo) - 1 /\ \A j \in 1..(Len(todo) - 1) : t[j] = todo[j + 1]
    BY <1>2, <2>1, TailOf
  <2> QED BY <1>1, <1>2, <2>2
<1>5. u \in Seq(S) /\ Len(u) = Len(P) - k /\ \A j \in 1..Len(u) : u[j] = P[k + j]
  BY <1>1
<1> HIDE DEF t, u
<1>6. \A j \in 1..Len(t) : t[j] = u[j]
  <2> TAKE j \in 1..Len(t)
  <2>1. j \in Nat /\ j + 1 \in 1..Len(todo) /\ k + (j + 1) - 1 = k + j
    BY <1>1, <1>2, <1>4
  <2>2. t[j] = P[k + (j + 1) - 1] /\ u[j] = P[k + j]
    BY <1>2, <1>4, <1>5, <2>1
  <2> QED BY <2>1, <2>2
<1>7. t = u
  BY <1>4, <1>5, <1>6, SeqEqual
<1> QED BY <1>2, <1>3, <1>7 DEF t, u

\* A call with something else left to do.
LEMMA OnlyTodo ==
  ASSUME NEW r, NEW a, NEW b, NEW c, r = [index |-> a, todo |-> b, old |-> c], NEW t
  PROVE  [r EXCEPT !.todo = t] = [index |-> a, todo |-> t, old |-> c]
<1>1. [[index |-> a, todo |-> b, old |-> c] EXCEPT !.todo = t]
        = [index |-> a, todo |-> t, old |-> c]
  OBVIOUS
<1> QED BY <1>1

\* A builder is about to do step k.
Ready(o, i, content, k) ==
  /\ Fits(o) /\ i \in Columns \X Kinds /\ content.data \in Seq(Range(content.data))
  /\ i[2] = "BITMAP" => content.enum \in Seq(Range(content.enum)) /\ content.width \in Nat
  /\ gen \in Nat /\ nrows \in Nat /\ \A m \in Names : Dated(o[m], gen)
  /\ k \in 1..Len(Program(i[2])) /\ Built(o, i, k, content, gen, nrows)

\* It has done it.
DoneIn(p, o, i, content, k) ==
  /\ Fits(p) /\ \A m \in Names : Dated(p[m], gen)
  /\ \A m \in Names \ {i, ValuesOf(i)} : p[m] = o[m]
  /\ i[2] # "BITMAP" => p[ValuesOf(i)] = o[ValuesOf(i)]
  /\ Built(p, i, k + 1, content, gen, nrows)

\* What a builder that is ready writes.
LEMMA ReadyWrites ==
  ASSUME NEW o, NEW i, NEW content, NEW k, Ready(o, i, content, k)
  PROVE  DoneIn(AfterWrite(o, i, Program(i[2])[k], content), o, i, content, k)
<1> DEFINE step == Program(i[2])[k]
           p == AfterWrite(o, i, step, content)
<1>1. p = AfterWrite(o, i, step, content) /\ step = Program(i[2])[k]
  OBVIOUS
<1> HIDE DEF p, step
<1>2. /\ Fits(p) /\ \A m \in Names : Dated(p[m], gen)
      /\ \A m \in Names \ {i, ValuesOf(i)} : p[m] = o[m]
      /\ i[2] # "BITMAP" => p[ValuesOf(i)] = o[ValuesOf(i)]
      /\ Built(p, i, k + 1, content, gen, nrows)
  BY <1>1, OneWrite DEF Ready
<1> QED BY <1>2, Zenon DEF DoneIn, p, step

\* The running builder does step k of its program.
Stepped(i, P, k) ==
  /\ i \in Columns \X Kinds /\ P = Program(i[2]) /\ k \in 1..Len(P) /\ Len(P) \in Nat
  /\ WellPlaced(i[2], P, k)
  /\ Built(obj, i, k, ContentOf(i), gen, nrows)
  /\ Built(obj', i, k + 1, ContentOf(i), gen, nrows)
  /\ gen \in Nat /\ gen # None
  /\ Fits(obj') /\ \A m \in Names : Dated(obj'[m], gen)
  /\ \A m \in Names \ {i, ValuesOf(i)} : obj'[m] = obj[m]
  /\ i[2] # "BITMAP" => obj'[ValuesOf(i)] = obj[ValuesOf(i)]
  /\ call' = IF k = Len(P) THEN NoCall
             ELSE [index |-> i, todo |-> SubSeq(P, k + 1, Len(P)), old |-> call.old]
  /\ links' = CASE P[k] = "unlink" -> [links EXCEPT ![i[1]] = <<>>]
                [] P[k] = "link"   -> [links EXCEPT ![i[1]] = Append(call.old, i)]
                [] OTHER -> links
  /\ UNCHANGED <<col, fill, gen, plant, killed>>

\* It does.
LEMMA BuilderSteps ==
  ASSUME Typed, BuildStep
  PROVE  \E k \in 1..Len(Program(call.index[2])) : Stepped(call.index, Program(call.index[2]), k)
<1> DEFINE i == call.index
           P == Program(i[2])
           v == ValuesOf(i)
           content == ContentOf(i)
           step == Head(call.todo)
<1>1. /\ ~Idle
      /\ call' = IF Len(call.todo) = 1 THEN NoCall ELSE [call EXCEPT !.todo = Tail(@)]
      /\ obj' = [obj EXCEPT ![i] = Written(@, step, i, content),
                            ![v] = WrittenValues(@, step, content)]
      /\ links' = CASE step = "unlink" -> [links EXCEPT ![i[1]] = <<>>]
                    [] step = "link"   -> [links EXCEPT ![i[1]] = Append(call.old, i)]
                    [] OTHER -> links
      /\ UNCHANGED <<col, fill, gen, plant, killed>>
  BY Zenon DEF BuildStep, ValuesOf, ContentOf
<1>2. /\ call = [index |-> call.index, todo |-> call.todo, old |-> call.old]
      /\ i \in Columns \X Kinds /\ gen # None
  BY <1>1 DEF Typed, BuilderFits
<1>3. PICK k \in 1..Len(P) : /\ call.todo = SubSeq(P, k, Len(P))
                             /\ Built(obj, i, k, content, gen, nrows)
  BY <1>1, Zenon DEF Typed, BuilderFits
<1>4. i[1] \in Columns /\ i[2] \in Kinds /\ i \in Names /\ v \in Names /\ v # i
  BY <1>2, IndexNames
<1>5. P \in Seq(Steps) /\ Len(P) \in Nat
  BY <1>4, ProgramSeq
<1>6. WellPlaced(i[2], P, k)
  BY <1>4, InOrder
<1>7. /\ col[i[1]] \in Seq(Element) /\ fill[i[1]] \in FillValue /\ nrows \in Nat
  BY <1>4, ColumnTyped DEF Typed
<1>8. /\ content.data \in Seq(Range(content.data))
      /\ i[2] = "BITMAP" => content.enum \in Seq(Range(content.enum)) /\ content.width \in Nat
  BY <1>4, <1>7, ContentTyped DEF ContentOf
<1>9. gen \in Nat /\ Fits(obj) /\ \A m \in Names : Dated(obj[m], gen)
  BY <1>2 DEF Typed, DatasetsFit
<1> HIDE DEF i, P, v, content, step
<1>10. /\ Len(call.todo) = Len(P) - k + 1 /\ step = P[k]
       /\ Tail(call.todo) = SubSeq(P, k + 1, Len(P))
  BY <1>3, <1>5, Suffix DEF step
<1>11. obj' = [obj EXCEPT ![i] = Written(obj[i], step, i, content),
                          ![v] = WrittenValues(obj[v], step, content)]
  BY <1>1, <1>4, <1>9 DEF Fits
<1>12. /\ Fits(obj') /\ \A m \in Names : Dated(obj'[m], gen)
       /\ \A m \in Names \ {i, v} : obj'[m] = obj[m]
       /\ i[2] # "BITMAP" => obj'[v] = obj[v]
       /\ Built(obj', i, k + 1, content, gen, nrows)
  <2>1. obj' = AfterWrite(obj, i, Program(i[2])[k], content)
    BY <1>10, <1>11, Zenon DEF v, P, AfterWrite
  <2>2. Ready(obj, i, content, k)
    BY <1>2, <1>3, <1>7, <1>8, <1>9 DEF Ready, P, i
  <2>3. DoneIn(obj', obj, i, content, k)
    BY <2>1, <2>2, ReadyWrites, Zenon
  <2> QED BY <2>3, Zenon DEF DoneIn, v
<1>13. call' = IF k = Len(P) THEN NoCall
               ELSE [index |-> i, todo |-> SubSeq(P, k + 1, Len(P)), old |-> call.old]
  <2>1. Len(call.todo) = 1 <=> k = Len(P)
    BY <1>5, <1>10
  <2>2. [call EXCEPT !.todo = Tail(@)]
          = [index |-> i, todo |-> SubSeq(P, k + 1, Len(P)), old |-> call.old]
    <3>1. call = [index |-> i, todo |-> call.todo, old |-> call.old]
      BY <1>2 DEF i
    <3> QED BY <3>1, <1>10, OnlyTodo
  <2> QED BY <1>1, <2>1, <2>2
<1>14. Stepped(i, P, k)
  BY <1>1, <1>2, <1>3, <1>5, <1>6, <1>9, <1>10, <1>12, <1>13 DEF Stepped, P, v, content
<1> QED BY <1>14 DEF i, P

\* Index i is on file as its builder completes it.
Complete(o, i, rows, f, content, g, k) ==
  /\ Fits(o) /\ i \in Columns \X Kinds /\ rows \in Seq(Element) /\ Len(rows) <= MaxRows
  /\ f \in FillValue /\ content = compute_index_content(i[2], rows, f)
  /\ k \in Nat /\ k <= Len(Program(i[2])) + 1 /\ Wrote(i[2], k, "SOURCE_NROWS")
  /\ Built(o, i, k, content, g, Len(rows))

\* It describes its column.
Right(o, i, rows, f, g) ==
  /\ check_index(o, i, rows, f, TRUE)
  /\ o[i].kind = i[2] /\ o[i].dtype = "right" /\ o[i].sg = g /\ o[i].sn = Len(rows)
  /\ i[2] = "BITMAP" => o[i].values = ValuesOf(i) /\ o[ValuesOf(i)].kind = None

\* The one gives the other.
LEMMA CompleteRight ==
  ASSUME NEW o, NEW i, NEW rows, NEW f, NEW content, NEW g, NEW k,
         Complete(o, i, rows, f, content, g, k)
  PROVE  Right(o, i, rows, f, g)
BY CompletePasses, Zenon DEF Complete, Right

\* What is complete after a step passes the deep check.
LEMMA StepPasses ==
  ASSUME Typed, NEW i, NEW P, NEW k, Stepped(i, P, k), Wrote(i[2], k + 1, "SOURCE_NROWS")
  PROVE  /\ check_index(obj', i, col[i[1]], fill[i[1]], TRUE)
         /\ obj'[i].kind = i[2] /\ obj'[i].dtype = "right"
         /\ obj'[i].sg = gen /\ obj'[i].sn = nrows
         /\ i[2] = "BITMAP" => obj'[i].values = ValuesOf(i) /\ obj'[ValuesOf(i)].kind = None
<1>1. /\ i \in Columns \X Kinds /\ k \in Nat /\ k <= Len(Program(i[2])) /\ Fits(obj')
      /\ Len(Program(i[2])) \in Nat
      /\ Built(obj', i, k + 1, ContentOf(i), gen, nrows)
  BY DEF Stepped
<1>2. i[1] \in Columns /\ i[2] \in Kinds
  BY <1>1
<1>3. /\ col[i[1]] \in Seq(Element) /\ fill[i[1]] \in FillValue
      /\ nrows = Len(col[i[1]]) /\ nrows <= MaxRows
  BY <1>2, ColumnTyped DEF Typed, ColumnsFit
<1>4. k + 1 \in Nat /\ k + 1 <= Len(Program(i[2])) + 1
  BY <1>1
<1>5. Complete(obj', i, col[i[1]], fill[i[1]], ContentOf(i), gen, k + 1)
  <2>1. Built(obj', i, k + 1, ContentOf(i), gen, Len(col[i[1]]))
    BY <1>1, <1>3, Zenon
  <2>2. Len(col[i[1]]) <= MaxRows
    BY <1>3
  <2> QED BY <1>1, <1>3, <1>4, <2>1, <2>2, Zenon DEF Complete, ContentOf
<1>6. Right(obj', i, col[i[1]], fill[i[1]], gen)
  BY <1>5, CompleteRight, Zenon
<1> QED BY <1>3, <1>6, Zenon DEF Right

\* A list of links and one more.
LEMMA OneLinkMore ==
  ASSUME NEW o, NEW list, NEW c, NEW b, IsLinks(o, list, c, b), NEW i \in Names, i[1] = c,
         NEW b2, b2 \notin Names, o[i].dtype # "absent", o[i].kind # None
  PROVE  IsLinks(o, Append(list, i), c, b2)
<1> DEFINE s == Append(list, i)
<1>1. list \in Seq(Names) /\ Len(list) \in Nat
  BY DEF IsLinks
<1>2. s \in Seq(Names) /\ DOMAIN s = 1..(Len(list) + 1)
  BY <1>1
<1>3. \A j \in 1..(Len(list) + 1) : s[j] = i \/ (j \in DOMAIN list /\ s[j] = list[j])
  BY <1>1
<1> HIDE DEF s
<1>4. \A j \in DOMAIN s : s[j] = i \/ (j \in DOMAIN list /\ s[j] = list[j])
  BY <1>2, <1>3
<1>5. \A j \in DOMAIN s : /\ s[j][1] = c /\ s[j] # b2 /\ o[s[j]].dtype # "absent"
                          /\ o[s[j]].kind # None
  <2> TAKE j \in DOMAIN s
  <2>1. s[j] \in Names
    BY <1>2
  <2> QED BY <2>1, <1>4 DEF IsLinks
<1>6. IsLinks(o, s, c, b2)
  BY <1>2, <1>5 DEF IsLinks
<1> QED BY <1>6 DEF s

\* A step keeps the types.
LEMMA StepTyped ==
  ASSUME Typed, ~Idle, NEW k, Stepped(call.index, Program(call.index[2]), k)
  PROVE  Typed'
<1> DEFINE i == call.index
           P == Program(i[2])
           v == ValuesOf(i)
           c == i[1]
           o == obj'
<1>1. /\ i \in Columns \X Kinds /\ i \in Names /\ v \in Names /\ c \in Columns /\ i[2] \in Kinds
  <2>1. i \in Columns \X Kinds
    BY DEF Stepped
  <2> QED BY <2>1, IndexNames
<1>2. /\ col' = col /\ fill' = fill /\ gen' = gen /\ nrows' = nrows
      /\ Fits(obj') /\ \A m \in Names : Dated(obj'[m], gen)
      /\ gen \in Nat /\ gen # None
      /\ k \in 1..Len(P) /\ Len(P) \in Nat
      /\ P[k] = "link" <=> k = Len(P)
  BY DEF Stepped, nrows, WellPlaced
<1>3. ColumnsFit'
  BY <1>2 DEF Typed, ColumnsFit, nrows
<1>4. DatasetsFit'
  BY <1>2 DEF Typed, DatasetsFit
<1>5. \A m \in Names : m # i /\ obj[m].dtype # "absent" /\ obj[m].kind # None =>
        m # i /\ o[m].dtype # "absent" /\ o[m].kind # None
  <2>1. \A m \in Names \ {i, v} : o[m] = obj[m]
    BY DEF Stepped
  <2>2. i[2] # "BITMAP" => o[v] = obj[v]
    BY DEF Stepped
  <2>3. i[2] = "BITMAP" => obj[v].kind = None
    BY DEF Stepped, Built
  <2> QED BY <2>1, <2>2, <2>3
<1>6. \A d \in Columns : IsLinks(obj, links[d], d, i)
  BY DEF Typed, LinksFit
<1>7. /\ call = [index |-> call.index, todo |-> call.todo, old |-> call.old]
      /\ IsLinks(obj, call.old, c, i)
  BY DEF Typed, BuilderFits
<1>8. /\ links' = CASE P[k] = "unlink" -> [links EXCEPT ![c] = <<>>]
                    [] P[k] = "link"   -> [links EXCEPT ![c] = Append(call.old, i)]
                    [] OTHER -> links
      /\ call' = IF k = Len(P) THEN NoCall
                 ELSE [index |-> i, todo |-> SubSeq(P, k + 1, Len(P)), old |-> call.old]
  BY Zenon DEF Stepped
<1>9. links = [d \in Columns |-> links[d]]
  BY DEF Typed, LinksFit
<1>10. NoCall.index = NoName /\ NoName \notin Names
  BY IndexFileAssumption DEF NoCall
<1> HIDE DEF o
<1>11. \A d \in Columns : IsLinks(o, links[d], d, i)
  BY <1>5, <1>6, LinksStay
<1>12. IsLinks(o, call.old, c, i)
  BY <1>5, <1>7, LinksStay
<1>13. CASE k = Len(P)
  <2>1. P[k] = "link" /\ ~(P[k] = "unlink")
    BY <1>2, <1>13
  <2>2. links' = [links EXCEPT ![c] = Append(call.old, i)] /\ call' = NoCall
    BY <1>8, <1>13, <2>1, Zenon
  <2>3. Wrote(i[2], k + 1, "SOURCE_NROWS")
    <3>1. Wrote(i[2], k, "SOURCE_NROWS")
      BY <2>1 DEF Stepped, WellPlaced
    <3> QED BY <3>1, <1>2, WroteNext
  <2>4. o[i].kind = i[2] /\ o[i].dtype = "right"
    BY <2>3, StepPasses DEF o
  <2>5. o[i].kind # None
    BY <1>1, <2>4, IndexFileAssumption DEF SEARCH_INDEX_KINDS
  <2> DEFINE new == Append(call.old, i)
  <2>6. IsLinks(o, new, c, NoName)
    BY <1>1, <1>10, <1>12, <2>4, <2>5, OneLinkMore
  <2> HIDE DEF new
  <2>7. \A d \in Columns : IsLinks(o, links'[d], d, NoName)
    <3> TAKE d \in Columns
    <3>1. CASE d = c
      BY <1>9, <2>2, <2>6, <3>1 DEF new
    <3>2. CASE d # c
      <4>1. links'[d] = links[d]
        BY <1>9, <2>2, <3>2
      <4>2. IsLinks(o, links[d], d, NoName)
        BY <1>10, <1>11 DEF IsLinks
      <4> QED BY <4>1, <4>2
    <3> QED BY <3>1, <3>2
  <2>8. LinksFit'
    BY <1>9, <1>10, <2>2, <2>7 DEF LinksFit, o
  <2>9. BuilderFits'
    BY <2>2 DEF BuilderFits, Idle
  <2> QED BY <1>3, <1>4, <2>8, <2>9 DEF Typed
<1>14. CASE k # Len(P)
  <2>1. P[k] # "link" /\ k + 1 \in 1..Len(P)
    BY <1>2, <1>14
  <2>2. call' = [index |-> i, todo |-> SubSeq(P, k + 1, Len(P)), old |-> call.old]
    BY <1>8, <1>14
  <2>3. links' = [links EXCEPT ![c] = <<>>] \/ links' = links
    BY <1>8, <2>1, Zenon
  <2>4. IsLinks(o, <<>>, c, i)
    BY DEF IsLinks
  <2>5. \A d \in Columns : IsLinks(o, links'[d], d, i)
    <3> TAKE d \in Columns
    <3>1. links'[d] = links[d] \/ (d = c /\ links'[d] = <<>>)
      BY <1>9, <2>3
    <3> QED BY <3>1, <1>11, <2>4
  <2>6. links' = [d \in Columns |-> links'[d]]
    BY <1>9, <2>3
  <2>7. call'.index = i
    BY <2>2
  <2>8. LinksFit'
    BY <2>5, <2>6, <2>7 DEF LinksFit, o
  <2>9. BuilderFits'
    <3>1. Built(obj', i, k + 1, ContentOf(i), gen, nrows)
      BY DEF Stepped
    <3>2. compute_index_content(i[2], col'[i[1]], fill'[i[1]]) = ContentOf(i)
      BY <1>2 DEF ContentOf
    <3>3. /\ call' = [index |-> call'.index, todo |-> call'.todo, old |-> call'.old]
          /\ call'.todo = SubSeq(P, k + 1, Len(P)) /\ call'.old = call.old
      BY <2>2
    <3> QED BY <1>1, <1>2, <1>12, <2>1, <2>7, <3>1, <3>2, <3>3 DEF BuilderFits, ContentOf, P, o, c, nrows
  <2> QED BY <1>3, <1>4, <2>8, <2>9 DEF Typed
<1> QED BY <1>13, <1>14

-----------------------------------------------------------------------------
(* A builder fails or dies.                                                *)

\* What is not there fits everywhere.
LEMMA AbsentFits ==
  /\ IsDataset(Absent) /\ Absent.kind = None /\ Absent.values = NoName
  /\ Absent.dtype = "absent" /\ Absent.sg = None /\ Absent.sn = None
  /\ \A g : Dated(Absent, g)
  /\ None \notin Kinds /\ None \notin Nat
<1>1. Absent = [x \in DOMAIN Bare |-> Absent[x]]
  BY DEF Absent, Bare
<1>2. /\ Absent.kind = None /\ Absent.values = NoName /\ Absent.dtype = "absent"
      /\ Absent.sg = None /\ Absent.sn = None /\ Absent.data = <<>>
      /\ Absent.width = 0 /\ Absent.limit = Endless /\ Absent.top = Endless
  BY DEF Absent, Bare
<1>3. <<>> \in Seq({})
  OBVIOUS
<1>4. Absent.data \in Seq(Range(Absent.data))
  <2>1. <<>> \in Seq(Range(<<>>))
    BY <1>3, OwnElements
  <2> QED BY <1>2, <2>1
<1>5. Endless \in Nat /\ None \notin Nat /\ None \notin Kinds
  BY IndexFileAssumption DEF SEARCH_INDEX_KINDS
<1>6. IsDataset(Absent)
  BY <1>1, <1>2, <1>4, <1>5 DEF IsDataset
<1>7. \A g : Dated(Absent, g)
  BY <1>2 DEF Dated
<1> QED BY <1>2, <1>5, <1>6, <1>7

\* What a failing builder takes away is not linked.
LEMMA FailTyped ==
  ASSUME Typed, BuildFails
  PROVE  Typed'
<1> DEFINE i == call.index
           c == i[1]
           made == {i} \cup (IF i[2] = "BITMAP" THEN {ValuesOf(i)} ELSE {})
           o == obj'
<1>1. /\ ~Idle /\ obj' = [m \in Names |-> IF m \in made THEN Absent ELSE obj[m]]
      /\ links' = [links EXCEPT ![c] = call.old] /\ call' = NoCall
      /\ UNCHANGED <<col, fill, gen, plant, killed>>
  BY DEF BuildFails, ValuesOf
<1>2. i \in Columns \X Kinds /\ IsLinks(obj, call.old, c, i)
  BY <1>1 DEF Typed, BuilderFits
<1>3. i \in Names /\ c \in Columns
  BY <1>2, IndexNames
<1>4. i[2] = "BITMAP" => obj[ValuesOf(i)].kind = None
  BY <1>1 DEF Typed, BuilderFits, Built
<1>5. \A m \in Names : m # i /\ obj[m].dtype # "absent" /\ obj[m].kind # None =>
        m # NoName /\ o[m].dtype # "absent" /\ o[m].kind # None
  BY <1>1, <1>4, IndexFileAssumption
<1>6. \A m \in Names : o[m] = Absent \/ o[m] = obj[m]
  BY <1>1
<1>7. o = [m \in Names |-> o[m]]
  BY <1>1
<1> HIDE DEF o, made
<1>8. Fits(o) /\ \A m \in Names : Dated(o[m], gen)
  <2>1. Fits(obj) /\ \A m \in Names : Dated(obj[m], gen)
    BY DEF Typed, DatasetsFit
  <2>2. \A m \in Names : IsDataset(o[m]) /\ Named(o, m)
    BY <2>1, <1>6, AbsentFits DEF Fits, Named
  <2> QED BY <2>1, <2>2, <1>6, <1>7, AbsentFits DEF Fits
<1>9. \A d \in Columns : IsLinks(o, links[d], d, NoName)
  BY <1>5, LinksStay DEF Typed, LinksFit
<1>10. IsLinks(o, call.old, c, NoName)
  BY <1>2, <1>5, LinksStay
<1>11. links = [d \in Columns |-> links[d]] /\ NoCall.index = NoName
  BY DEF Typed, LinksFit, NoCall
<1>12. LinksFit'
  <2>1. links' = [d \in Columns |-> links'[d]] /\ call'.index = NoName
    BY <1>1, <1>11
  <2>2. \A d \in Columns : IsLinks(o, links'[d], d, NoName)
    <3> TAKE d \in Columns
    <3>1. links'[d] = links[d] \/ (d = c /\ links'[d] = call.old)
      BY <1>1, <1>11
    <3> QED BY <3>1, <1>9, <1>10
  <2> QED BY <2>1, <2>2 DEF LinksFit, o
<1>13. BuilderFits' /\ ColumnsFit'
  BY <1>1 DEF BuilderFits, Idle, Typed, ColumnsFit, nrows
<1>14. DatasetsFit'
  BY <1>1, <1>8 DEF Typed, DatasetsFit, o
<1> QED BY <1>12, <1>13, <1>14 DEF Typed

\* What a dead builder leaves are links that fit without it.
LEMMA DiesTyped ==
  ASSUME Typed, BuilderDies
  PROVE  Typed'
<1>1. call' = NoCall /\ UNCHANGED <<col, fill, gen, obj, links, plant>>
  BY DEF BuilderDies
<1>2. \A m \in Names : m # NoName
  BY IndexFileAssumption
<1>3. \A d \in Columns : IsLinks(obj, links[d], d, NoName)
  BY <1>2, LinksStay DEF Typed, LinksFit
<1>4. LinksFit' /\ BuilderFits'
  BY <1>1, <1>3 DEF Typed, LinksFit, BuilderFits, Idle, NoCall
<1> QED BY <1>1, <1>4 DEF Typed, ColumnsFit, DatasetsFit, nrows

-----------------------------------------------------------------------------
(* A call changes rows or rebuilds.                                        *)

\* The indexes are what they were or were rebuilt for these rows; with other
\* rows goes a new generation.
Kept(rows) ==
  /\ Idle /\ UNCHANGED <<fill, links, call, plant, killed>>
  /\ col' = rows /\ rows \in [Columns -> Seq(Cells)]
  /\ \A c \in Columns : Len(rows[c]) = Len(rows[c0])
  /\ Len(rows[c0]) <= MaxRows
  /\ gen' \in Nat \cup {None}
  /\ gen # None => gen' # None /\ gen' >= gen /\ (gen' > gen \/ rows = col)
  /\ obj' = obj \/ (gen' # None /\ Tended(obj', rows, gen'))

\* Rebuilt datasets are datasets, linked and dated as before.
LEMMA TendedTyped ==
  ASSUME Typed, NEW rows, NEW q, NEW g \in Nat, Tended(q, rows, g), gen # None => gen <= g
  PROVE  /\ Fits(q) /\ \A m \in Names : Dated(q[m], g)
         /\ \A c \in Columns : IsLinks(q, links[c], c, call.index)
<1>1. Fits(q) /\ \A m \in Names : SameShape(q[m], obj[m])
  BY DEF Tended
<1>2. ASSUME NEW m \in Names PROVE Dated(q[m], g)
  <2>1. CASE obj[m].dtype = "absent"
    <3>1. q[m] = Absent
      BY <2>1 DEF Tended, Typed, DatasetsFit, Dated
    <3> QED BY <3>1, AbsentFits
  <2>2. CASE obj[m].dtype # "absent"
    <3>1. gen # None /\ gen \in Nat /\ Dated(obj[m], gen)
      BY <2>2, AbsentFits DEF Typed, DatasetsFit, Dated
    <3>2. q[m].dtype # "absent" /\ g # None
      BY <1>1, <2>2, AbsentFits DEF SameShape
    <3>3. q[m].sg = obj[m].sg \/ q[m].sg = g
      BY DEF Tended, Same
    <3>4. IsDataset(obj[m])
      BY DEF Typed, DatasetsFit, Fits
    <3> QED BY <3>1, <3>2, <3>3, <3>4 DEF Dated, IsDataset
  <2> QED BY <2>1, <2>2
<1>3. \A m \in Names : m # call.index /\ obj[m].dtype # "absent" /\ obj[m].kind # None =>
        m # call.index /\ q[m].dtype # "absent" /\ q[m].kind # None
  BY <1>1 DEF SameShape
<1>4. \A c \in Columns : IsLinks(q, links[c], c, call.index)
  BY <1>3, LinksStay DEF Typed, LinksFit
<1> QED BY <1>1, <1>2, <1>4

\* Such a call keeps the types.
LEMMA KeptTyped ==
  ASSUME Typed, NEW rows, Kept(rows)
  PROVE  Typed'
<1>1. ColumnsFit'
  BY DEF Kept, Typed, ColumnsFit, nrows
<1>2. /\ Fits(obj') /\ \A m \in Names : Dated(obj'[m], gen')
      /\ \A c \in Columns : IsLinks(obj', links[c], c, call.index)
  <2>1. CASE obj' = obj
    <3>1. ASSUME NEW m \in Names PROVE Dated(obj[m], gen')
      <4>1. Dated(obj[m], gen) /\ IsDataset(obj[m]) /\ gen \in Nat \cup {None}
        BY DEF Typed, DatasetsFit, Fits
      <4>2. CASE gen = None
        <5>1. obj[m] = Absent
          BY <4>1, <4>2 DEF Dated
        <5> QED BY <5>1, AbsentFits
      <4>3. CASE gen # None
        <5>1. gen' # None /\ gen' >= gen /\ gen' \in Nat /\ gen \in Nat
          BY <4>1, <4>3 DEF Kept
        <5> QED BY <5>1, <4>1, <4>3 DEF Dated, IsDataset
      <4> QED BY <4>2, <4>3
    <3> QED BY <2>1, <3>1 DEF Typed, DatasetsFit, LinksFit
  <2>2. CASE obj' # obj
    <3> DEFINE q == obj'
               g == gen'
    <3>1. /\ g \in Nat /\ Tended(q, rows, g) /\ (gen # None => gen <= g)
      <4>1. g # None /\ Tended(q, rows, g) /\ g \in Nat \cup {None}
        BY <2>2 DEF Kept
      <4>2. gen # None => g >= gen
        BY DEF Kept
      <4>3. gen \in Nat \cup {None}
        BY DEF Typed, DatasetsFit
      <4> QED BY <4>1, <4>2, <4>3
    <3> HIDE DEF q, g
    <3>2. /\ Fits(q) /\ \A m \in Names : Dated(q[m], g)
          /\ \A c \in Columns : IsLinks(q, links[c], c, call.index)
      BY <3>1, TendedTyped
    <3> QED BY <3>2 DEF q, g
  <2> QED BY <2>1, <2>2
<1>3. links' = links /\ call' = call /\ Idle /\ gen' \in Nat \cup {None}
  BY DEF Kept
<1>4. DatasetsFit' /\ LinksFit' /\ BuilderFits'
  BY <1>2, <1>3 DEF Typed, DatasetsFit, LinksFit, BuilderFits, Idle
<1> QED BY <1>1, <1>4 DEF Typed

\* A mutation is such a call.
LEMMA MutateKept ==
  ASSUME Typed, NEW rows, rows \in [Columns -> Seq(Cells)],
         \A c \in Columns : Len(rows[c]) = Len(rows[c0]), Len(rows[c0]) <= MaxRows,
         NEW maintain, Mutate(rows, maintain)
  PROVE  Kept(rows)
<1>1. /\ Idle /\ UNCHANGED <<fill, links, call, plant, killed>> /\ col' = rows
      /\ gen' = IF gen = None THEN None ELSE gen + 1
      /\ obj' = IF maintain /\ gen' # None THEN append_refresh_indexes(rows) ELSE obj
  BY DEF Mutate
<1>2. gen \in Nat \cup {None} /\ None \notin Nat /\ LinksFit /\ Fits(obj)
  BY AbsentFits DEF Typed, DatasetsFit
<1>3. \A c \in Columns : rows[c] \in Seq(Element) /\ fill[c] \in FillValue
  <2>1. Cells \subseteq Element
    BY IndexFileAssumption DEF Element
  <2> QED BY <2>1, ColumnTyped DEF Typed
<1>4. CASE gen = None
  <2>1. gen' = None /\ obj' = obj
    BY <1>1, <1>4
  <2> QED BY <1>1, <1>4, <2>1 DEF Kept
<1>5. CASE gen # None
  <2> DEFINE g == gen + 1
             U == UNION {Linked(c) : c \in Columns}
  <2>1. gen' = g /\ g \in Nat /\ g # None /\ g > gen /\ g >= gen
    BY <1>1, <1>2, <1>5
  <2>2. obj' = obj \/ obj' = Rebuilt(U, rows, g, TRUE)
    BY <1>1, Zenon DEF append_refresh_indexes
  <2>3. U \subseteq Names
    BY <1>2, LinkedIndexes
  <2> HIDE DEF g, U
  <2>4. Tended(Rebuilt(U, rows, g, TRUE), rows, g)
    BY <1>2, <1>3, <2>1, <2>3, RebuiltTends
  <2>5. obj' = obj \/ Tended(obj', rows, gen')
    BY <2>1, <2>2, <2>4
  <2> QED BY <1>1, <2>1, <2>5 DEF Kept
<1> QED BY <1>4, <1>5

\* The columns of a table, and the first.
LEMMA FirstColumn == c0 \in Columns
BY IndexFileAssumption DEF c0

\* One list after another.
LEMMA BothLists ==
  ASSUME NEW S, NEW a \in Seq(S), NEW b \in Seq(S)
  PROVE  a \o b \in Seq(S) /\ Len(a \o b) = Len(a) + Len(b)
OBVIOUS

\* Table.append.
LEMMA AppendKept ==
  ASSUME Typed, NEW new \in [Columns -> [1..1 -> Cells]], NEW maintain, append(new, maintain)
  PROVE  \E rows : Kept(rows)
<1> DEFINE rows == [c \in Columns |-> col[c] \o new[c]]
<1>1. Mutate(rows, maintain) /\ nrows + Len(new[c0]) <= MaxRows
  BY DEF append
<1>2. \A c \in Columns : new[c] \in Seq(Cells) /\ Len(new[c]) = 1
  <2> TAKE c \in Columns
  <2> DEFINE one == new[c]
  <2>1. one \in [1..1 -> Cells]
    OBVIOUS
  <2> HIDE DEF one
  <2>2. one \in Seq(Cells)
    BY <2>1, FunctionIsSeq
  <2>3. Len(one) = 1
    BY <2>1
  <2> QED BY <2>2, <2>3 DEF one
<1>3. \A c \in Columns : col[c] \in Seq(Cells) /\ Len(col[c]) = nrows /\ nrows \in Nat
  BY ColumnTyped DEF Typed, ColumnsFit
<1>4. ASSUME NEW c \in Columns PROVE rows[c] \in Seq(Cells) /\ Len(rows[c]) = nrows + 1
  <2> DEFINE a == col[c]
             b == new[c]
  <2>1. a \in Seq(Cells) /\ Len(a) = nrows /\ b \in Seq(Cells) /\ Len(b) = 1 /\ rows[c] = a \o b
    BY <1>2, <1>3
  <2> HIDE DEF a, b, rows
  <2>2. a \o b \in Seq(Cells) /\ Len(a \o b) = Len(a) + Len(b)
    BY <2>1, BothLists
  <2> QED BY <2>1, <2>2
<1>5. rows \in [Columns -> Seq(Cells)]
  BY <1>4
<1> HIDE DEF rows
<1>6. (\A c \in Columns : Len(rows[c]) = Len(rows[c0])) /\ Len(rows[c0]) <= MaxRows
  BY <1>1, <1>2, <1>4, FirstColumn
<1> QED BY <1>1, <1>5, <1>6, MutateKept

\* Table.truncate.
LEMMA TruncateKept ==
  ASSUME Typed, NEW n \in 0..MaxRows, NEW maintain, truncate(n, maintain)
  PROVE  \E rows : Kept(rows)
<1> DEFINE rows == [c \in Columns |-> SubSeq(col[c], 1, n)]
<1>1. Mutate(rows, maintain) /\ n < nrows
  BY DEF truncate
<1>2. MaxRows \in Nat
  BY IndexFileAssumption
<1>3. \A c \in Columns : col[c] \in Seq(Cells) /\ Len(col[c]) = nrows /\ nrows \in Nat
  BY ColumnTyped DEF Typed, ColumnsFit
<1>4. ASSUME NEW c \in Columns PROVE rows[c] \in Seq(Cells) /\ Len(rows[c]) = n
  <2>1. n \in Nat /\ n <= Len(col[c]) /\ col[c] \in Seq(Cells)
    BY <1>1, <1>2, <1>3
  <2>2. SubSeq(col[c], 1, n) \in Seq(Cells) /\ Len(SubSeq(col[c], 1, n)) = n
    BY <2>1, Beginning
  <2> QED BY <2>2
<1>5. rows \in [Columns -> Seq(Cells)]
  BY <1>4
<1> HIDE DEF rows
<1>6. (\A c \in Columns : Len(rows[c]) = Len(rows[c0])) /\ Len(rows[c0]) <= MaxRows
  BY <1>2, <1>4, FirstColumn
<1> QED BY <1>1, <1>5, <1>6, MutateKept

\* A refresh rebuilds some datasets for the rows there are.
LEMMA RefreshKept ==
  ASSUME Typed, Idle, NEW indexes, indexes \subseteq Names, gen' = ensure_generation,
         obj' = Rebuilt(indexes, col, ensure_generation, FALSE),
         UNCHANGED <<col, fill, links, call, plant, killed>>
  PROVE  Kept(col)
<1> DEFINE g == ensure_generation
<1>1. g \in Nat /\ g # None /\ (gen # None => g = gen)
  BY Generation DEF Typed
<1>2. LinksFit /\ Fits(obj)
  BY DEF Typed, DatasetsFit
<1>3. \A c \in Columns : col[c] \in Seq(Element) /\ fill[c] \in FillValue
  BY ColumnTyped DEF Typed
<1> HIDE DEF g
<1>4. Tended(Rebuilt(indexes, col, g, FALSE), col, g)
  BY <1>1, <1>2, <1>3, RebuiltTends
<1>5. Tended(obj', col, gen')
  BY <1>4 DEF g
<1>6. gen' \in Nat /\ gen' # None /\ (gen # None => gen' >= gen)
  BY <1>1 DEF g
<1>7. /\ col \in [Columns -> Seq(Cells)] /\ \A c \in Columns : Len(col[c]) = Len(col[c0])
      /\ Len(col[c0]) <= MaxRows
  BY DEF Typed, ColumnsFit, nrows
<1> QED BY <1>5, <1>6, <1>7 DEF Kept

\* refresh_index.
LEMMA IndexKept ==
  ASSUME Typed, NEW i \in Names, refresh_index(i)
  PROVE  \E rows : Kept(rows)
<1>1. /\ Idle /\ gen' = ensure_generation /\ obj' = Rebuilt({i}, col, gen', FALSE)
      /\ UNCHANGED <<col, fill, links, call, plant, killed>>
  BY DEF refresh_index
<1> DEFINE indexes == {i}
<1>2. obj' = Rebuilt(indexes, col, ensure_generation, FALSE)
  BY <1>1
<1>3. indexes \subseteq Names
  OBVIOUS
<1> HIDE DEF indexes
<1> QED BY <1>1, <1>2, <1>3, RefreshKept

\* refresh_all_indexes.
LEMMA AllKept ==
  ASSUME Typed, refresh_all_indexes
  PROVE  \E rows : Kept(rows)
<1>1. /\ Idle /\ gen' = ensure_generation
      /\ obj' = Rebuilt(search_index_datasets, col, gen', FALSE)
      /\ UNCHANGED <<col, fill, links, call, plant, killed>>
  BY DEF refresh_all_indexes
<1>2. obj' = Rebuilt(search_index_datasets, col, ensure_generation, FALSE)
  BY <1>1
<1>3. search_index_datasets \subseteq Names
  BY DEF search_index_datasets, Members
<1> QED BY <1>1, <1>2, <1>3, RefreshKept

\* Every step is a builder's, such a call, or none.
LEMMA NextSteps ==
  ASSUME Typed, [Next]_vars
  PROVE  \/ \E c \in Columns, kind \in Kinds : BeginBuild(c, kind)
         \/ \E k : ~Idle /\ Stepped(call.index, Program(call.index[2]), k)
         \/ BuildFails \/ BuilderDies
         \/ \E rows : Kept(rows)
         \/ UNCHANGED vars
<1>1. CASE BuildStep
  BY <1>1, BuilderSteps DEF BuildStep
<1>2. CASE \E new \in [Columns -> [1..1 -> Cells]], maintain \in BOOLEAN : append(new, maintain)
  BY <1>2, AppendKept
<1>3. CASE \E n \in 0..MaxRows, maintain \in BOOLEAN : truncate(n, maintain)
  BY <1>3, TruncateKept
<1>4. CASE \E i \in Names : refresh_index(i)
  BY <1>4, IndexKept
<1>5. CASE refresh_all_indexes
  BY <1>5, AllKept
<1> QED BY <1>1, <1>2, <1>3, <1>4, <1>5 DEF Next

\* The types are kept.
LEMMA NextTyped ==
  ASSUME Typed, [Next]_vars
  PROVE  Typed'
<1>1. CASE UNCHANGED vars
  BY <1>1 DEF Typed, ColumnsFit, DatasetsFit, LinksFit, BuilderFits, ContentOf, Idle, nrows, vars
<1> QED BY <1>1, NextSteps, BuildBegins, StepTyped, FailTyped, DiesTyped, KeptTyped

-----------------------------------------------------------------------------
(* What another producer may have left.                                    *)

\* A dataset with other data.
LEMMA OtherData ==
  ASSUME NEW d, IsDataset(d), NEW S, NEW data \in Seq(S), NEW e, e = [d EXCEPT !.data = data]
  PROVE  /\ IsDataset(e) /\ e.data = data
         /\ \A x \in DOMAIN Bare \ {"data"} : e[x] = d[x]
<1>1. d = [x \in DOMAIN Bare |-> d[x]]
  BY DEF IsDataset
<1>2. data \in Seq(Range(data))
  BY OwnElements
<1>3. e = [x \in DOMAIN Bare |-> e[x]] /\ e.data = data
      /\ \A x \in DOMAIN Bare \ {"data"} : e[x] = d[x]
  BY <1>1, BareFields
<1>4. /\ e.kind = d.kind /\ e.width = d.width /\ e.limit = d.limit /\ e.top = d.top
      /\ e.sg = d.sg /\ e.sn = d.sn
  BY <1>3, BareFields
<1>5. e.data \in Seq(Range(e.data))
  BY <1>2, <1>3
<1> QED BY <1>3, <1>4, <1>5, Zenon DEF IsDataset

\* An index as its builder completes it, without and with what it holds.
OurForm(d, kind, c, rows) ==
  /\ IsDataset(d) /\ d.kind = kind /\ d.dtype = "right" /\ d.sg = None
  /\ d.sn = Len(rows) /\ d.top = Endless
  /\ d.values = (IF kind = "BITMAP" THEN <<c, "values">> ELSE NoName)

OurData(d, kind, content) ==
  /\ d.data = content.data
  /\ kind = "SORTED_ROWS" => /\ d.fills = content.fills /\ d.nans = content.nans
                             /\ d.ordered = TRUE
  /\ kind = "BITMAP" => d.width = content.width /\ d.exhaustive = content.exhaustive

\* An index as its builder completes it is a dataset.
LEMMA OurContent ==
  ASSUME NEW kind \in Kinds, NEW c, NEW rows \in Seq(Element), fill[c] \in FillValue,
         NEW d, d = OurIndex(kind, c, rows),
         NEW content, content = compute_index_content(kind, rows, fill[c])
  PROVE  OurForm(d, kind, c, rows) /\ OurData(d, kind, content)
<1> DEFINE n == Len(rows)
           v == <<c, "values">>
           e == [Bare EXCEPT !.kind = kind, !.data = content.data, !.sn = n]
<1>1. /\ content.data \in Seq(Range(content.data))
      /\ kind = "BITMAP" => content.width \in Nat
  BY ContentTyped
<1>2. n \in Nat /\ Endless \in Nat /\ kind \in SEARCH_INDEX_KINDS
  BY RowsTyped, IndexFileAssumption DEF SEARCH_INDEX_KINDS
<1>3. /\ kind = "CHUNK_MINMAX" => d = e
      /\ kind = "SORTED_ROWS" =>
           d = [e EXCEPT !.fills = content.fills, !.nans = content.nans, !.ordered = TRUE]
      /\ kind = "BITMAP" =>
           d = [e EXCEPT !.width = content.width, !.values = v, !.ordered = TRUE,
                         !.exhaustive = content.exhaustive]
  <2>1. CASE kind = "CHUNK_MINMAX"
    BY <2>1 DEF OurIndex
  <2>2. CASE kind = "SORTED_ROWS"
    BY <2>2 DEF OurIndex
  <2>3. CASE kind = "BITMAP"
    BY <2>3 DEF OurIndex
  <2> QED BY <2>1, <2>2, <2>3 DEF Kinds
<1>4. /\ e = [x \in DOMAIN Bare |-> e[x]] /\ e.kind = kind /\ e.data = content.data /\ e.sn = n
      /\ e.dtype = "right" /\ e.sg = None /\ e.top = Endless /\ e.limit = Endless /\ e.width = 0
      /\ e.values = NoName
  BY DEF Bare
<1> HIDE DEF e, n, v
<1>5. CASE kind = "CHUNK_MINMAX"
  <2>1. d = e
    BY <1>3, <1>5
  <2> QED BY <2>1, <1>1, <1>2, <1>4, <1>5 DEF IsDataset, n, OurForm, OurData
<1>6. CASE kind = "SORTED_ROWS"
  <2>1. d = [e EXCEPT !.fills = content.fills, !.nans = content.nans, !.ordered = TRUE]
    BY <1>3, <1>6
  <2>2. /\ d = [x \in DOMAIN Bare |-> d[x]] /\ d.kind = kind /\ d.data = content.data /\ d.sn = n
        /\ d.dtype = "right" /\ d.sg = None /\ d.top = Endless /\ d.limit = Endless
        /\ d.width = 0 /\ d.values = NoName
        /\ d.fills = content.fills /\ d.nans = content.nans /\ d.ordered = TRUE
    BY <1>4, <2>1, BareFields
  <2> QED BY <2>2, <1>1, <1>2, <1>6 DEF IsDataset, n, OurForm, OurData
<1>7. CASE kind = "BITMAP"
  <2>1. d = [e EXCEPT !.width = content.width, !.values = v, !.ordered = TRUE,
                      !.exhaustive = content.exhaustive]
    BY <1>3, <1>7
  <2>2. /\ d = [x \in DOMAIN Bare |-> d[x]] /\ d.kind = kind /\ d.data = content.data /\ d.sn = n
        /\ d.dtype = "right" /\ d.sg = None /\ d.top = Endless /\ d.limit = Endless
        /\ d.width = content.width /\ d.values = v
        /\ d.ordered = TRUE /\ d.exhaustive = content.exhaustive
    BY <1>4, <2>1, BareFields
  <2> QED BY <2>2, <1>1, <1>2, <1>7 DEF IsDataset, n, v, OurForm, OurData
<1> QED BY <1>5, <1>6, <1>7 DEF Kinds

\* A list with one element replaced.
LEMMA OneReplaced ==
  ASSUME NEW S, NEW s \in Seq(S), NEW k, NEW x
  PROVE  [s EXCEPT ![k] = x] \in Seq(S \cup {x})
<1> DEFINE n == Len(s)
           t == [s EXCEPT ![k] = x]
<1>1. n \in Nat /\ s \in [1..n -> S]
  OBVIOUS
<1>2. t \in [1..n -> S \cup {x}]
  BY <1>1
<1> HIDE DEF n, t
<1>3. t \in Seq(S \cup {x})
  BY <1>1, <1>2, FunctionIsSeq
<1> QED BY <1>3 DEF t

\* That much of it does not depend on the content.
LEMMA OurFits ==
  ASSUME NEW kind \in Kinds, NEW c, NEW rows \in Seq(Element), fill[c] \in FillValue
  PROVE  OurForm(OurIndex(kind, c, rows), kind, c, rows)
BY OurContent, Zenon

\* What an alteration keeps of a dataset.
Alike(e, d) ==
  /\ IsDataset(e) /\ e.dtype # "absent" /\ e.sg = d.sg /\ e.sn = d.sn
  /\ e.kind \in {d.kind, "FUTURE_KIND", "CHUNK_BLOOM"} /\ e.values \in {d.values, NoName}

\* Whatever another producer does differently, it writes datasets.
LEMMA AlteredFits ==
  ASSUME NEW how, NEW d, IsDataset(d), d.dtype = "right", nrows \in Nat,
         NEW e, e = Altered(how, d)
  PROVE  Alike(e, d)
<1> DEFINE data == d.data
           last == Len(data)
           T == Range(data)
           n == nrows
<1>1. d = [x \in DOMAIN Bare |-> d[x]] /\ data \in Seq(T) /\ last \in Nat /\ Endless \in Nat
  BY IndexFileAssumption DEF IsDataset
<1>2. d.width \in Nat /\ d.limit \in Nat /\ d.top \in Nat /\ n \in Nat
  BY DEF IsDataset
<1>3. Alike(d, d)
  BY DEF Alike
<1>4. ASSUME NEW S, NEW other \in Seq(S), e = [d EXCEPT !.data = other] PROVE Alike(e, d)
  <2>1. IsDataset(e) /\ \A x \in DOMAIN Bare \ {"data"} : e[x] = d[x]
    BY <1>4, OtherData
  <2> QED BY <2>1, BareFields DEF Alike
<1> HIDE DEF data, last, T, n
<1>5. CASE how = "fixed"
  <2>1. e = [d EXCEPT !.limit = 0]
    BY <1>5, Zenon DEF Altered
  <2> QED BY <2>1, <1>1, BareFields DEF Alike, IsDataset
<1>6. CASE how = "longer"
  <2>1. CASE d.kind = "BITMAP"
    <3> DEFINE w == d.width + 1
    <3>1. e = [d EXCEPT !.width = w] /\ w \in Nat
      BY <1>2, <1>6, <2>1 DEF Altered
    <3> HIDE DEF w
    <3> QED BY <3>1, <1>1, <1>2, BareFields DEF Alike, IsDataset
  <2>2. CASE d.kind # "BITMAP"
    <3>1. e = [d EXCEPT !.data = Append(data, Zero)]
      BY <1>6, <2>2 DEF Altered, data
    <3>2. Append(data, Zero) \in Seq(T \cup {Zero})
      BY <1>1
    <3> QED BY <3>1, <3>2, <1>4
  <2> QED BY <2>1, <2>2
<1>7. CASE how = "short"
  <2>1. e = [d EXCEPT !.top = n]
    BY <1>7, Zenon DEF Altered, n
  <2> QED BY <2>1, <1>1, <1>2, BareFields DEF Alike, IsDataset
<1>8. CASE how \in {"partial", "overclaim"}
  <2>1. CASE d.kind = "BITMAP" /\ last > 0
    <3> DEFINE other == Tail(data)
               all == (how = "overclaim")
    <3>1. e = [d EXCEPT !.data = other, !.exhaustive = all, !.ordered = None]
      BY <1>8, <2>1 DEF Altered, data, last
    <3>2. other \in Seq(T)
      BY <1>1, <2>1, TailOf DEF last
    <3> HIDE DEF other, all
    <3>3. other \in Seq(Range(other))
      BY <3>2, OwnElements
    <3> QED BY <3>1, <3>3, <1>1, BareFields DEF Alike, IsDataset
  <2>2. CASE ~(d.kind = "BITMAP" /\ last > 0)
    <3>1. e = d
      BY <1>8, <2>2, Zenon DEF Altered, data, last
    <3> QED BY <3>1, <1>3
  <2> QED BY <2>1, <2>2
<1>9. CASE how \in {"future", "bloom"}
  <2>1. e = [d EXCEPT !.kind = "FUTURE_KIND"] \/ e = [d EXCEPT !.kind = "CHUNK_BLOOM"]
    BY <1>9, Zenon DEF Altered
  <2>2. "CHUNK_BLOOM" \in SEARCH_INDEX_KINDS
    BY DEF SEARCH_INDEX_KINDS
  <2> QED BY <2>1, <2>2, <1>1, BareFields DEF Alike, IsDataset
<1>10. CASE how \in {"dtype", "half"}
  <2>1. e = [d EXCEPT !.dtype = "wrong"] \/ e = [d EXCEPT !.dtype = "half"]
    BY <1>10, Zenon DEF Altered
  <2> QED BY <2>1, <1>1, BareFields DEF Alike, IsDataset
<1>11. CASE how = "bare"
  <2>1. e = [d EXCEPT !.ordered = None, !.values = NoName, !.fills = None]
    BY <1>11, Zenon DEF Altered
  <2> QED BY <2>1, <1>1, BareFields DEF Alike, IsDataset
<1>12. CASE how = "cut"
  <2>1. e = [d EXCEPT !.data = SubSeq(data, 1, last - 1)]
    BY <1>12 DEF Altered, data, last
  <2>2. SubSeq(data, 1, last - 1) \in Seq(T)
    BY <1>1 DEF last
  <2> QED BY <2>1, <2>2, <1>4
<1>13. CASE how = "padded"
  <2>1. CASE d.kind = "BITMAP" /\ last > 0
    <3> DEFINE x == data[last] \cup {n + 1}
               other == [data EXCEPT ![last] = x]
    <3>1. e = [d EXCEPT !.data = other]
      BY <1>13, <2>1, <1>1 DEF Altered, data, last, n
    <3>2. other \in Seq(T \cup {x})
      BY <1>1, OneReplaced
    <3> HIDE DEF other
    <3> QED BY <3>1, <3>2, <1>4
  <2>2. CASE ~(d.kind = "BITMAP" /\ last > 0)
    <3>1. e = d
      BY <1>13, <2>2, Zenon DEF Altered, data, last
    <3> QED BY <3>1, <1>3
  <2> QED BY <2>1, <2>2
<1>14. CASE how \notin {"fixed", "longer", "short", "partial", "overclaim", "future", "bloom",
                        "dtype", "half", "bare", "cut", "padded"}
  <2>1. e = d
    BY <1>14, Zenon DEF Altered
  <2> QED BY <2>1, <1>3
<1> QED BY <1>5, <1>6, <1>7, <1>8, <1>9, <1>10, <1>11, <1>12, <1>13, <1>14

\* The values a bitmap refers to, however altered, are a dataset.
LEMMA ValuesFit ==
  ASSUME NEW how, NEW c, NEW rows \in Seq(Element), fill[c] \in FillValue,
         NEW e, e = AlteredValues(how, OurValues(c, rows))
  PROVE  /\ IsDataset(e) /\ e.dtype # "absent" /\ e.kind \in {None, "CHUNK_BLOOM"}
         /\ e.values = NoName /\ e.sg \in {None, 0}
<1> DEFINE content == compute_index_content("BITMAP", rows, fill[c])
           enum == content.enum
           T == Range(enum)
           d == OurValues(c, rows)
<1>1. enum \in Seq(T)
  BY ContentTyped DEF Kinds
<1>2. d = [Bare EXCEPT !.data = enum]
  BY DEF OurValues
<1> HIDE DEF content, enum, T
<1>3. enum \in Seq(Range(enum)) /\ Endless \in Nat
  BY <1>1, OwnElements, IndexFileAssumption
<1>4. /\ d = [x \in DOMAIN Bare |-> d[x]] /\ d.data = enum /\ d.kind = None /\ d.sg = None
      /\ d.sn = None /\ d.values = NoName /\ d.dtype = "right" /\ d.width = 0
      /\ d.limit = Endless /\ d.top = Endless
  BY <1>2 DEF Bare
<1> HIDE DEF d
<1>5. IsDataset(d)
  BY <1>3, <1>4 DEF IsDataset
<1>6. CASE how = "fixed"
  <2>1. e = [d EXCEPT !.limit = 0]
    BY <1>6, Zenon DEF AlteredValues, d
  <2> QED BY <2>1, <1>4, <1>5, BareFields DEF IsDataset
<1>7. CASE how \in {"partial", "overclaim"}
  <2> DEFINE other == IF enum = <<>> THEN enum ELSE Tail(enum)
  <2>1. e = [d EXCEPT !.data = other]
    BY <1>4, <1>7 DEF AlteredValues, d
  <2>2. other \in Seq(T)
    <3>1. CASE enum = <<>>
      BY <3>1, <1>1
    <3>2. CASE enum # <<>>
      <4>1. Len(enum) > 0
        BY <3>2, <1>1
      <4> QED BY <3>2, <4>1, <1>1, TailOf
    <3> QED BY <3>1, <3>2
  <2> HIDE DEF other
  <2>3. IsDataset(e) /\ \A x \in DOMAIN Bare \ {"data"} : e[x] = d[x]
    BY <2>1, <2>2, <1>5, OtherData
  <2> QED BY <2>3, <1>4, BareFields
<1>8. CASE how = "kinded"
  <2>1. e = [d EXCEPT !.kind = "CHUNK_BLOOM", !.sg = 0, !.sn = 0]
    BY <1>8, Zenon DEF AlteredValues, d
  <2>2. "CHUNK_BLOOM" \in SEARCH_INDEX_KINDS
    BY DEF SEARCH_INDEX_KINDS
  <2> QED BY <2>1, <2>2, <1>4, <1>5, BareFields DEF IsDataset
<1>9. CASE how = "dtype"
  <2>1. e = [d EXCEPT !.dtype = "wrong"]
    BY <1>9, Zenon DEF AlteredValues, d
  <2> QED BY <2>1, <1>4, <1>5, BareFields DEF IsDataset
<1>10. CASE how \notin {"fixed", "partial", "overclaim", "kinded", "dtype"}
  <2>1. e = d
    BY <1>10, Zenon DEF AlteredValues, d
  <2> QED BY <2>1, <1>4, <1>5
<1> QED BY <1>6, <1>7, <1>8, <1>9, <1>10

\* Initially nothing is there, or one index of the first column with its values.
LEMMA InitColumns ==
  ASSUME Init
  PROVE  /\ ColumnsFit /\ Idle /\ BuilderFits
         /\ nrows \in Nat
<1>1. StartRows \in Nat /\ StartRows <= MaxRows /\ MaxRows \in Nat
  BY IndexFileAssumption
<1>2. \A c \in Columns : col[c] \in Seq(Cells) /\ Len(col[c]) = StartRows
  <2> TAKE c \in Columns
  <2> DEFINE r == col[c]
  <2>1. r \in [1..StartRows -> Cells]
    BY DEF Init
  <2> HIDE DEF r
  <2>2. r \in Seq(Cells)
    BY <1>1, <2>1, FunctionIsSeq
  <2>3. Len(r) = StartRows
    BY <1>1, <2>1
  <2> QED BY <2>2, <2>3 DEF r
<1>3. nrows = StartRows
  BY <1>2, FirstColumn DEF nrows
<1>4. col \in [Columns -> Seq(Cells)]
  BY <1>2 DEF Init
<1> QED BY <1>1, <1>2, <1>3, <1>4 DEF Init, ColumnsFit, Idle, BuilderFits

\* The rows another producer made an index from are as many as the column has.
LEMMA PlantedRows ==
  ASSUME Init, NEW how, NEW rows \in Sources(how)
  PROVE  rows \in Seq(Element) /\ Len(rows) = nrows /\ fill[c0] \in FillValue
<1>1. ColumnsFit /\ nrows \in Nat
  BY InitColumns
<1>2. col[c0] \in Seq(Element) /\ fill[c0] \in FillValue /\ Len(col[c0]) = nrows
  BY <1>1, ColumnTyped, FirstColumn
<1>3. CASE how = "other"
  <2> DEFINE n == nrows
  <2>1. rows \in [1..n -> Cells] /\ n \in Nat
    BY <1>1, <1>3 DEF Sources
  <2>2. Cells \subseteq Element
    BY IndexFileAssumption DEF Element
  <2> HIDE DEF n
  <2>3. rows \in Seq(Cells) /\ Len(rows) = n
    BY <2>1, FunctionIsSeq
  <2>4. rows \in Seq(Element)
    BY <2>2, <2>3
  <2> QED BY <1>2, <2>3, <2>4 DEF n
<1>4. CASE how # "other"
  BY <1>2, <1>4 DEF Sources
<1> QED BY <1>3, <1>4

\* Its datasets.
LEMMA PlantedFits ==
  ASSUME Init, NEW how, NEW kind \in Kinds, NEW source \in {0, 1},
         NEW rows \in Sources(how), Planted(how, kind, source, rows)
  PROVE  DatasetsFit /\ LinksFit
<1> DEFINE i == <<c0, kind>>
           v == <<c0, "values">>
           d == OurIndex(kind, c0, rows)
           a == Altered(how, d)
           e == [a EXCEPT !.sg = source]
           u == AlteredValues(how, OurValues(c0, rows))
<1>1. rows \in Seq(Element) /\ Len(rows) = nrows /\ fill[c0] \in FillValue /\ nrows \in Nat
  BY PlantedRows, InitColumns
<1>2. /\ IsDataset(d) /\ d.kind = kind /\ d.dtype = "right"
      /\ d.values = (IF kind = "BITMAP" THEN v ELSE NoName)
  <2>1. OurForm(d, kind, c0, rows)
    BY <1>1, OurFits
  <2> HIDE DEF d
  <2> QED BY <2>1 DEF OurForm
<1>3. /\ i \in Columns \X Kinds /\ i \in Names /\ v \in Names /\ v # i /\ ValuesOf(i) = v
      /\ i[1] = c0 /\ i[2] = kind /\ v[2] = "values"
  <2>1. i \in Columns \X Kinds
    BY FirstColumn
  <2> QED BY <2>1, IndexNames DEF ValuesOf
<1>4. /\ obj = [m \in Names |-> IF m = i THEN e ELSE IF m = v /\ kind = "BITMAP" THEN u ELSE Absent]
      /\ links = [c \in Columns |-> IF c = c0 /\ how # "unlinked" THEN <<i>> ELSE <<>>]
      /\ gen = 1 /\ call = NoCall
  BY DEF Planted, Init
<1>5. /\ IsDataset(u) /\ u.dtype # "absent" /\ u.kind \in {None, "CHUNK_BLOOM"}
      /\ u.values = NoName /\ u.sg \in {None, 0}
  BY <1>1, ValuesFit
<1> HIDE DEF d
<1>6. Alike(a, d)
  BY <1>1, <1>2, AlteredFits
<1> HIDE DEF a
<1>7. /\ IsDataset(e) /\ e.dtype # "absent" /\ e.sg = source
      /\ e.kind \in {kind, "FUTURE_KIND", "CHUNK_BLOOM"} /\ e.values \in {d.values, NoName}
  <2>1. /\ IsDataset(a) /\ a.dtype # "absent" /\ a.kind \in {kind, "FUTURE_KIND", "CHUNK_BLOOM"}
        /\ a.values \in {d.values, NoName}
    BY <1>2, <1>6 DEF Alike
  <2>2. a = [x \in DOMAIN Bare |-> a[x]]
    BY <2>1 DEF IsDataset
  <2>3. /\ e = [x \in DOMAIN Bare |-> e[x]] /\ e.sg = source
        /\ \A x \in DOMAIN Bare \ {"sg"} : e[x] = a[x]
    BY <2>2, BareFields
  <2> HIDE DEF e
  <2>4. /\ e.kind = a.kind /\ e.values = a.values /\ e.dtype = a.dtype /\ e.data = a.data
        /\ e.width = a.width /\ e.limit = a.limit /\ e.top = a.top /\ e.sn = a.sn
    BY <2>3, BareFields
  <2>5. IsDataset(e)
    BY <2>1, <2>3, <2>4 DEF IsDataset
  <2> QED BY <2>1, <2>3, <2>4, <2>5
<1>8. /\ {None, "CHUNK_BLOOM"} \cap Kinds = {} /\ "FUTURE_KIND" \notin Kinds
      /\ None \notin {kind, "FUTURE_KIND", "CHUNK_BLOOM"} /\ None \notin Nat
  BY IndexFileAssumption DEF Kinds, SEARCH_INDEX_KINDS
<1> HIDE DEF e, u, i, v
<1>9. ASSUME NEW m \in Names PROVE IsDataset(obj[m]) /\ Named(obj, m) /\ Dated(obj[m], 1)
  <2>1. CASE m = i
    <3>1. obj[m] = e
      BY <2>1, <1>3, <1>4
    <3> QED BY <3>1, <2>1, <1>2, <1>3, <1>7, <1>8 DEF Named, Dated
  <2>2. CASE m = v /\ kind = "BITMAP"
    <3>1. obj[m] = u
      BY <2>2, <1>3, <1>4
    <3> QED BY <3>1, <2>2, <1>5, <1>8 DEF Named, Dated
  <2>3. CASE m # i /\ ~(m = v /\ kind = "BITMAP")
    <3>1. obj[m] = Absent
      BY <2>3, <1>4
    <3> QED BY <3>1, AbsentFits DEF Named
  <2> QED BY <2>1, <2>2, <2>3
<1>10. DatasetsFit
  <2>1. obj = [m \in Names |-> obj[m]]
    BY <1>4
  <2> QED BY <2>1, <1>4, <1>9 DEF DatasetsFit, Fits
<1>11. call.index = NoName /\ NoName \notin Names
  BY <1>4, IndexFileAssumption DEF NoCall
<1>12. obj[i] = e
  BY <1>3, <1>4
<1>13. ASSUME NEW c \in Columns PROVE IsLinks(obj, links[c], c, call.index)
  <2>1. CASE c = c0 /\ how # "unlinked"
    <3>1. links[c] = <<i>>
      BY <2>1, <1>4
    <3>2. <<i>> \in Seq(Names) /\ DOMAIN <<i>> = {1} /\ <<i>>[1] = i
      BY <1>3
    <3> QED BY <3>1, <3>2, <2>1, <1>3, <1>7, <1>8, <1>11, <1>12 DEF IsLinks
  <2>2. CASE ~(c = c0 /\ how # "unlinked")
    <3>1. links[c] = <<>>
      BY <2>2, <1>4
    <3> QED BY <3>1 DEF IsLinks
  <2> QED BY <2>1, <2>2
<1>14. LinksFit
  <2>1. links = [c \in Columns |-> links[c]]
    BY <1>4
  <2> QED BY <2>1, <1>13 DEF LinksFit
<1> QED BY <1>10, <1>14

\* An initial state is empty or planted.
LEMMA InitCases ==
  ASSUME Init
  PROVE  \/ /\ plant.how = "none" /\ gen = None
            /\ obj = [m \in Names |-> Absent] /\ links = [c \in Columns |-> <<>>]
         \/ \E how \in Plants, kind \in Kinds, source \in {0, 1} :
              \E rows \in Sources(how) : Planted(how, kind, source, rows)
<1>1. plant = [how |-> "none", kind |-> None] => plant.how = "none"
  OBVIOUS
<1> QED BY <1>1, Zenon DEF Init

\* The types hold initially.
LEMMA InitTyped ==
  ASSUME Init
  PROVE  Typed
<1>1. ColumnsFit /\ Idle /\ BuilderFits
  BY InitColumns
<1>2. CASE /\ plant.how = "none" /\ gen = None
           /\ obj = [m \in Names |-> Absent] /\ links = [c \in Columns |-> <<>>]
  <2>1. DatasetsFit
    BY <1>2, AbsentFits DEF DatasetsFit, Fits, Named
  <2>2. LinksFit
    BY <1>2 DEF LinksFit, IsLinks
  <2> QED BY <1>1, <2>1, <2>2 DEF Typed
<1>3. CASE \E how \in Plants, kind \in Kinds, source \in {0, 1} :
             \E rows \in Sources(how) : Planted(how, kind, source, rows)
  BY <1>1, <1>3, PlantedFits DEF Typed
<1> QED BY <1>2, <1>3, InitCases

-----------------------------------------------------------------------------
(* The tokens.                                                             *)

\* An index that this call did not rebuild is as valid as before, and describes
\* its column as before.
LEMMA NotTouched ==
  ASSUME Typed, NEW rows, Kept(rows), NEW m \in Names, obj'[m] = obj[m], index_is_valid(m)'
  PROVE  index_is_valid(m) /\ rows = col /\ gen' = gen
<1>1. gen' # None /\ obj[m].sg = gen' /\ obj[m].sn = nrows'
  BY DEF index_is_valid
<1>2. gen # None
  <2>1. gen = None => obj[m] = Absent
    BY DEF Typed, DatasetsFit, Dated
  <2> QED BY <1>1, <2>1, AbsentFits
<1>3. gen \in Nat /\ gen' \in Nat /\ gen' >= gen /\ (gen' > gen \/ rows = col) /\ obj[m].sg <= gen
  BY <1>1, <1>2 DEF Typed, DatasetsFit, Dated, Kept
<1>4. gen' = gen /\ rows = col
  BY <1>1, <1>3
<1>5. nrows' = nrows
  BY <1>4 DEF Kept, nrows
<1> QED BY <1>1, <1>4, <1>5 DEF index_is_valid

\* An index this program cannot rebuild is not checked.
LEMMA OtherKinds ==
  ASSUME NEW o, NEW m, o[m].kind \notin Kinds, NEW rows, NEW f, NEW deep
  PROVE  check_index(o, m, rows, f, deep)
<1>1. ~(o[m].kind = "CHUNK_MINMAX") /\ ~(o[m].kind = "SORTED_ROWS") /\ ~(o[m].kind = "BITMAP")
  BY DEF Kinds
<1> QED BY <1>1, Zenon DEF check_index

\* What a step makes valid passes the deep check.
StampPasses(c, i) ==
  i \in Linked(c)' /\ ~index_is_valid(i) /\ index_is_valid(i)' => Rule9(i, c, TRUE)'

\* A call that rebuilds.
LEMMA KeptStamps ==
  ASSUME Typed, NEW rows, Kept(rows), NEW c \in Columns, NEW i
  PROVE  StampPasses(c, i)
<1> SUFFICES ASSUME i \in Linked(c)', ~index_is_valid(i), index_is_valid(i)'
             PROVE  Rule9(i, c, TRUE)'
  BY DEF StampPasses
<1>1. i \in Linked(c)
  BY DEF Kept, Linked
<1>2. i \in Names /\ i[1] = c
  BY <1>1, LinkedIndexes DEF Typed
<1>3. obj'[i] # obj[i]
  BY <1>2, NotTouched
<1>4. col' = rows /\ fill' = fill /\ Tended(obj', rows, gen')
  BY <1>3 DEF Kept
<1>5. Rule9(i, c, TRUE)' = check_index(obj', i, rows[c], fill[c], TRUE)
  BY <1>4 DEF Rule9
<1>6. CASE i \in Columns \X Kinds
  <2>1. ~Same(obj', obj, i)
    BY <1>3 DEF Same
  <2>2. check_index(obj', i, rows[i[1]], fill[i[1]], TRUE)
    BY <1>4, <1>6, <2>1 DEF Tended
  <2> QED BY <1>2, <1>5, <2>2
<1>7. CASE i \notin Columns \X Kinds
  <2>1. i[2] \notin Kinds
    BY <1>2, <1>7 DEF Names
  <2>2. Named(obj', i)
    BY <1>2, <1>4 DEF Tended, Fits
  <2>3. obj'[i].kind \notin Kinds
    BY <2>1, <2>2 DEF Named
  <2> QED BY <1>5, <2>3, OtherKinds
<1> QED BY <1>6, <1>7

\* A step of a builder.
LEMMA StepStamps ==
  ASSUME Typed, ~Idle, NEW k, Stepped(call.index, Program(call.index[2]), k),
         NEW c \in Columns, NEW i
  PROVE  StampPasses(c, i)
<1> SUFFICES ASSUME i \in Linked(c)', ~index_is_valid(i), index_is_valid(i)'
             PROVE  Rule9(i, c, TRUE)'
  BY DEF StampPasses
<1> DEFINE b == call.index
           v == ValuesOf(b)
           P == Program(b[2])
<1>1. Typed'
  BY StepTyped
<1>2. /\ i \in Names /\ i[1] = c /\ i # call'.index
      /\ obj'[i].dtype # "absent" /\ obj'[i].kind # None
  BY <1>1 DEF Typed, LinksFit, IsLinks, Linked
<1>3. /\ \A m \in Names \ {b, v} : obj'[m] = obj[m]
      /\ b[2] # "BITMAP" => obj'[v] = obj[v]
      /\ b[2] = "BITMAP" => obj'[v].kind = None
      /\ UNCHANGED <<col, fill, gen>>
      /\ k \in 1..Len(P) /\ Len(P) \in Nat
  BY DEF Stepped, Built
<1>4. obj'[i] # obj[i]
  BY <1>3 DEF index_is_valid, nrows
<1>5. i = b
  BY <1>2, <1>3, <1>4
<1>6. k = Len(P)
  <2>1. call' = IF k = Len(P) THEN NoCall
                ELSE [index |-> b, todo |-> SubSeq(P, k + 1, Len(P)), old |-> call.old]
    BY DEF Stepped
  <2> QED BY <2>1, <1>2, <1>5
<1>7. Wrote(b[2], k + 1, "SOURCE_NROWS")
  <2>1. Wrote(b[2], k, "SOURCE_NROWS")
    BY <1>6 DEF Stepped, WellPlaced
  <2> QED BY <2>1, <1>3, WroteNext
<1>8. check_index(obj', b, col[b[1]], fill[b[1]], TRUE)
  BY <1>7, StepPasses
<1> QED BY <1>2, <1>3, <1>5, <1>8 DEF Rule9

\* No other step makes an index valid.
LEMMA OthersStamp ==
  ASSUME Typed, \/ \E d \in Columns, kind \in Kinds : BeginBuild(d, kind)
                \/ BuildFails \/ BuilderDies \/ UNCHANGED vars,
         NEW c \in Columns, NEW i
  PROVE  StampPasses(c, i)
<1> SUFFICES ASSUME i \in Linked(c)', ~index_is_valid(i), index_is_valid(i)'
             PROVE  FALSE
  BY DEF StampPasses
<1>1. Typed'
  BY BuildBegins, FailTyped, DiesTyped, NextTyped
<1>2. i \in Names /\ obj'[i].dtype # "absent"
  BY <1>1 DEF Typed, LinksFit, IsLinks, Linked
<1>3. obj'[i] = obj[i]
  <2>1. CASE BuildFails
    BY <2>1, <1>2, AbsentFits DEF BuildFails
  <2> QED BY <2>1 DEF BeginBuild, BuilderDies, vars
<1>4. col' = col /\ (gen' = gen \/ gen = None)
  <2>1. ASSUME NEW d \in Columns, NEW kind \in Kinds, BeginBuild(d, kind)
        PROVE  gen' = gen \/ gen = None
    BY <2>1, Generation DEF BeginBuild, Typed
  <2> QED BY <2>1 DEF BeginBuild, BuildFails, BuilderDies, vars
<1>5. CASE gen' = gen
  BY <1>3, <1>4, <1>5 DEF index_is_valid, nrows
<1>6. CASE gen = None
  BY <1>2, <1>3, <1>6, AbsentFits DEF Typed, DatasetsFit, Dated
<1> QED BY <1>4, <1>5, <1>6

-----------------------------------------------------------------------------
(* The theorems that need no more than types.                              *)

\* Every reachable file fits its types: the datasets, their names, tokens and
\* links, and how far the running builder has come.
THEOREM TypesKept == Spec => []Typed
<1>1. Init => Typed
  BY InitTyped
<1>2. Typed /\ [Next]_vars => Typed'
  BY NextTyped
<1> QED BY <1>1, <1>2, PTL DEF Spec

\* What validate(deep=True) accepts, whoever wrote it and whatever died, tells
\* queries the truth (searchindex.py on what file_format.py checks).
THEOREM DeepChecksSuffice == Spec => []DeepMeansRight
<1>1. Typed => DeepMeansRight
  BY DeepEnough DEF Typed
<1> QED BY <1>1, TypesKept, PTL

\* No call makes an index valid that would fail the deep check.
THEOREM StampsEarned == Spec => StampedPasses
<1>1. ASSUME Typed, [Next]_vars
      PROVE  \A c \in Columns : \A i \in {links'[c][j] : j \in DOMAIN links'[c]} :
               ~index_is_valid(i) /\ index_is_valid(i)' => Rule9(i, c, TRUE)'
  <2> SUFFICES ASSUME NEW c \in Columns, NEW i PROVE StampPasses(c, i)
    BY DEF StampPasses, Linked
  <2> QED BY <1>1, NextSteps, KeptStamps, StepStamps, OthersStamp
<1>2. Typed /\ [Next]_vars =>
        [\A c \in Columns : \A i \in {links'[c][j] : j \in DOMAIN links'[c]} :
           ~index_is_valid(i) /\ index_is_valid(i)' => Rule9(i, c, TRUE)']_vars
  BY <1>1
<1> QED BY <1>2, TypesKept, PTL DEF Spec, StampedPasses

-----------------------------------------------------------------------------
(* What is valid is right.                                                 *)

\* A valid index passes the deep check, whether or not it is linked.
RightAt(m) == index_is_valid(m) => Rule9(m, m[1], TRUE)

\* It stays right when nothing it depends on changes.
LEMMA SameRight ==
  ASSUME Typed, NEW m \in Columns \X Kinds, RightAt(m), Same(obj', obj, m), index_is_valid(m),
         col' = col, fill' = fill
  PROVE  Rule9(m, m[1], TRUE)'
<1>1. check_index(obj, m, col[m[1]], fill[m[1]], TRUE) /\ Fits(obj)
  BY DEF RightAt, Rule9, Typed, DatasetsFit
<1> DEFINE p == obj'
           rows == col[m[1]]
           f == fill[m[1]]
<1>2. Same(p, obj, m) /\ check_index(obj, m, rows, f, TRUE)
  BY <1>1
<1> HIDE DEF p, rows, f
<1>3. check_index(p, m, rows, f, TRUE)
  BY <1>1, <1>2, SameCheck
<1> QED BY <1>3 DEF Rule9, p, rows, f

\* A call that rebuilds.
LEMMA KeptRight ==
  ASSUME Typed, NEW rows, Kept(rows), NEW m \in Columns \X Kinds, RightAt(m)
  PROVE  RightAt(m)'
<1> SUFFICES ASSUME index_is_valid(m)' PROVE Rule9(m, m[1], TRUE)'
  BY DEF RightAt
<1>1. m \in Names
  BY IndexNames
<1>2. CASE Same(obj', obj, m)
  <2>1. index_is_valid(m) /\ rows = col
    BY <1>1, <1>2, NotTouched DEF Same
  <2> QED BY <1>2, <2>1, SameRight DEF Kept
<1>3. CASE ~Same(obj', obj, m)
  <2>1. obj' # obj
    BY <1>3 DEF Same
  <2>2. check_index(obj', m, rows[m[1]], fill[m[1]], TRUE)
    BY <1>3, <2>1 DEF Kept, Tended
  <2> QED BY <2>2 DEF Kept, Rule9
<1> QED BY <1>2, <1>3

\* Two indexes share nothing.
LEMMA Apart ==
  ASSUME NEW b \in Columns \X Kinds, NEW m \in Columns \X Kinds, m # b, NEW p, NEW o,
         \A x \in Names \ {b, ValuesOf(b)} : p[x] = o[x],
         b[2] # "BITMAP" => p[ValuesOf(b)] = o[ValuesOf(b)]
  PROVE  Same(p, o, m)
<1>1. /\ m \in Names /\ ValuesOf(m) \in Names /\ ValuesOf(b) \notin Columns \X Kinds
      /\ ValuesOf(m) \notin Columns \X Kinds
  BY IndexNames
<1>2. p[m] = o[m]
  BY <1>1
<1>3. ASSUME m[2] = "BITMAP" PROVE p[ValuesOf(m)] = o[ValuesOf(m)]
  <2>1. ValuesOf(m) # b
    BY <1>1
  <2>2. CASE b[2] = "BITMAP"
    <3>1. ValuesOf(m) # ValuesOf(b)
      BY <1>3, <2>2, IndexNames
    <3> QED BY <1>1, <2>1, <3>1
  <2>3. CASE b[2] # "BITMAP"
    BY <1>1, <2>1, <2>3
  <2> QED BY <2>2, <2>3
<1> QED BY <1>2, <1>3 DEF Same

\* A step of a builder.
LEMMA StepRight ==
  ASSUME Typed, ~Idle, NEW k, Stepped(call.index, Program(call.index[2]), k),
         NEW m \in Columns \X Kinds, RightAt(m)
  PROVE  RightAt(m)'
<1> SUFFICES ASSUME index_is_valid(m)' PROVE Rule9(m, m[1], TRUE)'
  BY DEF RightAt
<1> DEFINE b == call.index
<1>1. b \in Columns \X Kinds /\ UNCHANGED <<col, fill, gen>>
  BY DEF Stepped
<1>2. CASE m = b
  <2>1. b[1] \in Columns
    BY <1>1
  <2>2. nrows \in Nat /\ nrows' = nrows /\ None \notin Nat
    BY <1>1, <2>1, ColumnTyped, AbsentFits DEF Typed, nrows
  <2>3. obj'[b].sn # None
    BY <1>2, <2>2 DEF index_is_valid
  <2>4. Wrote(b[2], k + 1, "SOURCE_NROWS")
    BY <2>3 DEF Stepped, Built
  <2>5. check_index(obj', b, col[b[1]], fill[b[1]], TRUE)
    BY <2>4, StepPasses
  <2> QED BY <1>1, <1>2, <2>5 DEF Rule9
<1>3. CASE m # b
  <2> DEFINE p == obj'
  <2>1. /\ \A x \in Names \ {b, ValuesOf(b)} : p[x] = obj[x]
        /\ b[2] # "BITMAP" => p[ValuesOf(b)] = obj[ValuesOf(b)]
    BY DEF Stepped
  <2> HIDE DEF p, b
  <2>2. Same(p, obj, m)
    BY <1>1, <1>3, <2>1, Apart
  <2>3. index_is_valid(m)
    BY <1>1, <2>2 DEF Same, index_is_valid, nrows, p
  <2> QED BY <1>1, <2>2, <2>3, SameRight DEF p
<1> QED BY <1>2, <1>3

\* A builder that fails.
LEMMA FailRight ==
  ASSUME Typed, BuildFails, NEW m \in Columns \X Kinds, RightAt(m)
  PROVE  RightAt(m)'
<1> SUFFICES ASSUME index_is_valid(m)' PROVE Rule9(m, m[1], TRUE)'
  BY DEF RightAt
<1> DEFINE b == call.index
           made == {b} \cup (IF b[2] = "BITMAP" THEN {ValuesOf(b)} ELSE {})
           p == obj'
<1>1. /\ p = [x \in Names |-> IF x \in made THEN Absent ELSE obj[x]]
      /\ UNCHANGED <<col, fill, gen>> /\ ~Idle
  BY DEF BuildFails, ValuesOf
<1>2. b \in Columns \X Kinds
  BY <1>1 DEF Typed, BuilderFits
<1>3. m \in Names /\ ValuesOf(b) \in Names
  BY <1>2, IndexNames
<1>4. m # b
  <2>1. p[m].sg = gen' /\ gen' # None
    BY DEF index_is_valid
  <2> QED BY <1>1, <1>3, <2>1, AbsentFits
<1>5. /\ \A x \in Names \ {b, ValuesOf(b)} : p[x] = obj[x]
      /\ b[2] # "BITMAP" => p[ValuesOf(b)] = obj[ValuesOf(b)]
  <2>1. b[2] # "BITMAP" => ValuesOf(b) \notin made
    BY <1>2, IndexNames
  <2> QED BY <1>1, <1>3, <2>1
<1> HIDE DEF p, b, made
<1>6. Same(p, obj, m)
  BY <1>2, <1>4, <1>5, Apart
<1>7. index_is_valid(m)
  BY <1>1, <1>6 DEF Same, index_is_valid, nrows, p
<1> QED BY <1>1, <1>6, <1>7, SameRight DEF p

\* A builder that begins, one that dies, and nothing.
LEMMA OthersRight ==
  ASSUME Typed, \/ \E d \in Columns, kind \in Kinds : BeginBuild(d, kind)
                \/ BuilderDies \/ UNCHANGED vars,
         NEW m \in Columns \X Kinds, RightAt(m)
  PROVE  RightAt(m)'
<1> SUFFICES ASSUME index_is_valid(m)' PROVE Rule9(m, m[1], TRUE)'
  BY DEF RightAt
<1>1. obj' = obj /\ col' = col /\ fill' = fill
  BY DEF BeginBuild, BuilderDies, vars
<1>2. gen' = gen \/ gen = None
  <2>1. ASSUME NEW d \in Columns, NEW kind \in Kinds, BeginBuild(d, kind)
        PROVE  gen' = gen \/ gen = None
    BY <2>1, Generation DEF BeginBuild, Typed
  <2> QED BY <2>1 DEF BuilderDies, vars
<1>3. gen # None
  <2>1. gen = None => obj[m] = Absent
    BY IndexNames DEF Typed, DatasetsFit, Dated
  <2> QED BY <1>1, <2>1, AbsentFits DEF index_is_valid
<1>4. index_is_valid(m)
  BY <1>1, <1>2, <1>3 DEF index_is_valid, nrows
<1> QED BY <1>1, <1>4, SameRight DEF Same

\* No step makes a valid index wrong.
LEMMA NextRight ==
  ASSUME Typed, ValidRight, [Next]_vars
  PROVE  ValidRight'
<1> SUFFICES ASSUME Ours', NEW m \in Columns \X Kinds PROVE RightAt(m)'
  BY DEF ValidRight, RightAt
<1>1. Ours
  <2>1. plant' = plant
    BY NextSteps DEF BeginBuild, Stepped, BuildFails, BuilderDies, Kept, vars
  <2> QED BY <2>1 DEF Ours
<1>2. RightAt(m)
  BY <1>1 DEF ValidRight, RightAt
<1> QED BY <1>2, NextSteps, KeptRight, StepRight, FailRight, OthersRight

-----------------------------------------------------------------------------
(* Unless a builder died, everything is complete.                          *)

\* Rebuilding leaves complete what was complete.
LEMMA KeptOrderly ==
  ASSUME Typed, Orderly, NEW rows, Kept(rows)
  PROVE  Orderly'
<1> SUFFICES ASSUME Ours', ~killed', NEW m \in Names, obj'[m].dtype # "absent"
             PROVE  OrderlyAt(obj', m)
  BY DEF Orderly, Members
<1>1. CASE obj' = obj
  BY <1>1 DEF Kept, Orderly, Ours, Members, Made, Idle
<1>2. CASE obj' # obj
  <2> DEFINE p == obj'
             g == gen'
  <2>1. Tended(p, rows, g) /\ g # None
    BY <1>2 DEF Kept
  <2>2. \A x \in Names : SameShape(p[x], obj[x])
    BY <2>1 DEF Tended
  <2>3. obj[m].dtype # "absent" /\ Made = {} /\ Ours /\ ~killed
    BY <2>2 DEF SameShape, Kept, Made, Ours
  <2>4. OrderlyAt(obj, m)
    BY <2>3 DEF Orderly, Members
  <2>5. CASE p[m].kind # None
    <3>1. obj[m].sg # None /\ obj[m].sn # None
      BY <2>2, <2>4, <2>5 DEF SameShape, OrderlyAt
    <3>2. CASE m \in Columns \X Kinds
      <4>1. m[1] \in Columns
        BY <3>2
      <4>2. rows[m[1]] \in Seq(Cells)
        BY <4>1 DEF Kept
      <4>3. Len(rows[m[1]]) # None
        BY <4>2, AbsentFits
      <4> QED BY <2>1, <2>5, <3>1, <3>2, <4>3 DEF Tended, Same, OrderlyAt
    <3>3. CASE m \notin Columns \X Kinds
      BY <2>1, <2>5, <3>1, <3>3 DEF Tended, OrderlyAt
    <3> QED BY <3>2, <3>3
  <2>6. CASE p[m].kind = None
    <3> DEFINE b == <<m[1], "BITMAP">>
    <3>1. obj[m].kind = None
      BY <2>2, <2>6 DEF SameShape
    <3>2. m = ValuesOf(m) /\ obj[b].kind \in {"BITMAP", "FUTURE_KIND"} /\ obj[b].values = m
      BY <2>4, <3>1 DEF OrderlyAt
    <3>3. b \in Names
      BY DEF Names, Kinds
    <3>4. p[b].kind = obj[b].kind /\ p[b].values = obj[b].values
      BY <2>2, <3>3 DEF SameShape
    <3> QED BY <2>6, <3>2, <3>4 DEF OrderlyAt
  <2> QED BY <2>5, <2>6
<1> QED BY <1>1, <1>2

\* Values are not those of a bitmap that is being built, if they are not being built.
LEMMA OthersValues ==
  ASSUME NEW i \in Columns \X Kinds, NEW m \in Names, m = ValuesOf(m),
         NEW made, made = {i} \cup (IF i[2] = "BITMAP" THEN {ValuesOf(i)} ELSE {}),
         m \notin made
  PROVE  <<m[1], "BITMAP">> \in Names \ {i, ValuesOf(i)}
<1> DEFINE b == <<m[1], "BITMAP">>
<1>1. b \in Names /\ b # ValuesOf(i) /\ b[1] = m[1] /\ b[2] = "BITMAP" /\ m = <<b[1], "values">>
  BY DEF ValuesOf, Names, Kinds
<1>2. b # i
  <2> SUFFICES ASSUME b = i PROVE FALSE
    OBVIOUS
  <2>1. i[2] = "BITMAP" /\ m = ValuesOf(i)
    BY <1>1 DEF ValuesOf
  <2> QED BY <2>1
<1> QED BY <1>1, <1>2

\* What a step, or a failure, of the builder of index i leaves alone.
LEMMA LeftAlone ==
  ASSUME NEW i \in Columns \X Kinds, NEW m \in Names, NEW o, NEW p, OrderlyAt(o, m),
         NEW made, made = {i} \cup (IF i[2] = "BITMAP" THEN {ValuesOf(i)} ELSE {}),
         m \notin made, \A x \in Names \ made : p[x] = o[x]
  PROVE  OrderlyAt(p, m)
<1>1. p[m] = o[m]
  OBVIOUS
<1>2. CASE o[m].kind # None
  BY <1>1, <1>2 DEF OrderlyAt
<1>3. CASE o[m].kind = None
  <2> DEFINE b == <<m[1], "BITMAP">>
  <2>1. m = ValuesOf(m) /\ o[b].kind \in {"BITMAP", "FUTURE_KIND"} /\ o[b].values = m
    BY <1>3 DEF OrderlyAt
  <2>2. b \in Names \ {i, ValuesOf(i)}
    BY <2>1, OthersValues
  <2>3. p[b] = o[b]
    <3>1. b \notin made
      BY <2>2
    <3> QED BY <2>2, <3>1
  <2> QED BY <1>1, <1>3, <2>1, <2>3 DEF OrderlyAt
<1> QED BY <1>2, <1>3

\* A builder completes what it made before it is done.
LEMMA StepOrderly ==
  ASSUME Typed, Orderly, ~Idle, NEW k, Stepped(call.index, Program(call.index[2]), k)
  PROVE  Orderly'
<1> SUFFICES ASSUME Ours', ~killed', NEW m \in Names, obj'[m].dtype # "absent", m \notin Made'
             PROVE  OrderlyAt(obj', m)
  BY DEF Orderly, Members
<1> DEFINE i == call.index
           P == Program(i[2])
           v == ValuesOf(i)
           made == {i} \cup (IF i[2] = "BITMAP" THEN {v} ELSE {})
           p == obj'
<1>1. /\ i \in Columns \X Kinds /\ Ours /\ ~killed /\ Made = made
      /\ k \in 1..Len(P) /\ Len(P) \in Nat
  BY DEF Stepped, Ours, Made
<1>2. \A x \in Names \ made : p[x] = obj[x]
  BY DEF Stepped
<1>3. CASE m \notin made
  <2>1. obj[m].dtype # "absent"
    BY <1>2, <1>3
  <2>2. OrderlyAt(obj, m)
    BY <1>1, <1>3, <2>1 DEF Orderly, Members
  <2>3. made = {i} \cup (IF i[2] = "BITMAP" THEN {ValuesOf(i)} ELSE {}) /\ i \in Columns \X Kinds
    BY <1>1 DEF made
  <2> HIDE DEF p, made, i, v, P
  <2>4. OrderlyAt(p, m)
    BY <1>2, <1>3, <2>2, <2>3, LeftAlone
  <2> QED BY <2>4 DEF p
<1>4. CASE m \in made
  <2>1. k = Len(P)
    <3>1. call' = IF k = Len(P) THEN NoCall
                  ELSE [index |-> i, todo |-> SubSeq(P, k + 1, Len(P)), old |-> call.old]
      BY DEF Stepped
    <3>2. k # Len(P) => call'.index = i
      BY <3>1
    <3>3. NoCall.index \notin Names /\ i \in Names
      BY <1>1, IndexNames, IndexFileAssumption DEF NoCall
    <3>4. k # Len(P) => Made' = made
      BY <3>2, <3>3 DEF Made, Idle
    <3> QED BY <1>4, <3>4
  <2>2. Wrote(i[2], k + 1, "SOURCE_NROWS")
    <3>1. Wrote(i[2], k, "SOURCE_NROWS")
      BY <2>1 DEF Stepped, WellPlaced
    <3> QED BY <3>1, <1>1, WroteNext
  <2>3. /\ p[i].kind = i[2] /\ p[i].sg = gen /\ p[i].sn = nrows
        /\ i[2] = "BITMAP" => p[i].values = v /\ p[v].kind = None
    BY <2>2, StepPasses
  <2>4. i[2] # None /\ gen # None /\ nrows # None
    <3>1. i[1] \in Columns /\ i[2] \in Kinds
      BY <1>1
    <3>2. nrows \in Nat
      BY <3>1, ColumnTyped DEF Typed
    <3> QED BY <3>1, <3>2, AbsentFits DEF Stepped
  <2>5. CASE m = i
    BY <2>3, <2>4, <2>5 DEF OrderlyAt
  <2>6. CASE m # i
    <3>1. i[2] = "BITMAP" /\ m = v
      BY <1>4, <2>6
    <3>2. i = <<i[1], "BITMAP">> /\ m[1] = i[1] /\ m = ValuesOf(m)
      BY <1>1, <3>1, IndexNames DEF ValuesOf
    <3>3. i = <<m[1], "BITMAP">>
      BY <3>2
    <3> QED BY <2>3, <3>1, <3>2, <3>3 DEF OrderlyAt
  <2> QED BY <2>5, <2>6
<1> QED BY <1>3, <1>4

\* A builder that fails leaves nothing.
LEMMA FailOrderly ==
  ASSUME Typed, Orderly, BuildFails
  PROVE  Orderly'
<1> SUFFICES ASSUME Ours', ~killed', NEW m \in Names, obj'[m].dtype # "absent"
             PROVE  OrderlyAt(obj', m)
  BY DEF Orderly, Members
<1> DEFINE i == call.index
           made == {i} \cup (IF i[2] = "BITMAP" THEN {ValuesOf(i)} ELSE {})
           p == obj'
<1>1. /\ p = [x \in Names |-> IF x \in made THEN Absent ELSE obj[x]]
      /\ ~Idle /\ Ours /\ ~killed
  BY DEF BuildFails, ValuesOf, Ours
<1>2. i \in Columns \X Kinds /\ Made = made
  BY <1>1 DEF Typed, BuilderFits, Made
<1>3. m \notin made
  BY <1>1, AbsentFits
<1>4. (\A x \in Names \ made : p[x] = obj[x]) /\ obj[m].dtype # "absent"
  BY <1>1, <1>3
<1>5. OrderlyAt(obj, m)
  BY <1>1, <1>2, <1>3, <1>4 DEF Orderly, Members
<1> HIDE DEF p, made, i
<1>6. made = {i} \cup (IF i[2] = "BITMAP" THEN {ValuesOf(i)} ELSE {})
  BY DEF made
<1>7. OrderlyAt(p, m)
  BY <1>2, <1>3, <1>4, <1>5, <1>6, LeftAlone
<1> QED BY <1>7 DEF p

\* Every step leaves what it made complete, or a builder died.
LEMMA NextOrderly ==
  ASSUME Typed, Orderly, [Next]_vars
  PROVE  Orderly'
<1>1. ASSUME NEW d \in Columns, NEW kind \in Kinds, BeginBuild(d, kind)
      PROVE  Orderly'
  <2>1. obj' = obj /\ Made = {} /\ plant' = plant /\ killed' = killed
    BY <1>1 DEF BeginBuild, Made
  <2> QED BY <2>1 DEF Orderly, Ours, Members
<1>2. CASE BuilderDies
  BY <1>2 DEF BuilderDies, Orderly
<1>3. CASE UNCHANGED vars
  BY <1>3 DEF vars, Orderly, Ours, Members, Made, Idle
<1> QED BY <1>1, <1>2, <1>3, NextSteps, KeptOrderly, StepOrderly, FailOrderly

-----------------------------------------------------------------------------
(* Harmless indexes of another producer.                                   *)

\* A list, perhaps with something behind it.
Behind(w, data) == \E x : w = data \/ w = Append(data, x)

Begins(w, data) ==
  /\ Len(w) \in Nat /\ Len(w) >= Len(data) /\ SubSeq(w, 1, Len(data)) = data
  /\ \A j \in 1..Len(data) : w[j] = data[j]

\* It begins with the list.
LEMMA Longer ==
  ASSUME NEW S, NEW data \in Seq(S), NEW w, Behind(w, data)
  PROVE  Begins(w, data)
<1> PICK x : w = data \/ w = Append(data, x)
  BY DEF Behind
<1> DEFINE T == S \cup {x}
           k == Len(data)
           s == SubSeq(w, 1, k)
<1>1. w \in Seq(T) /\ data \in Seq(T) /\ Len(w) \in Nat /\ k \in Nat /\ Len(w) >= k
  OBVIOUS
<1>2. \A j \in 1..k : w[j] = data[j]
  OBVIOUS
<1> HIDE DEF T
<1>3. s \in Seq(T) /\ Len(s) = k /\ \A j \in 1..k : s[j] = w[j]
  BY <1>1, Beginning
<1> HIDE DEF s
<1>4. s = data
  BY <1>1, <1>2, <1>3, SeqEqual
<1> QED BY <1>1, <1>2, <1>4 DEF s, Begins

\* A CHUNK_MINMAX that begins with the entries of its column passes the deep check.
LEMMA MinmaxPasses ==
  ASSUME NEW o, NEW i, NEW rows \in Seq(Element), NEW f \in FillValue,
         NEW data, data = compute_index_content("CHUNK_MINMAX", rows, f).data,
         o[i].kind = "CHUNK_MINMAX", o[i].dtype = "right",
         Len(o[i].data) >= Len(data), SubSeq(o[i].data, 1, Len(data)) = data,
         \A j \in 1..Len(data) : o[i].data[j] = data[j]
  PROVE  check_index(o, i, rows, f, TRUE)
<1> DEFINE d == o[i]
           n == Len(rows)
           count == data_chunk_count(n)
<1>1. /\ count \in Nat /\ data \in Seq(Entries) /\ Len(data) = count
      /\ \A j \in 1..count : data[j].n = Cardinality(ChunkRows(j - 1, n))
  BY MinmaxContent
<1> HIDE DEF count, n, d
<1>2. \A j \in 1..count : d.data[j] # Zero /\ d.data[j].n = Cardinality(ChunkRows(j - 1, n))
  <2>1. Zero \notin Entries
    BY IndexFileAssumption
  <2>2. \A j \in 1..count : d.data[j] = data[j]
    BY <1>1 DEF d
  <2>3. \A j \in 1..count : data[j] \in Entries
    BY <1>1
  <2> TAKE j \in 1..count
  <2> QED BY <1>1, <2>1, <2>2, <2>3
<1>3. d.dtype \in {"right", "half"} /\ Len(d.data) >= count
  BY <1>1 DEF d
<1>4. validate_minmax_structure(d, n)
  BY <1>2, <1>3, Zenon DEF validate_minmax_structure, count
<1>5. SubSeq(d.data, 1, data_chunk_count(Len(rows)))
        = compute_index_content("CHUNK_MINMAX", rows, f).data
  BY <1>1 DEF d, count, n
<1> QED BY <1>4, <1>5, Zenon DEF check_index, d, n

\* A SORTED_ROWS that begins with the permutation of its column does.
LEMMA SortedPasses ==
  ASSUME NEW o, NEW i, NEW rows \in Seq(Element), NEW f \in FillValue,
         NEW content, content = compute_index_content("SORTED_ROWS", rows, f),
         o[i].kind = "SORTED_ROWS", o[i].dtype = "right", o[i].top >= Len(rows) - 1,
         o[i].fills = content.fills, o[i].nans = content.nans, o[i].ordered = TRUE,
         Len(o[i].data) >= Len(content.data),
         SubSeq(o[i].data, 1, Len(content.data)) = content.data,
         \A j \in 1..Len(content.data) : o[i].data[j] = content.data[j]
  PROVE  check_index(o, i, rows, f, TRUE)
<1> DEFINE d == o[i]
           n == Len(rows)
           sorted == compute_sorted_rows(rows, n, f)
           data == content.data
<1>1. content = [data |-> sorted.perm, fills |-> sorted.fills, nans |-> sorted.nans]
  BY SortedRowsContent
<1>2. n \in Nat /\ \A r \in 1..n : rows[r] \in Element
  BY RowsTyped
<1> HIDE DEF n, d
<1>3. /\ Len(sorted.perm) = n /\ {sorted.perm[r] : r \in 1..n} = 1..n
      /\ sorted.fills \in Nat /\ sorted.nans \in Nat /\ sorted.fills + sorted.nans <= n
  BY <1>2, SortedWhole
<1> HIDE DEF sorted
<1>4. data = sorted.perm /\ content.fills = sorted.fills /\ content.nans = sorted.nans
  BY <1>1
<1>5. Len(data) = n /\ {data[r] : r \in 1..n} = 1..n
  BY <1>3, <1>4
<1>6. \A r \in 1..n : d.data[r] = data[r]
  BY <1>5 DEF d
<1>7. {d.data[r] : r \in 1..n} = {data[r] : r \in 1..n}
  BY <1>6
<1>8. {d.data[r] : r \in 1..n} = 1..n
  BY <1>5, <1>7, Zenon
<1>9. d.top >= n - 1 /\ Len(d.data) >= n
  BY <1>5 DEF d, n
<1>10. None \notin {d.fills, d.nans} /\ d.fills + d.nans <= n
  BY <1>3, <1>4, IndexFileAssumption DEF d
<1>11. validate_sorted_rows_structure(d, n)
  <2>1. d.dtype = "right" /\ d.ordered = TRUE
    BY DEF d
  <2> QED BY <1>8, <1>9, <1>10, <2>1, Zenon DEF validate_sorted_rows_structure
<1>12. SubSeq(d.data, 1, Len(rows)) = compute_index_content("SORTED_ROWS", rows, f).data
  BY <1>5 DEF d, n
<1> QED BY <1>11, <1>12, Zenon DEF check_index, d, n

\* A BITMAP of all values, or of all but the first that does not claim to be exhaustive, does.
LEMMA BitmapRight ==
  ASSUME NEW o, NEW i, NEW rows \in Seq(Element), NEW f \in FillValue,
         NEW content, content = compute_index_content("BITMAP", rows, f),
         o[i].kind = "BITMAP", o[i].dtype = "right", o[i].width >= content.width,
         NEW v, v # NoName, o[i].values = v, o[v].dtype = "right", o[v].kind = None,
         \/ /\ o[i].data = content.data /\ o[i].exhaustive = content.exhaustive
            /\ o[v].data = content.enum
         \/ /\ Len(content.data) > 0 /\ o[i].exhaustive = FALSE
            /\ o[i].data = Tail(content.data) /\ o[v].data = Tail(content.enum)
  PROVE  check_index(o, i, rows, f, TRUE)
<1> DEFINE d == o[i]
           x == o[v]
           n == Len(rows)
           bits == Bits * bitmap_bytes(n)
           data == content.data
           enum == content.enum
           S == SUBSET (1..n)
<1>1. data \in Seq(S) /\ enum \in Seq(Int) /\ Len(data) = Len(enum) /\ content.width = bitmap_bytes(n)
  BY BitmapContent
<1>2. /\ deep_check_bitmap([data |-> content.data, exhaustive |-> content.exhaustive],
                            content.enum, rows, f)
      /\ n % Bits # 0 => \A k \in DOMAIN data : data[k] \cap (n + 1)..bits = {}
  <2> DEFINE e == [data |-> content.data, exhaustive |-> content.exhaustive]
  <2>1. e.data = content.data /\ e.exhaustive = content.exhaustive
    OBVIOUS
  <2> HIDE DEF e
  <2>2. /\ deep_check_bitmap(e, content.enum, rows, f)
        /\ Len(rows) % Bits # 0 =>
             \A k \in DOMAIN e.data :
               e.data[k] \cap (Len(rows) + 1)..(Bits * bitmap_bytes(Len(rows))) = {}
    BY <2>1, BitmapPasses
  <2> QED BY <2>1, <2>2 DEF e
<1>3. \A k \in DOMAIN enum : data[k] \cap 1..bits = Bitset(rows, enum[k])
  BY <1>2 DEF deep_check_bitmap
<1>4. deep_check_bitmap(d, x.data, rows, f) /\ Len(d.data) = Len(x.data)
      /\ (n % Bits # 0 => \A k \in DOMAIN d.data : d.data[k] \cap (n + 1)..bits = {})
  <2>1. CASE /\ d.data = data /\ d.exhaustive = content.exhaustive /\ x.data = enum
    <3>1. deep_check_bitmap(d, enum, rows, f)
      BY <1>2, <2>1 DEF deep_check_bitmap
    <3> QED BY <1>1, <1>2, <2>1, <3>1
  <2>2. CASE /\ Len(data) > 0 /\ d.exhaustive = FALSE /\ d.data = Tail(data) /\ x.data = Tail(enum)
    <3> HIDE DEF d, x, S, data, enum, bits, n
    <3>1. /\ Tail(data) \in Seq(S) /\ Len(Tail(data)) = Len(data) - 1
          /\ \A k \in 1..(Len(data) - 1) : Tail(data)[k] = data[k + 1]
      BY <1>1, <2>2, TailOf
    <3>2. /\ Tail(enum) \in Seq(Int) /\ Len(Tail(enum)) = Len(data) - 1
          /\ \A k \in 1..(Len(data) - 1) : Tail(enum)[k] = enum[k + 1]
      BY <1>1, <2>2, TailOf
    <3>3. /\ Len(data) \in Nat /\ DOMAIN data = 1..Len(data) /\ DOMAIN enum = 1..Len(data)
          /\ DOMAIN Tail(data) = 1..(Len(data) - 1) /\ DOMAIN Tail(enum) = 1..(Len(data) - 1)
      BY <1>1, <3>1, <3>2
    <3>4. ASSUME NEW k \in 1..(Len(data) - 1) PROVE k + 1 \in 1..Len(data)
      BY <3>3
    <3>5. \A k \in DOMAIN Tail(enum) : Tail(data)[k] \cap 1..bits = Bitset(rows, Tail(enum)[k])
      BY <1>3, <3>1, <3>2, <3>3, <3>4
    <3>6. n % Bits # 0 => \A k \in DOMAIN Tail(data) : Tail(data)[k] \cap (n + 1)..bits = {}
      BY <1>2, <3>1, <3>3, <3>4
    <3>7. deep_check_bitmap(d, x.data, rows, f)
      BY <2>2, <3>5 DEF deep_check_bitmap, bits, n
    <3> QED BY <2>2, <3>1, <3>2, <3>6, <3>7
  <2> QED BY <2>1, <2>2
<1>5. validate_bitmap_structure(o, d, n)
  <2>1. d.width >= bitmap_bytes(n) /\ d.dtype = "right" /\ d.values = v
    BY <1>1
  <2> HIDE DEF n, d
  <2> QED BY <1>4, <2>1, Zenon DEF validate_bitmap_structure, x, bits
<1>6. deep_check_bitmap(d, o[d.values].data, rows, f)
  BY <1>4
<1> QED BY <1>5, <1>6, Zenon DEF check_index, d, n

-----------------------------------------------------------------------------
(* What is harmless from the start.                                        *)

\* What a layout another producer is free to choose keeps of an index.
Freely(how, e, d) ==
  /\ e.dtype = "right" /\ e.sn = d.sn /\ e.kind = d.kind /\ e.values = d.values
  /\ e.top >= nrows - 1 /\ e.fills = d.fills /\ e.nans = d.nans
  /\ d.kind # "BITMAP" =>
       e.ordered = d.ordered /\ (e.data = d.data \/ e.data = Append(d.data, Zero))
  /\ d.kind = "BITMAP" =>
       /\ e.width >= d.width
       /\ IF how = "partial" /\ Len(d.data) > 0
          THEN e.exhaustive = FALSE /\ e.data = Tail(d.data)
          ELSE e.exhaustive = d.exhaustive /\ e.data = d.data

\* A layout another producer is free to choose, of an index of a known kind.
LEMMA FreeIndex ==
  ASSUME NEW how \in (Harmless \ {"future"}) \cup {"none"}, NEW d, IsDataset(d),
         d.dtype = "right", d.top = Endless, nrows \in Nat, nrows <= MaxRows,
         NEW e, e = Altered(how, d)
  PROVE  Freely(how, e, d)
<1> DEFINE n == nrows
           data == d.data
<1>1. /\ d = [x \in DOMAIN Bare |-> d[x]] /\ d.width \in Nat /\ Len(data) \in Nat
      /\ n \in Nat /\ n <= MaxRows /\ MaxRows \in Nat /\ Endless \in Nat /\ Endless > MaxRows + 1
  BY IndexFileAssumption DEF IsDataset
<1>2. Endless >= n - 1 /\ n >= n - 1 /\ d.width + 1 >= d.width
  BY <1>1
<1> HIDE DEF n, data
<1>3. CASE how \in {"ours", "unlinked", "none"}
  <2>1. e = d
    BY <1>3, Zenon DEF Altered
  <2> QED BY <2>1, <1>1, <1>2, <1>3 DEF Freely, n
<1>4. CASE how = "fixed"
  <2>1. e = [d EXCEPT !.limit = 0]
    BY <1>4, Zenon DEF Altered
  <2> QED BY <2>1, <1>1, <1>2, <1>4, BareFields DEF Freely, n
<1>5. CASE how = "longer"
  <2>1. CASE d.kind = "BITMAP"
    <3> DEFINE w == d.width + 1
    <3>1. e = [d EXCEPT !.width = w]
      BY <1>1, <1>5, <2>1 DEF Altered
    <3>2. w >= d.width
      BY <1>2
    <3> HIDE DEF w
    <3> QED BY <3>1, <3>2, <1>1, <1>2, <1>5, <2>1, BareFields DEF Freely, n
  <2>2. CASE d.kind # "BITMAP"
    <3>1. e = [d EXCEPT !.data = Append(data, Zero)]
      BY <1>5, <2>2 DEF Altered, data
    <3> QED BY <3>1, <1>1, <1>2, <2>2, BareFields DEF Freely, n, data
  <2> QED BY <2>1, <2>2
<1>6. CASE how = "short"
  <2>1. e = [d EXCEPT !.top = n]
    BY <1>6, Zenon DEF Altered, n
  <2> QED BY <2>1, <1>1, <1>2, <1>6, BareFields DEF Freely, n
<1>7. CASE how = "partial"
  <2>1. CASE d.kind = "BITMAP" /\ Len(data) > 0
    <3>1. e = [d EXCEPT !.data = Tail(data), !.exhaustive = FALSE, !.ordered = None]
      BY <1>7, <2>1 DEF Altered, data
    <3> QED BY <3>1, <1>1, <1>2, <1>7, <2>1, BareFields DEF Freely, n, data
  <2>2. CASE ~(d.kind = "BITMAP" /\ Len(data) > 0)
    <3>1. e = d
      BY <1>7, <2>2, Zenon DEF Altered, data
    <3> QED BY <3>1, <1>1, <1>2, <2>2 DEF Freely, n, data
  <2> QED BY <2>1, <2>2
<1> QED BY <1>3, <1>4, <1>5, <1>6, <1>7 DEF Harmless

\* The values of a bitmap, all or all but the first.
FreeList(how, d, enum) ==
  /\ d.dtype = "right" /\ d.kind = None
  /\ d.data = IF how = "partial" /\ Len(enum) > 0 THEN Tail(enum) ELSE enum

\* A layout another producer is free to choose for them.
LEMMA FreeValues ==
  ASSUME NEW how \in Harmless \cup {"none"}, NEW c, NEW rows \in Seq(Element),
         fill[c] \in FillValue
  PROVE  FreeList(how, AlteredValues(how, OurValues(c, rows)),
                  compute_index_content("BITMAP", rows, fill[c]).enum)
<1> DEFINE e == AlteredValues(how, OurValues(c, rows))
           enum == compute_index_content("BITMAP", rows, fill[c]).enum
<1> SUFFICES FreeList(how, e, enum)
  OBVIOUS
<1> DEFINE T == Range(enum)
           d == OurValues(c, rows)
<1>1. enum \in Seq(T)
  BY ContentTyped DEF Kinds
<1>2. d = [Bare EXCEPT !.data = enum]
  BY DEF OurValues
<1> HIDE DEF T, enum
<1>3. /\ d = [x \in DOMAIN Bare |-> d[x]] /\ d.data = enum /\ d.kind = None /\ d.dtype = "right"
  BY <1>2 DEF Bare
<1> HIDE DEF d
<1>4. enum = <<>> <=> ~(Len(enum) > 0)
  BY <1>1
<1> HIDE DEF e
<1>5. CASE how = "fixed"
  <2>1. e = [d EXCEPT !.limit = 0]
    BY <1>5, Zenon DEF AlteredValues, d, e
  <2> QED BY <2>1, <1>3, <1>5, BareFields DEF FreeList
<1>6. CASE how = "partial"
  <2> DEFINE other == IF enum = <<>> THEN enum ELSE Tail(enum)
  <2>1. e = [d EXCEPT !.data = other]
    BY <1>3, <1>6 DEF AlteredValues, d, e
  <2>2. other = IF how = "partial" /\ Len(enum) > 0 THEN Tail(enum) ELSE enum
    BY <1>4, <1>6
  <2> HIDE DEF other
  <2> QED BY <2>1, <2>2, <1>3, BareFields DEF FreeList
<1>7. CASE how \in Harmless \cup {"none"} /\ how \notin {"fixed", "partial"}
  <2>1. how \notin {"fixed", "partial", "overclaim", "kinded", "dtype"}
    BY <1>7 DEF Harmless
  <2>2. e = d
    BY <2>1, Zenon DEF AlteredValues, d, e
  <2> QED BY <2>1, <2>2, <1>3, <1>7 DEF FreeList
<1> QED BY <1>5, <1>6, <1>7

\* Index i, made from these rows and laid out freely, with its values v.
FreeAt(o, how, i, rows, v) ==
  /\ Freely(how, o[i], OurIndex(i[2], i[1], rows))
  /\ i[2] = "BITMAP" =>
       FreeList(how, o[v], compute_index_content("BITMAP", rows, fill[i[1]]).enum)

\* It passes the deep check.
LEMMA FreePasses ==
  ASSUME NEW o, NEW how, NEW i \in Columns \X Kinds, NEW rows \in Seq(Element),
         fill[i[1]] \in FillValue, Len(rows) = nrows, FreeAt(o, how, i, rows, ValuesOf(i))
  PROVE  check_index(o, i, rows, fill[i[1]], TRUE)
<1> DEFINE kind == i[2]
           c == i[1]
           f == fill[c]
           d == OurIndex(kind, c, rows)
           content == compute_index_content(kind, rows, f)
           v == ValuesOf(i)
           w == o[i].data
<1>1. kind \in Kinds /\ c \in Columns /\ f \in FillValue /\ i \in Names
  BY IndexNames
<1>2. OurForm(d, kind, c, rows) /\ OurData(d, kind, content)
  BY <1>1, OurContent
<1>3. Freely(how, o[i], d)
  BY DEF FreeAt
<1>4. content.data \in Seq(Range(content.data))
  BY <1>1, ContentTyped
<1> HIDE DEF d, content, kind, c, f
<1>5. /\ o[i].kind = kind /\ o[i].dtype = "right" /\ o[i].top >= Len(rows) - 1
      /\ o[i].values = d.values
  BY <1>2, <1>3 DEF Freely, OurForm
<1>6. ASSUME kind # "BITMAP"
      PROVE  /\ Len(w) \in Nat /\ Len(w) >= Len(content.data)
             /\ SubSeq(w, 1, Len(content.data)) = content.data
             /\ \A j \in 1..Len(content.data) : w[j] = content.data[j]
  <2>1. w = content.data \/ w = Append(content.data, Zero)
    BY <1>2, <1>3, <1>6 DEF Freely, OurForm, OurData
  <2> DEFINE data == content.data
             T == Range(data)
  <2>2. data \in Seq(T) /\ Behind(w, data)
    BY <1>4, <2>1 DEF Behind
  <2> HIDE DEF w, data, T
  <2>3. Begins(w, data)
    BY <2>2, Longer, Zenon
  <2> QED BY <2>3 DEF Begins, data
<1>7. CASE kind = "CHUNK_MINMAX"
  <2> DEFINE data == content.data
  <2>1. data = compute_index_content("CHUNK_MINMAX", rows, f).data
    BY <1>7 DEF content
  <2>2. /\ o[i].kind = "CHUNK_MINMAX" /\ Len(o[i].data) >= Len(data)
        /\ SubSeq(o[i].data, 1, Len(data)) = data
        /\ \A j \in 1..Len(data) : o[i].data[j] = data[j]
    BY <1>5, <1>6, <1>7
  <2> HIDE DEF data
  <2>3. check_index(o, i, rows, f, TRUE)
    BY <1>1, <1>5, <2>1, <2>2, MinmaxPasses
  <2> QED BY <2>3 DEF f, c
<1>8. CASE kind = "SORTED_ROWS"
  <2>1. content = compute_index_content("SORTED_ROWS", rows, f)
    BY <1>8 DEF content
  <2>2. o[i].fills = content.fills /\ o[i].nans = content.nans /\ o[i].ordered = TRUE
    BY <1>2, <1>3, <1>8 DEF Freely, OurForm, OurData
  <2>3. /\ o[i].kind = "SORTED_ROWS" /\ Len(o[i].data) >= Len(content.data)
        /\ SubSeq(o[i].data, 1, Len(content.data)) = content.data
        /\ \A j \in 1..Len(content.data) : o[i].data[j] = content.data[j]
    BY <1>5, <1>6, <1>8
  <2>4. check_index(o, i, rows, f, TRUE)
    BY <1>1, <1>5, <2>1, <2>2, <2>3, SortedPasses
  <2> QED BY <2>4 DEF f, c
<1>9. CASE kind = "BITMAP"
  <2> DEFINE enum == content.enum
             part == how = "partial" /\ Len(content.data) > 0
  <2>1. content = compute_index_content("BITMAP", rows, f)
    BY <1>9 DEF content
  <2>2. Len(content.data) = Len(enum)
    BY <1>1, <2>1, BitmapContent
  <2>3. v # NoName /\ o[i].values = v
    <3>1. d.values = v
      BY <1>2, <1>9 DEF OurForm, ValuesOf, c
    <3> QED BY <3>1, <1>1, <1>5, IndexNames, IndexFileAssumption
  <2>4. /\ o[i].width >= content.width
        /\ IF part THEN o[i].exhaustive = FALSE /\ o[i].data = Tail(content.data)
           ELSE o[i].exhaustive = content.exhaustive /\ o[i].data = content.data
    BY <1>2, <1>3, <1>9 DEF Freely, OurForm, OurData
  <2>5. /\ o[v].dtype = "right" /\ o[v].kind = None
        /\ o[v].data = IF part THEN Tail(enum) ELSE enum
    <3>1. /\ o[v].dtype = "right" /\ o[v].kind = None
          /\ o[v].data = IF how = "partial" /\ Len(enum) > 0 THEN Tail(enum) ELSE enum
      BY <1>9, <2>1 DEF FreeAt, FreeList, kind, c, f
    <3> QED BY <2>2, <3>1
  <2>6. part => Len(content.data) > 0
    OBVIOUS
  <2> HIDE DEF part, enum, v
  <2>7. \/ /\ o[i].data = content.data /\ o[i].exhaustive = content.exhaustive
           /\ o[v].data = content.enum
        \/ /\ Len(content.data) > 0 /\ o[i].exhaustive = FALSE
           /\ o[i].data = Tail(content.data) /\ o[v].data = Tail(content.enum)
    BY <2>4, <2>5, <2>6 DEF enum
  <2>8. check_index(o, i, rows, f, TRUE)
    BY <1>1, <1>5, <1>9, <2>1, <2>3, <2>4, <2>5, <2>7, BitmapRight
  <2> QED BY <2>8 DEF f, c
<1> QED BY <1>1, <1>7, <1>8, <1>9 DEF Kinds

\* What another producer left, if it is harmless, is right and complete.
LEMMA PlantedRight ==
  ASSUME Init, NEW how \in Harmless \cup {"none"}, NEW kind \in Kinds, NEW source \in {0, 1},
         NEW rows \in Sources(how), Planted(how, kind, source, rows)
  PROVE  ValidRight /\ Orderly
<1> DEFINE i == <<c0, kind>>
           v == <<c0, "values">>
           d == OurIndex(kind, c0, rows)
           a == Altered(how, d)
           e == [a EXCEPT !.sg = source]
           u == AlteredValues(how, OurValues(c0, rows))
           n == nrows
           known == IF how = "future" THEN "FUTURE_KIND" ELSE kind
<1>1. /\ rows \in Seq(Element) /\ Len(rows) = n /\ fill[c0] \in FillValue
      /\ n \in Nat /\ n <= MaxRows
  BY PlantedRows, InitColumns DEF ColumnsFit
<1>2. rows = col[c0]
  BY DEF Sources, Harmless
<1>3. /\ i \in Columns \X Kinds /\ i \in Names /\ v \in Names /\ v # i /\ ValuesOf(i) = v
      /\ i[1] = c0 /\ i[2] = kind /\ v \notin Columns \X Kinds
      /\ v[1] = c0 /\ v = ValuesOf(v)
  <2>1. i \in Columns \X Kinds
    BY FirstColumn
  <2> QED BY <2>1, IndexNames DEF ValuesOf
<1>4. /\ obj = [m \in Names |-> IF m = i THEN e ELSE IF m = v /\ kind = "BITMAP" THEN u ELSE Absent]
      /\ gen = 1 /\ call = NoCall /\ plant = [how |-> how, kind |-> kind]
  BY DEF Planted, Init
<1>5. OurForm(d, kind, c0, rows)
  BY <1>1, OurFits
<1>6. /\ IsDataset(d) /\ d.kind = kind /\ d.dtype = "right" /\ d.top = Endless /\ d.sn = n
      /\ d.values = (IF kind = "BITMAP" THEN v ELSE NoName)
  BY <1>1, <1>5 DEF OurForm
<1>7. /\ e.sg = source /\ e.sn = n /\ e.kind = known /\ e.values = d.values
      /\ how # "future" => Freely(how, e, d)
  <2> HIDE DEF d
  <2>1. Alike(a, d)
    BY <1>1, <1>6, AlteredFits
  <2>2. how # "future" => Freely(how, a, d)
    BY <1>1, <1>6, FreeIndex
  <2>3. CASE how = "future"
    <3>1. a = [d EXCEPT !.kind = "FUTURE_KIND"]
      BY <2>3, Zenon DEF Altered
    <3>2. d = [x \in DOMAIN Bare |-> d[x]]
      BY <1>6 DEF IsDataset
    <3>3. a.kind = "FUTURE_KIND" /\ a.values = d.values
      BY <3>1, <3>2, BareFields
    <3> HIDE DEF a
    <3>4. a = [x \in DOMAIN Bare |-> a[x]] /\ a.sn = n
      BY <2>1, <1>6 DEF Alike, IsDataset
    <3> QED BY <2>3, <3>3, <3>4, BareFields
  <2>4. CASE how # "future"
    <3> HIDE DEF a
    <3>1. a = [x \in DOMAIN Bare |-> a[x]]
      BY <2>1 DEF Alike, IsDataset
    <3>2. Freely(how, a, d) /\ a.sn = n /\ a.kind = kind /\ a.values = d.values
      BY <2>2, <2>4, <1>6 DEF Freely
    <3>3. e.sg = source /\ \A x \in DOMAIN Bare \ {"sg"} : e[x] = a[x]
      BY <3>1
    <3> HIDE DEF e
    <3>4. /\ e.kind = a.kind /\ e.dtype = a.dtype /\ e.sn = a.sn /\ e.values = a.values
          /\ e.top = a.top /\ e.fills = a.fills /\ e.nans = a.nans /\ e.ordered = a.ordered
          /\ e.data = a.data /\ e.width = a.width /\ e.exhaustive = a.exhaustive
      BY <3>3, BareFields
    <3>5. Freely(how, e, d)
      BY <3>2, <3>4 DEF Freely
    <3> QED BY <2>4, <3>2, <3>3, <3>4, <3>5
  <2> QED BY <2>3, <2>4
<1>8. FreeList(how, u, compute_index_content("BITMAP", rows, fill[c0]).enum) /\ u.kind = None
  <2>1. FreeList(how, u, compute_index_content("BITMAP", rows, fill[c0]).enum)
    BY <1>1, FreeValues
  <2> QED BY <2>1 DEF FreeList
<1>9. /\ None \notin Nat \cup Kinds \cup {"FUTURE_KIND"} /\ known \in {kind, "FUTURE_KIND"}
      /\ "FUTURE_KIND" \notin Kinds
  BY IndexFileAssumption DEF SEARCH_INDEX_KINDS, Kinds
<1>10. obj[i] = e /\ (kind = "BITMAP" => obj[v] = u)
  BY <1>3, <1>4
<1>11. d = OurIndex(i[2], i[1], rows) /\ fill[i[1]] = fill[c0]
  BY <1>3
<1> HIDE DEF d, e, u, i, v, known
<1>12. Rule9(i, i[1], TRUE)
  <2>1. CASE how = "future"
    <3>1. obj[i].kind \notin Kinds
      BY <2>1, <1>7, <1>9, <1>10 DEF known
    <3> QED BY <3>1, OtherKinds DEF Rule9
  <2>2. CASE how # "future"
    <3>1. FreeAt(obj, how, i, rows, ValuesOf(i))
      BY <2>2, <1>3, <1>7, <1>8, <1>10, <1>11 DEF FreeAt
    <3>2. check_index(obj, i, rows, fill[i[1]], TRUE)
      BY <1>1, <1>3, <1>11, <3>1, FreePasses DEF n
    <3> QED BY <3>2, <1>2, <1>3 DEF Rule9
  <2> QED BY <2>1, <2>2
<1>13. ValidRight
  <2> SUFFICES ASSUME NEW m \in Columns \X Kinds, index_is_valid(m) PROVE m = i
    BY <1>12 DEF ValidRight
  <2>1. m \in Names /\ m # v
    BY <1>3, IndexNames
  <2>2. obj[m] # Absent
    BY <1>4, <1>9, AbsentFits DEF index_is_valid
  <2> QED BY <1>4, <2>1, <2>2
<1>14. Orderly
  <2> SUFFICES ASSUME NEW m \in Names, obj[m].dtype # "absent" PROVE OrderlyAt(obj, m)
    BY DEF Orderly, Members
  <2>1. m = i \/ (m = v /\ kind = "BITMAP")
    BY <1>4, AbsentFits
  <2>2. CASE m = i
    BY <2>2, <1>1, <1>7, <1>9, <1>10 DEF OrderlyAt
  <2>3. CASE m = v /\ kind = "BITMAP"
    <3>1. <<m[1], "BITMAP">> = i
      BY <2>3, <1>3 DEF i
    <3> QED BY <2>3, <3>1, <1>3, <1>6, <1>7, <1>8, <1>9, <1>10 DEF OrderlyAt, known
  <2> QED BY <2>1, <2>2, <2>3
<1> QED BY <1>13, <1>14

-----------------------------------------------------------------------------
(* The theorems.                                                           *)

\* A valid index of either sort of name passes the deep check.
LEMMA ValidPasses ==
  ASSUME Typed, ValidRight, Ours, NEW m \in Names, index_is_valid(m)
  PROVE  Rule9(m, m[1], TRUE)
<1>1. CASE m \in Columns \X Kinds
  BY <1>1 DEF ValidRight
<1>2. CASE m \notin Columns \X Kinds
  <2>1. m[2] \notin Kinds
    BY <1>2 DEF Names
  <2>2. obj[m].kind \notin Kinds
    BY <2>1 DEF Typed, DatasetsFit, Fits, Named
  <2> QED BY <2>2, OtherKinds DEF Rule9
<1> QED BY <1>1, <1>2

\* The inductive invariant implies what a dead builder may leave.
LEMMA HarmlessEnough ==
  ASSUME FileInv
  PROVE  DeadBuilderHarmless
<1> SUFFICES ASSUME Ours, NEW i \in search_index_datasets, index_is_valid(i)
             PROVE  Rule9(i, i[1], TRUE) /\ TellsTruth(i, i[1])
  BY Zenon DEF DeadBuilderHarmless, Ours
<1>1. i \in Names /\ i[1] \in Columns
  BY DEF search_index_datasets, Members, Names
<1>2. Rule9(i, i[1], TRUE)
  BY <1>1, ValidPasses DEF FileInv, Typed
<1>3. TellsTruth(i, i[1])
  BY <1>1, <1>2, DeepTruth DEF FileInv, Rule9
<1> QED BY <1>2, <1>3

\* And that validate(deep=True) accepts the file.
LEMMA AcceptedEnough ==
  ASSUME FileInv
  PROVE  Accepted
<1> SUFFICES ASSUME Idle, ~killed, Ours PROVE validate_search_indexes(TRUE)
  BY DEF Accepted, Ours
<1>1. \A m \in Members : OrderlyAt(obj, m)
  BY DEF FileInv, Orderly, Made
<1>2. Rule3
  <2> SUFFICES ASSUME NEW m \in Names, obj[m].dtype # "absent", obj[m].kind = None
               PROVE  m \in Vouched
    BY DEF Rule3, Members, search_index_datasets
  <2> DEFINE b == <<m[1], "BITMAP">>
  <2>1. b \in Names
    BY DEF Names, Kinds
  <2>2. obj[b].kind \in {"BITMAP", "FUTURE_KIND"} /\ obj[b].values = m
    BY <1>1 DEF OrderlyAt, Members
  <2>3. obj[b].kind # None /\ obj[b].kind \notin SEARCH_INDEX_KINDS \ {"BITMAP"}
    BY <2>2, IndexFileAssumption DEF SEARCH_INDEX_KINDS, Kinds
  <2>4. obj[b].dtype # "absent"
    BY <2>1, <2>3, AbsentFits DEF FileInv, DatasetsFit, Dated
  <2> HIDE DEF b
  <2>5. b \in search_index_datasets
    BY <2>1, <2>3, <2>4 DEF search_index_datasets, Members
  <2> QED BY <2>2, <2>3, <2>5 DEF Vouched
<1>3. Rule12
  <2>1. ASSUME NEW i \in search_index_datasets
        PROVE  gen # None /\ obj[i].sg # None /\ obj[i].sn # None
    <3>1. i \in Members /\ i \in Names /\ obj[i].kind # None
      BY DEF search_index_datasets, Members
    <3>2. gen # None
      BY <3>1, AbsentFits DEF FileInv, DatasetsFit, Dated
    <3> QED BY <3>1, <3>2, <1>1 DEF OrderlyAt
  <2> QED BY <2>1 DEF Rule12
<1>4. Rule4
  <2> SUFFICES ASSUME NEW c \in Columns, NEW i \in Linked(c)
               PROVE  i \in search_index_datasets /\ Claimants(i) = {c}
    BY DEF Rule4
  <2>1. i \in search_index_datasets
    BY LinkedIndexes DEF FileInv
  <2>2. \A x \in Claimants(i) : x = c
    BY LinkedIndexes DEF FileInv, Claimants
  <2> QED BY <2>1, <2>2 DEF Claimants
<1>5. ASSUME NEW c \in Columns, NEW i \in Linked(c), index_is_valid(i)
      PROVE  Rule9(i, c, TRUE)
  <2>1. i \in Names /\ i[1] = c
    BY LinkedIndexes DEF FileInv
  <2>2. Rule9(i, i[1], TRUE)
    BY <1>5, <2>1, ValidPasses DEF FileInv, Typed
  <2> QED BY <2>1, <2>2
<1> QED BY <1>2, <1>3, <1>4, <1>5, Zenon DEF validate_search_indexes

\* The inductive invariant: the types, that what claims to be valid would pass the
\* deep check although nobody looks, and that nothing is left half made.
THEOREM FileKept == Spec => []FileInv
<1>1. Init => FileInv
  <2> SUFFICES ASSUME Init PROVE ValidRight /\ Orderly
    BY InitTyped DEF FileInv, Typed
  <2>1. CASE /\ plant.how = "none" /\ gen = None
             /\ obj = [m \in Names |-> Absent] /\ links = [c \in Columns |-> <<>>]
    BY <2>1, AbsentFits DEF ValidRight, index_is_valid, Orderly, Members
  <2>2. CASE \E how \in Plants, kind \in Kinds, source \in {0, 1} :
               \E rows \in Sources(how) : Planted(how, kind, source, rows)
    <3> PICK how \in Plants, kind \in Kinds, source \in {0, 1} :
               \E rows \in Sources(how) : Planted(how, kind, source, rows)
      BY <2>2
    <3> PICK rows \in Sources(how) : Planted(how, kind, source, rows)
      OBVIOUS
    <3>1. CASE how \in Harmless \cup {"none"}
      BY <3>1, PlantedRight
    <3>2. CASE how \notin Harmless \cup {"none"}
      <4>1. plant.how = how
        BY DEF Planted
      <4> QED BY <3>2, <4>1 DEF ValidRight, Orderly, Ours
    <3> QED BY <3>1, <3>2
  <2> QED BY <2>1, <2>2, InitCases
<1>2. FileInv /\ [Next]_vars => FileInv'
  <2> SUFFICES ASSUME FileInv, [Next]_vars PROVE Typed' /\ ValidRight' /\ Orderly'
    BY DEF FileInv, Typed
  <2>1. Typed /\ ValidRight /\ Orderly
    BY DEF FileInv, Typed
  <2> QED BY <2>1, NextTyped, NextRight, NextOrderly
<1> QED BY <1>1, <1>2, PTL DEF Spec

\* In a file of our own indexes and harmless ones of others, in which no builder
\* died, every call leaves what validate(deep=True) accepts.
THEOREM AlwaysAccepted == Spec => []Accepted
<1>1. FileInv => Accepted
  BY AcceptedEnough
<1> QED BY <1>1, FileKept, PTL

\* What a builder that died leaves in such a file is complete and true, or no
\* query believes it.
THEOREM DeadBuildersHarmless == Spec => []DeadBuilderHarmless
<1>1. FileInv => DeadBuilderHarmless
  BY HarmlessEnough
<1> QED BY <1>1, FileKept, PTL
=============================================================================
