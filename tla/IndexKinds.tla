------------------------------ MODULE IndexKinds ------------------------------
(***************************************************************************)
(* The three search-index kinds: what indexes.py computes from the first n *)
(* rows of a column, and what searchindex.py answers from that content.    *)
(* A column is a sequence of numbers and NaNs; row r of the file is r + 1  *)
(* here.  Operators on values are exact, as the source takes care they are *)
(* (Python objects, or NumPy where it provably agrees).                    *)
(***************************************************************************)
EXTENDS Integers, Sequences, FiniteSets, SequencesExt, FiniteSetsExt, Sorting

CONSTANTS
  ChunkLen,  \* rows per chunk of the column
  NaN,       \* the float that compares with nothing
  NoFill,    \* no user-defined fill value
  CannotSay  \* the answer of a bitmap that cannot tell

ASSUME KindsAssumption ==
  /\ ChunkLen \in Nat \ {0}
  /\ NaN \notin Int /\ NoFill \notin Int \cup {NaN}

OrderOps == {"<", "<=", ">", ">="}

\* x op v for one stored element; "between" takes a pair and "in" a set.
Compare(x, op, v) ==
  CASE op = "in"      -> x \in v
    [] op = "=="      -> x = v
    [] op = "between" -> x # NaN /\ v[1] <= x /\ x <= v[2]
    [] op = "<"       -> x # NaN /\ x < v
    [] op = "<="      -> x # NaN /\ x <= v
    [] op = ">"       -> x # NaN /\ x > v
    [] op = ">="      -> x # NaN /\ x >= v

\* The canonical missing test; a NaN fill marks the NaN rows.
is_missing(x, fill) == fill # NoFill /\ x = fill

Orderable(x, fill) == ~is_missing(x, fill) /\ x # NaN

-----------------------------------------------------------------------------
(* CHUNK_MINMAX.                                                           *)

data_chunk_count(n) == (n + ChunkLen - 1) \div ChunkLen

ChunkRows(c, n) == {r \in 1..n : (r - 1) \div ChunkLen = c}

\* Per chunk: the bounds of its present numbers and how many rows are none;
\* without any, the bounds are placeholders.
compute_chunk_minmax(col, n, fill) ==
  [c \in 0..(data_chunk_count(n) - 1) |->
     LET rows   == ChunkRows(c, n)
         values == {col[r] : r \in {r \in rows : Orderable(col[r], fill)}}
         none   == IF fill # NoFill THEN fill ELSE NaN
     IN  [min  |-> IF values = {} THEN none ELSE Min(values),
          max  |-> IF values = {} THEN none ELSE Max(values),
          nans |-> Cardinality({r \in rows : col[r] = NaN}),
          fills |-> Cardinality({r \in rows : is_missing(col[r], fill)}),
          n    |-> Cardinality(rows)]]

\* A chunk with at least one present number.  With a NaN fill, or none, every
\* unorderable element is a NaN and may be counted twice.
Usable(e, fill) ==
  IF fill \notin {NaN, NoFill}
    THEN e.fills + e.nans < e.n
    ELSE (IF e.fills > e.nans THEN e.fills ELSE e.nans) < e.n

\* The chunks that may hold a match.
prune(entries, op, v, fill) ==
  {c \in DOMAIN entries :
     LET e == entries[c] IN
     /\ Usable(e, fill)
     /\ CASE op = "between"      -> v[1] <= v[2] /\ e.min <= v[2] /\ e.max >= v[1]
          [] op = "=="           -> e.min <= v /\ v <= e.max
          [] op \in {"<", "<="}  -> Compare(e.min, op, v)
          [] op \in {">", ">="}  -> Compare(e.max, op, v)}

chunks_to_rows(chunks, n) == UNION {ChunkRows(c, n) : c \in chunks}

-----------------------------------------------------------------------------
(* SORTED_ROWS.                                                            *)

\* The present numbers sorted, equal ones in row order; then the missing rows;
\* then the NaN rows, missing or not.
compute_sorted_rows(col, n, fill) ==
  LET nans  == {r \in 1..n : col[r] = NaN}
      fills == {r \in 1..n : is_missing(col[r], fill)} \ nans
      body  == (1..n) \ (nans \cup fills)
      row   == [r \in 1..n |-> r]
  IN  [perm  |-> Ordered(body, col) \o Ordered(fills, row) \o Ordered(nans, row),
       fills |-> Cardinality(fills), nans |-> Cardinality(nans)]

\* Binary search for the first place of 0..(size - 1) that is in a set, which
\* has every place behind one it has; size if there is none.
First(places, size) ==
  LET search[span \in (0..size) \X (0..size)] ==
        LET lo  == span[1]
            hi  == span[2]
            mid == (lo + hi) \div 2
        IN  IF lo >= hi THEN lo
            ELSE IF mid \in places THEN search[<<lo, mid>>] ELSE search[<<mid + 1, hi>>]
  IN  search[<<0, size>>]

\* Mutant: a slice of equal values ends one element early.
sorted_rows_short(col, n, content, op, v) ==
  LET body == n - content.nans - content.fills
      At(i) == col[content.perm[i + 1]]
      From(bound) == First({i \in 0..(body - 1) : At(i) >= bound}, body)
      Past(bound) == First({i \in 0..(body - 1) : At(i) > bound}, body)
      slice == CASE op = "between" -> <<From(v[1]), Past(v[2])>>
                 [] op = "<"  -> <<0, From(v)>>
                 [] op = "<=" -> <<0, From(v)>>
                 [] op = ">"  -> <<Past(v), body>>
                 [] op = ">=" -> <<From(v), body>>
                 [] op = "==" -> <<From(v), Past(v)>>
  IN  {content.perm[i] : i \in (slice[1] + 1)..slice[2]}

\* Two searches over the body and one slice of the permutation.
sorted_rows(col, n, content, op, v) ==
  LET body == n - content.nans - content.fills
      At(i) == col[content.perm[i + 1]]
      From(bound) == First({i \in 0..(body - 1) : At(i) >= bound}, body)
      Past(bound) == First({i \in 0..(body - 1) : At(i) > bound}, body)
      slice == CASE op = "between" -> <<From(v[1]), Past(v[2])>>
                 [] op = "<"  -> <<0, From(v)>>
                 [] op = "<=" -> <<0, Past(v)>>
                 [] op = ">"  -> <<Past(v), body>>
                 [] op = ">=" -> <<From(v), body>>
                 [] op = "==" -> <<From(v), Past(v)>>
  IN  {content.perm[i] : i \in (slice[1] + 1)..slice[2]}

-----------------------------------------------------------------------------
(* BITMAP.                                                                 *)

\* The rows of every present number; exhaustive unless a present row is NaN.
compute_bitmap(col, n, fill) ==
  LET values == {col[r] : r \in {r \in 1..n : Orderable(col[r], fill)}}
  IN  [rows |-> [x \in values |-> {r \in 1..n : col[r] = x}],
       exhaustive |-> \A r \in 1..n : col[r] = NaN => is_missing(NaN, fill)]

\* A foreign producer enumerates what it likes, the fill value too.
partial_bitmap(col, n, values) ==
  [rows |-> [x \in values |-> {r \in 1..n : col[r] = x}], exhaustive |-> FALSE]

\* Missing rows match no value, so the fill value is ruled out before the
\* lookup; without exhaustive a value not enumerated is no answer.
bitmap_rows(content, v, fill) ==
  IF v = fill THEN {}
  ELSE IF v \in DOMAIN content.rows THEN content.rows[v]
  ELSE IF content.exhaustive THEN {} ELSE CannotSay

bitmap_isin(content, vs, fill) ==
  LET answers == {bitmap_rows(content, v, fill) : v \in vs}
  IN  IF CannotSay \in answers THEN CannotSay ELSE UNION answers
=============================================================================
