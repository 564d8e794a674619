------------------------------ MODULE ColumnReads ------------------------------
(***************************************************************************)
(* One column from its caller's side: values go in through append, in the  *)
(* encoding of the column's kind, and come back through the readers, which *)
(* take an index, a slice, positions or a mask, fetch few chunks, and mark *)
(* the missing rows.  Behind the committed rows lies what truncate left.   *)
(* Positions are 0-based in the file: element p is stored[p + 1].          *)
(***************************************************************************)
EXTENDS Integers, Sequences, FiniteSets, SequencesExt, FiniteSetsExt, Sorting

CONSTANTS
  Columns,    \* records of a kind ("number", "boolean", "categorical" or "list"),
              \* a fill, or NoFill, and a chunk length, 0 for a contiguous dataset
  Labels,     \* the labels of a categorical column, in code order
  Given,      \* of each kind, the values callers append
  Keys,       \* what callers subscript with
  None,       \* a missing row in a caller's hands: None, or a masked element
  NoFill,     \* no user-defined fill value
  Error,      \* the call raises
  MaxRows     \* bound: rows of the table

\* The step of a slice is not zero.
IsKey(k) ==
  \/ k.form \in {"row", "positions", "selection"} /\ k.of \in Seq(Int)
     /\ (k.form = "row" => Len(k.of) = 1)
  \/ k.form = "mask" /\ k.of \in Seq(BOOLEAN)
  \/ k.form = "slice" /\ {k.of[1], k.of[2], k.of[3]} \subseteq Int \cup {None} /\ k.of[3] # 0

\* A boolean column declares no fill, and a categorical one no code of a label;
\* an exception is no list of rows.
ASSUME ReadsAssumption ==
  /\ MaxRows \in Nat
  /\ \A c \in Columns :
       /\ c.chunk_len \in Nat /\ c.kind \in {"number", "boolean", "categorical", "list"}
       /\ c.kind = "boolean" => c.fill = NoFill
       /\ c.kind = "categorical" => c.fill \notin 0..(Len(Labels) - 1)
       /\ \A s \in Given[c.kind] : s \in Seq(Range(s))
  /\ Labels \in Seq(Range(Labels)) /\ IsInjective(Labels)
  /\ \A k \in Keys : IsKey(k)
  /\ None \notin Int /\ Error \notin Seq(Int)

VARIABLES
  column,     \* the column's kind, fill and chunk length
  nrows,      \* NROWS
  stored,     \* the column dataset
  given,      \* history: what callers appended, of the committed rows
  pc, key,    \* the running read, and what it was asked for
  want,       \* the positions the key stands for, or Error
  order,      \* the stable sort of want: order[i] is the i-th smallest
  chunks,     \* chunks still to fetch
  raw,        \* stored values in the order of their positions
  blocks,     \* history: the blocks fetched, as <<first, past the last>>
  answer      \* what the caller gets

table == <<column, nrows, stored, given>>
local == <<pc, key, want, order, chunks, raw, blocks, answer>>
vars  == <<table, local>>

Init ==
  /\ column \in Columns
  /\ nrows = 0 /\ stored = <<>> /\ given = <<>>
  /\ pc = "idle" /\ key = <<>> /\ want = <<>> /\ order = <<>> /\ chunks = {}
  /\ raw = <<>> /\ blocks = {} /\ answer = <<>>

-----------------------------------------------------------------------------
(* Values.                                                                 *)

\* One value on its way in; a missing one needs a fill value to stand for it.
encode(v) ==
  IF column.kind = "list" THEN v
  ELSE IF v = None THEN IF column.fill = NoFill THEN Error ELSE column.fill
  ELSE IF column.kind = "categorical" THEN
    IF v \in Range(Labels) THEN (CHOOSE i \in DOMAIN Labels : Labels[i] = v) - 1 ELSE Error
  ELSE IF column.kind = "boolean" /\ v \notin {0, 1} THEN Error ELSE v

\* One value on its way out, None if it is missing.
decode(x) ==
  IF column.kind = "list" THEN x
  ELSE IF column.fill # NoFill /\ x = column.fill THEN None
  ELSE IF column.kind = "categorical"
    THEN IF x \in 0..(Len(Labels) - 1) THEN Labels[x + 1] ELSE Error
  ELSE x

-----------------------------------------------------------------------------
(* Mutations, which TableStore takes apart.                                *)

\* Mutant: the rows go behind the dataset's last one, not behind NROWS.
AppendAtEnd(values) ==
  /\ pc = "idle" /\ values # <<>> /\ nrows + Len(values) <= MaxRows
  /\ LET new == [i \in DOMAIN values |-> encode(values[i])]
     IN  IF Error \in Range(new) THEN UNCHANGED table
         ELSE /\ stored' = stored \o new
              /\ given' = given \o values /\ nrows' = nrows + Len(values)
              /\ UNCHANGED column
  /\ UNCHANGED local

AppendValues(values) ==
  /\ pc = "idle" /\ values # <<>> /\ nrows + Len(values) <= MaxRows
  /\ LET new == [i \in DOMAIN values |-> encode(values[i])]
         end == nrows + Len(values)
     IN  IF Error \in Range(new) THEN UNCHANGED table
         ELSE /\ stored' = SubSeq(stored, 1, nrows) \o new \o SubSeq(stored, end + 1, Len(stored))
              /\ given' = given \o values /\ nrows' = end
              /\ UNCHANGED column
  /\ UNCHANGED local

Truncate(n) ==
  /\ pc = "idle" /\ n < nrows
  /\ nrows' = n /\ given' = SubSeq(given, 1, n)
  /\ UNCHANGED <<column, stored, local>>

-----------------------------------------------------------------------------
(* Keys.                                                                   *)

\* A key is a row, positions, a mask, a slice (an end or step of None is left
\* out), or the rows a Selection found, at whatever time it looked for them.
Row(p)         == [form |-> "row", of |-> <<p>>]
Positions(s)   == [form |-> "positions", of |-> s]
Mask(s)        == [form |-> "mask", of |-> s]
Slice(a, b, k) == [form |-> "slice", of |-> <<a, b, k>>]
Selected(s)    == [form |-> "selection", of |-> s]

\* Negative positions count from the end; one out of range fails them all.
row_positions(positions, n) ==
  LET idx == [i \in DOMAIN positions |->
                IF positions[i] < 0 THEN positions[i] + n ELSE positions[i]]
  IN  IF Range(idx) \subseteq 0..(n - 1) THEN idx ELSE Error

\* A mask has one entry per row.
mask_positions(mask, n) ==
  IF Len(mask) # n THEN Error
  ELSE Listed({p \in 0..(n - 1) : mask[p + 1]})

\* slice.indices(n), and the positions it runs through.
slice_indices(slice, n) ==
  LET step  == IF slice[3] = None THEN 1 ELSE slice[3]
      lower == IF step > 0 THEN 0 ELSE -1
      upper == IF step > 0 THEN n ELSE n - 1
      Clip(x) == IF x < 0 THEN (IF x + n < lower THEN lower ELSE x + n)
                          ELSE (IF x > upper THEN upper ELSE x)
      first == IF step > 0 THEN lower ELSE upper
      last  == IF step > 0 THEN upper ELSE lower
  IN  <<IF slice[1] = None THEN first ELSE Clip(slice[1]),
        IF slice[2] = None THEN last ELSE Clip(slice[2]), step>>

range(ends) ==
  LET step == ends[3]
      size == IF step > 0 THEN (ends[2] - ends[1] + step - 1) \div step
                          ELSE (ends[1] - ends[2] - step - 1) \div (-step)
  IN  [i \in 1..(IF size < 0 THEN 0 ELSE size) |-> ends[1] + (i - 1) * step]

\* The positions a key stands for.
Resolve(k, n) ==
  CASE k.form = "mask"  -> mask_positions(k.of, n)
    [] k.form = "slice" -> range(slice_indices(k.of, n))
    [] OTHER -> row_positions(k.of, n)

-----------------------------------------------------------------------------
(* Reading.                                                                *)

\* Stored rows first..(past - 1); a slice ends where its dataset does.
Block(first, past) == SubSeq(stored, first + 1, IF past < Len(stored) THEN past ELSE Len(stored))

chunk(p) == p \div column.chunk_len

\* Of a selection: the wanted rows lie in at most half of the column's chunks.
worth_gathering(rows) ==
  /\ nrows # 0 /\ column.chunk_len # 0
  /\ \/ rows = <<>>
     \/ 2 * Cardinality({chunk(p) : p \in Range(rows)})
          <= (nrows + column.chunk_len - 1) \div column.chunk_len

Ask(k) ==
  /\ pc = "idle"
  /\ key' = k /\ want' = Resolve(k, nrows) /\ pc' = "resolved"
  /\ UNCHANGED <<table, order, chunks, raw, blocks, answer>>

Refuse ==
  /\ pc = "resolved" /\ want = Error
  /\ answer' = Error /\ pc' = "answered"
  /\ UNCHANGED <<table, key, want, order, chunks, raw, blocks>>

\* Stored values read in the order they are wanted.
Answer(values) ==
  /\ answer' = [i \in DOMAIN values |-> decode(values[i])]
  /\ pc' = "answered"

\* A slice, a row as a slice of one, and a list column's rows, which are picked
\* from the span between the lowest and the highest: one block, and no sort.  A
\* slice that runs backwards is read forwards and reversed.
ReadSpan ==
  /\ pc = "resolved" /\ want # Error
  /\ column.kind = "list" \/ key.form \in {"slice", "row"}
  /\ LET lo == IF want = <<>> THEN 0 ELSE Min(Range(want))
         hi == IF want = <<>> THEN 0 ELSE Max(Range(want)) + 1
         span == Block(lo, hi)
         step == IF Len(want) < 2 THEN 1 ELSE want[2] - want[1]
         strided(k) == [i \in DOMAIN want |-> span[(i - 1) * k + 1]]
     IN  /\ blocks' = {<<lo, hi>>}
         /\ Answer(IF column.kind = "list" THEN [i \in DOMAIN want |-> span[want[i] - lo + 1]]
                   ELSE IF step > 0 THEN strided(step)
                   ELSE Reverse(strided(-step)))
  /\ UNCHANGED <<table, key, want, order, chunks, raw>>

\* A selection spread over most chunks, a contiguous dataset: the whole column.
ReadWhole ==
  /\ pc = "resolved" /\ want # Error /\ column.kind # "list"
  /\ \/ key.form = "selection" /\ ~worth_gathering(want)
     \/ key.form \in {"positions", "mask"} /\ column.chunk_len = 0 /\ want # <<>>
  /\ LET whole == Block(0, nrows)
     IN  Answer([i \in DOMAIN want |-> whole[want[i] + 1]])
  /\ blocks' = {<<0, nrows>>}
  /\ UNCHANGED <<table, key, want, order, chunks, raw>>

\* The export of a list column: wrapped whole, then narrowed, a run of rows
\* without copying them.
select ==
  /\ pc = "resolved" /\ want # Error /\ column.kind = "list" /\ key.form # "row"
  /\ LET whole == Block(0, nrows)
         ends  == slice_indices(key.of, nrows)
     IN  Answer(IF key.form = "slice" /\ ends[3] = 1 THEN SubSeq(whole, ends[1] + 1, ends[2])
                ELSE [i \in DOMAIN want |-> whole[want[i] + 1]])
  /\ blocks' = {<<0, nrows>>}
  /\ UNCHANGED <<table, key, want, order, chunks, raw>>

\* The positions are sorted, equal ones in the order given.
Sort ==
  /\ pc = "resolved" /\ want # Error /\ column.kind # "list"
  /\ key.form \in {"positions", "mask", "selection"}
  /\ key.form = "selection" => worth_gathering(want)
  /\ column.chunk_len # 0 \/ want = <<>>
  /\ order' = Ordered(DOMAIN want, want)
  /\ chunks' = IF want = <<>> THEN {} ELSE {chunk(p) : p \in Range(want)}
  /\ raw' = [i \in DOMAIN want |-> Error] /\ pc' = "gather"
  /\ UNCHANGED <<table, key, want, blocks, answer>>

\* The i-th smallest wanted position.
Sorted(i) == want[order[i]]

Store(lo, hi) ==
  /\ raw' = [i \in DOMAIN raw |->
               IF Sorted(i) \in lo..(hi - 1) THEN Block(lo, hi)[Sorted(i) - lo + 1] ELSE raw[i]]
  /\ blocks' = blocks \cup {<<lo, hi>>}

Ascending == \A i \in 1..(Len(want) - 1) : Sorted(i + 1) = Sorted(i) + 1

\* A run of consecutive rows is one slice, whatever its chunks.
GatherRange ==
  /\ pc = "gather" /\ raw # <<>> /\ Ascending
  /\ Store(Sorted(1), Sorted(Len(want)) + 1)
  /\ chunks' = {} /\ pc' = "restore"
  /\ UNCHANGED <<table, key, want, order, answer>>

\* Mutant: the last block ends with its chunk.
GatherRunPast ==
  /\ pc = "gather" /\ chunks # {} /\ ~Ascending
  /\ LET first == Min(chunks)
         last  == Max({c \in chunks : first..c \subseteq chunks})
         end   == (last + 1) * column.chunk_len
     IN  /\ Store(first * column.chunk_len, end)
         /\ chunks' = chunks \ (first..last)
  /\ UNCHANGED <<table, pc, key, want, order, answer>>

\* Consecutive chunks are fetched in one block, which ends where the rows do.
GatherRun ==
  /\ pc = "gather" /\ chunks # {} /\ ~Ascending
  /\ LET first == Min(chunks)
         last  == Max({c \in chunks : first..c \subseteq chunks})
         end   == (last + 1) * column.chunk_len
     IN  /\ Store(first * column.chunk_len, IF nrows < end THEN nrows ELSE end)
         /\ chunks' = chunks \ (first..last)
  /\ UNCHANGED <<table, pc, key, want, order, answer>>

EndGather ==
  /\ pc = "gather" /\ chunks = {} /\ pc' = "restore"
  /\ UNCHANGED <<table, key, want, order, chunks, raw, blocks, answer>>

\* Mutant: the sort is applied once more instead of undone.
RestoreAgain ==
  /\ pc = "restore"
  /\ Answer([i \in DOMAIN want |-> raw[order[i]]])
  /\ UNCHANGED <<table, key, want, order, chunks, raw, blocks>>

\* The caller's order: the i-th smallest goes back to place order[i].
Restore ==
  /\ pc = "restore"
  /\ Answer([j \in DOMAIN want |-> raw[CHOOSE i \in DOMAIN order : order[i] = j]])
  /\ UNCHANGED <<table, key, want, order, chunks, raw, blocks>>

Return ==
  /\ pc = "answered" /\ pc' = "idle"
  /\ key' = <<>> /\ want' = <<>> /\ order' = <<>> /\ chunks' = {}
  /\ raw' = <<>> /\ blocks' = {} /\ answer' = <<>>
  /\ UNCHANGED table

Next ==
  \/ \E values \in Given[column.kind] : AppendValues(values)
  \/ \E n \in 0..MaxRows : Truncate(n)
  \/ \E k \in Keys : Ask(k)
  \/ Refuse \/ ReadSpan \/ ReadWhole \/ select \/ Sort
  \/ GatherRange \/ GatherRun \/ EndGather \/ Restore \/ Return

Spec == Init /\ [][Next]_vars

-----------------------------------------------------------------------------
(* Properties.                                                             *)

\* What the caller put in, as it is to come back: a number that is the fill
\* value is a missing row too.
Meant(v) ==
  IF column.kind = "number" /\ column.fill # NoFill /\ v = column.fill THEN None ELSE v

Entry(p) == IF p < 0 THEN p + nrows ELSE p

\* The rows a slice runs through: every step-th one of the table, from its start,
\* or the end of the table it lies beyond, and before its stop.
SliceRows(start, stop, step) ==
  LET first == IF step > 0 THEN (IF start = None \/ Entry(start) < 0 THEN 0 ELSE Entry(start))
               ELSE (IF start = None \/ Entry(start) >= nrows THEN nrows - 1 ELSE Entry(start))
  IN  {p \in 0..(nrows - 1) :
         /\ \E m \in 0..nrows : p = first + m * step
         /\ stop # None => IF step > 0 THEN p < Entry(stop) ELSE p > Entry(stop)}

\* The positions a key stands for, where it stands for any.
Wanted ==
  LET marked == {p \in 0..(nrows - 1) : key.of[p + 1]} IN
  IF key.form = "mask"
    THEN [i \in 1..Cardinality(marked) |->
            CHOOSE p \in marked : Cardinality({q \in marked : q <= p}) = i]
    ELSE IF key.form = "slice" THEN want
    ELSE [i \in DOMAIN key.of |-> Entry(key.of[i])]

OutOfRange ==
  IF key.form = "mask" THEN Len(key.of) # nrows
  ELSE key.form # "slice" /\ \E i \in DOMAIN key.of : Entry(key.of[i]) \notin 0..(nrows - 1)

\* Whatever key is used and whatever truncate left behind NROWS, a reader gives
\* back the values callers appended, in the order asked for, repeats included,
\* and fails exactly when a position is not a committed row or a mask is not as
\* long as the column (Column.read_rows, ListColumn.read_rows, Selection.read,
\* and for lists Selection.to_arrow).
ReadsBack ==
  pc = "answered" =>
    /\ answer = IF OutOfRange THEN Error
                ELSE [i \in DOMAIN Wanted |-> Meant(given[Wanted[i] + 1])]
    /\ key.form = "slice" =>
         LET step == IF key.of[3] = None THEN 1 ELSE key.of[3] IN
         /\ Range(want) = SliceRows(key.of[1], key.of[2], step)
         /\ \A i, j \in DOMAIN want : i < j => IF step > 0 THEN want[i] < want[j] ELSE want[i] > want[j]

\* A scattered read of a chunked column fetches no chunk without a wanted row,
\* none twice, and nothing behind NROWS ("the chunks holding no wanted row are
\* never fetched at all", gather_rows).
FetchesOnlyWanted ==
  pc = "answered" /\ answer # Error /\ column.chunk_len # 0
    /\ key.form \in {"positions", "mask"} /\ column.kind # "list" =>
    /\ \A b \in blocks : b[2] <= nrows /\ \A p \in b[1]..(b[2] - 1) :
         \E q \in Range(want) : chunk(q) = chunk(p)
    /\ \A b, d \in blocks : b # d => b[2] <= d[1] \/ d[2] <= b[1]
=============================================================================
