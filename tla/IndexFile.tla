------------------------------ MODULE IndexFile ------------------------------
(***************************************************************************)
(* The SEARCH_INDEXES group object by object: the builders of indexes.py   *)
(* write by write, the rebuilding of indexes another producer may have     *)
(* laid out differently, and validate_search_indexes.  TableStore has the  *)
(* order of tokens, content and commits; here mutations are complete, and  *)
(* what a dataset is (its extent, type, attributes and content) decides    *)
(* what is rebuilt, what is refused, and what a query is told.             *)
(* A bitmap row is the set of its set bits; bit r stands for row r.        *)
(***************************************************************************)
EXTENDS IndexKinds

CONSTANTS
  Columns,     \* scalar columns, indexed by a datatype every kind supports
  Cells,       \* stored elements: numbers and possibly NaN
  Fills,       \* user-defined fill values a column may have, or NoFill
  Plants,      \* how another producer's index may differ from ours, see Plant
  Bits,        \* bits of a byte
  Endless,     \* a number beyond every extent
  MaxRows, MaxGen,  \* bounds
  MaxIndexes,  \* bound: datasets in SEARCH_INDEXES when a build begins
  StartRows,   \* bound: rows of the initial table
  Questions,   \* pairs of an operator and a value
  None, NoName, Zero, Raises  \* absent attribute or kind; no dataset; never
                              \* written; the answer is an exception

Kinds == {"CHUNK_MINMAX", "SORTED_ROWS", "BITMAP"}

SEARCH_INDEX_KINDS == Kinds \cup {"CHUNK_BLOOM"}

Names == Columns \X (Kinds \cup {"values"})

\* Entries of CHUNK_MINMAX.
Entries == [min : Int \cup {NaN}, max : Int \cup {NaN}, nans : Nat, fills : Nat, n : Nat]

ASSUME IndexFileAssumption ==
  /\ Columns # {} /\ IsFiniteSet(Columns)
  /\ Cells \subseteq Int \cup {NaN} /\ Fills \subseteq Int \cup {NaN, NoFill}
  /\ Bits \in Nat \ {0} /\ MaxRows \in Nat /\ MaxGen \in Nat /\ StartRows \in 0..MaxRows
  /\ Endless \in Nat /\ Endless > MaxRows + 1
  /\ \A q \in Questions :
       \/ q[1] \in OrderOps \cup {"=="} /\ q[2] \in Int
       \/ q[1] = "between" /\ q[2] \in Int \X Int
  /\ None \notin Nat \cup SEARCH_INDEX_KINDS \cup {"FUTURE_KIND"}
  /\ NoName \notin Names /\ Zero \notin Entries /\ Raises \notin Nat

VARIABLES
  col,    \* per column, the committed rows
  fill,   \* per column, its user-defined fill value
  gen,    \* GENERATION, or None
  obj,    \* the datasets of SEARCH_INDEXES, by name
  links,  \* per column, SEARCH_INDEX_LIST
  call,   \* the running builder
  plant,  \* what another producer left
  killed  \* a builder has died

vars == <<col, fill, gen, obj, links, call, plant, killed>>

c0 == CHOOSE c \in Columns : TRUE
nrows == Len(col[c0])
NoCall == [index |-> NoName, todo |-> <<>>, old |-> <<>>]
Idle == call = NoCall

\* A dataset without attributes; limit is its maximal extent, 0 if it cannot
\* be resized, and top the largest row number its element type holds.
Bare == [kind |-> None, data |-> <<>>, width |-> 0, limit |-> Endless, dtype |-> "right",
         top |-> Endless, sg |-> None, sn |-> None, fills |-> None, nans |-> None,
         ordered |-> None, exhaustive |-> None, values |-> NoName]

Absent == [Bare EXCEPT !.dtype = "absent"]
Members == {m \in Names : obj[m].dtype # "absent"}

Linked(c) == {links[c][j] : j \in DOMAIN links[c]}
Claimants(i) == {c \in Columns : i \in Linked(c)}

search_index_datasets == {m \in Members : obj[m].kind # None}

index_is_valid(i) == gen # None /\ obj[i].sg = gen /\ obj[i].sn = nrows

\* IEEE equality: NaN equals nothing.
Equal(x, y) == x = y /\ x # NaN

bitmap_bytes(n) == (n + Bits - 1) \div Bits

Bitset(rows, v) == {r \in DOMAIN rows : Equal(rows[r], v)}

-----------------------------------------------------------------------------
(* Content.                                                                *)

\* What the rows of a column give, attribute by attribute.
compute_index_content(kind, rows, f) ==
  LET n == Len(rows)
      minmax == compute_chunk_minmax(rows, n, f)
      sorted == compute_sorted_rows(rows, n, f)
      bitmap == compute_bitmap(rows, n, f)
  IN  CASE kind = "CHUNK_MINMAX" ->
             [data |-> [j \in 1..data_chunk_count(n) |-> minmax[j - 1]]]
        [] kind = "SORTED_ROWS" ->
             [data |-> sorted.perm, fills |-> sorted.fills, nans |-> sorted.nans]
        [] kind = "BITMAP" ->
             LET values == Listed(DOMAIN bitmap.rows) IN
             [enum |-> values, data |-> [k \in DOMAIN values |-> Bitset(rows, values[k])],
              width |-> bitmap_bytes(n), exhaustive |-> bitmap.exhaustive]

\* The dataset of values a bitmap refers to, unless it is unusable.
bitmap_values_dataset(o, i) ==
  LET v == o[i].values IN
  IF v # NoName /\ o[v].dtype # "absent" /\ o[v].kind = None THEN v ELSE NoName

entries_fit(d, n) == Len(d.data) >= n \/ d.limit >= n

\* A bitmap is as long as its values, so residue would count as values.
exactly_resizable(d, len, width) ==
  \/ Len(d.data) = len /\ d.width = width
  \/ d.limit > 0 /\ d.limit >= len /\ d.limit >= width

\* Can the content be written without loss into the dataset there is?
index_content_fits(o, i, n, content) ==
  LET d == o[i]
      v == bitmap_values_dataset(o, i)
  IN  /\ d.dtype = "right"
      /\ CASE d.kind = "CHUNK_MINMAX" -> entries_fit(d, Len(content.data))
           [] d.kind = "SORTED_ROWS" -> (n > 0 => d.top >= n - 1) /\ entries_fit(d, n)
           [] d.kind = "BITMAP" ->
                /\ v # NoName /\ o[v].dtype = "right"
                /\ exactly_resizable(o[v], Len(content.enum), 0)
                /\ exactly_resizable(d, Len(content.enum), content.width)

\* Entries are only ever added; those behind the new ones stay.
write_entries(d, data) ==
  data \o SubSeq(d.data, Len(data) + 1, Len(d.data))

\* Mutant: the attributes are taken to be what they were.
write_index_content_bare(o, i, content) ==
  LET v == bitmap_values_dataset(o, i)
      entries == [o EXCEPT ![i].data = write_entries(o[i], content.data)]
  IN  IF o[i].kind # "BITMAP" THEN entries
      ELSE [o EXCEPT ![v].data = content.enum, ![i].data = content.data,
                     ![i].width = content.width]

write_index_content(o, i, content) ==
  LET d == o[i]
      v == bitmap_values_dataset(o, i)
  IN  CASE d.kind = "CHUNK_MINMAX" -> [o EXCEPT ![i].data = write_entries(d, content.data)]
        [] d.kind = "SORTED_ROWS" ->
             [o EXCEPT ![i] = [d EXCEPT !.data = write_entries(d, content.data),
                !.fills = content.fills, !.nans = content.nans, !.ordered = TRUE]]
        [] d.kind = "BITMAP" ->
             [o EXCEPT ![v].data = content.enum,
                ![i] = [d EXCEPT !.data = content.data, !.width = content.width,
                                 !.ordered = TRUE, !.exhaustive = content.exhaustive]]

\* Mutant: the tokens are written even if the content does not fit.
refresh_one_unchecked(o, i, rows, f, g) ==
  IF o[i].kind \notin Kinds THEN o
  ELSE LET content == compute_index_content(o[i].kind, rows, f)
           written == IF index_content_fits(o, i, Len(rows), content)
                        THEN write_index_content(o, i, content) ELSE o
       IN  [written EXCEPT ![i].sg = g, ![i].sn = Len(rows)]

\* Rebuild index i for these rows of a column and its fill value under the token
\* g, or leave it entirely as it is.
refresh_one(o, i, rows, f, g) ==
  IF o[i].kind \notin Kinds THEN o
  ELSE LET content == compute_index_content(o[i].kind, rows, f)
       IN  IF ~index_content_fits(o, i, Len(rows), content) THEN o
           ELSE [write_index_content(o, i, content) EXCEPT ![i].sg = g, ![i].sn = Len(rows)]

-----------------------------------------------------------------------------
(* The builders, one HDF5 write at a time.                                 *)

ensure_generation ==
  IF gen # None THEN gen
  ELSE LET tokens == {obj[i].sg : i \in search_index_datasets} \ {None}
       IN  IF tokens = {} THEN 0 ELSE 1 + Max(tokens)

\* Mutant: KIND and tokens before the content.
ProgramEager(kind) ==
  LET tokens == <<"KIND", "SOURCE_GENERATION", "SOURCE_NROWS">> IN
  CASE kind = "CHUNK_MINMAX" -> <<"dataset">> \o tokens \o <<"content", "unlink", "link">>
    [] kind = "SORTED_ROWS" -> <<"dataset">> \o tokens \o
         <<"content", "FILL_TAIL", "NAN_TAIL", "ORDERED", "unlink", "link">>
    [] kind = "BITMAP" -> <<"values", "dataset">> \o tokens \o
         <<"VALUES", "enumeration", "content", "ORDERED", "EXHAUSTIVE", "unlink", "link">>

\* The writes of a builder in program order.
Program(kind) ==
  CASE kind = "CHUNK_MINMAX" ->
         <<"dataset", "content", "KIND", "SOURCE_GENERATION", "SOURCE_NROWS", "unlink", "link">>
    [] kind = "SORTED_ROWS" ->
         <<"dataset", "content", "KIND", "FILL_TAIL", "NAN_TAIL", "ORDERED",
           "SOURCE_GENERATION", "SOURCE_NROWS", "unlink", "link">>
    [] kind = "BITMAP" ->
         <<"values", "dataset", "enumeration", "content", "KIND", "VALUES", "ORDERED",
           "EXHAUSTIVE", "SOURCE_GENERATION", "SOURCE_NROWS", "unlink", "link">>

BeginBuild(c, kind) ==
  LET values == IF kind = "BITMAP" THEN {<<c, "values">>} ELSE {}
      free   == (values \cup {<<c, kind>>}) \cap Members = {}
  IN  /\ Idle /\ Cardinality(Members) <= MaxIndexes
      /\ gen' = ensure_generation
      /\ call' = IF free THEN [index |-> <<c, kind>>, todo |-> Program(kind), old |-> links[c]]
                 ELSE NoCall
      /\ UNCHANGED <<col, fill, obj, links, plant, killed>>

\* A dataset before anything is written to it.
Unwritten(data, zero) == [Bare EXCEPT !.data = [j \in DOMAIN data |-> zero]]

\* The dataset d of index i after one write of its builder.
Written(d, step, i, content) ==
  CASE step = "dataset" ->
         IF i[2] = "BITMAP" THEN [Unwritten(content.data, {}) EXCEPT !.width = content.width]
         ELSE Unwritten(content.data, Zero)
    [] step = "content"    -> [d EXCEPT !.data = content.data]
    [] step = "KIND"       -> [d EXCEPT !.kind = i[2]]
    [] step = "FILL_TAIL"  -> [d EXCEPT !.fills = content.fills]
    [] step = "NAN_TAIL"   -> [d EXCEPT !.nans = content.nans]
    [] step = "ORDERED"    -> [d EXCEPT !.ordered = TRUE]
    [] step = "EXHAUSTIVE" -> [d EXCEPT !.exhaustive = content.exhaustive]
    [] step = "VALUES"     -> [d EXCEPT !.values = <<i[1], "values">>]
    [] step = "SOURCE_GENERATION" -> [d EXCEPT !.sg = gen]
    [] step = "SOURCE_NROWS"      -> [d EXCEPT !.sn = nrows]
    [] OTHER -> d

\* Its dataset of values.
WrittenValues(d, step, content) ==
  CASE step = "values"      -> Unwritten(content.enum, Zero)
    [] step = "enumeration" -> [d EXCEPT !.data = content.enum]
    [] OTHER -> d

BuildStep ==
  LET i == call.index
      c == i[1]
      v == <<c, "values">>
      step == Head(call.todo)
      content == compute_index_content(i[2], col[c], fill[c])
  IN  /\ ~Idle
      /\ call' = IF Len(call.todo) = 1 THEN NoCall ELSE [call EXCEPT !.todo = Tail(@)]
      /\ obj' = [obj EXCEPT ![i] = Written(@, step, i, content),
                            ![v] = WrittenValues(@, step, content)]
      /\ links' = CASE step = "unlink" -> [links EXCEPT ![c] = <<>>]
                    [] step = "link"   -> [links EXCEPT ![c] = Append(call.old, i)]
                    [] OTHER -> links
      /\ UNCHANGED <<col, fill, gen, plant, killed>>

\* Mutant: only the index itself is deleted.
BuildFailsHalf ==
  /\ ~Idle
  /\ obj' = [obj EXCEPT ![call.index] = Absent]
  /\ links' = [links EXCEPT ![call.index[1]] = call.old]
  /\ call' = NoCall
  /\ UNCHANGED <<col, fill, gen, plant, killed>>

\* An exception in any write: the handlers delete what the builder made, and
\* append_ref_to_array_attr puts the old list back.
BuildFails ==
  LET c == call.index[1]
      made == {call.index} \cup (IF call.index[2] = "BITMAP" THEN {<<c, "values">>} ELSE {})
  IN  /\ ~Idle
      /\ obj' = [m \in Names |-> IF m \in made THEN Absent ELSE obj[m]]
      /\ links' = [links EXCEPT ![c] = call.old]
      /\ call' = NoCall
      /\ UNCHANGED <<col, fill, gen, plant, killed>>

BuilderDies ==
  /\ ~Idle /\ ~killed
  /\ killed' = TRUE /\ call' = NoCall
  /\ UNCHANGED <<col, fill, gen, obj, links, plant>>

-----------------------------------------------------------------------------
(* Mutations and refreshes.                                                *)

\* Index i, for the rows of the one column that claims it; without all, an index
\* that is valid is passed over.
RebuiltOne(o, i, rows, g, all) ==
  LET c == CHOOSE c \in Claimants(i) : TRUE IN
  IF Cardinality(Claimants(i)) # 1 THEN o
  ELSE IF ~all /\ o[i].sg = g /\ o[i].sn = Len(rows[c]) THEN o
  ELSE refresh_one(o, i, rows[c], fill[c], g)

\* One index after the other, in any order.
Rebuilt(indexes, rows, g, all) ==
  LET list == SetToSeq(indexes)
      after[k \in 0..Len(list)] ==
        IF k = 0 THEN obj ELSE RebuiltOne(after[k - 1], list[k], rows, g, all)
  IN  after[Len(list)]

\* For the rows the call is about to commit.
append_refresh_indexes(rows) ==
  Rebuilt(UNION {Linked(c) : c \in Columns}, rows, gen + 1, TRUE)

\* Table.append or Table.truncate, complete, with these rows as its result.
Mutate(rows, maintain) ==
  /\ Idle
  /\ gen # None => gen < MaxGen
  /\ col' = rows
  /\ gen' = IF gen = None THEN None ELSE gen + 1
  /\ obj' = IF maintain /\ gen' # None THEN append_refresh_indexes(rows) ELSE obj
  /\ UNCHANGED <<fill, links, call, plant, killed>>

append(new, maintain) ==
  /\ nrows + Len(new[c0]) <= MaxRows
  /\ Mutate([c \in Columns |-> col[c] \o new[c]], maintain)

truncate(n, maintain) ==
  /\ n < nrows
  /\ Mutate([c \in Columns |-> SubSeq(col[c], 1, n)], maintain)

\* refresh_index is the case of one index; an index that does not fit raises.
refresh_index(i) ==
  /\ Idle /\ i \in search_index_datasets
  /\ gen' = ensure_generation
  /\ obj' = Rebuilt({i}, col, gen', FALSE)
  /\ UNCHANGED <<col, fill, links, call, plant, killed>>

refresh_all_indexes ==
  /\ Idle
  /\ gen' = ensure_generation
  /\ obj' = Rebuilt(search_index_datasets, col, gen', FALSE)
  /\ UNCHANGED <<col, fill, links, call, plant, killed>>

-----------------------------------------------------------------------------
(* What a query is told by an index it believes (searchindex.py).          *)

ChunksAnswer(i, c, op, v) ==
  LET d == obj[i]
      count == data_chunk_count(nrows)
  IN  IF Len(d.data) < count THEN {Raises}
      ELSE chunks_to_rows(prune([k \in 0..(count - 1) |-> d.data[k + 1]], op, v, fill[c]),
                          nrows)

RowsAnswer(i, c, op, v) ==
  LET d == obj[i] IN
  IF Len(d.data) < nrows \/ d.ordered # TRUE \/ None \in {d.fills, d.nans} THEN {Raises}
  ELSE IF d.fills + d.nans > nrows THEN {Raises}
  ELSE sorted_rows(col[c], nrows, [perm |-> d.data, fills |-> d.fills, nans |-> d.nans], op, v)

\* The fill value matches no row, whatever is enumerated; duplicates unite.
BitmapAnswer(i, c, v) ==
  LET d == obj[i]
      values == bitmap_values_dataset(obj, i)
      matches == {k \in DOMAIN obj[values].data : Equal(obj[values].data[k], v)}
  IN  IF d.dtype # "right" \/ d.width < bitmap_bytes(nrows) \/ values = NoName THEN {Raises}
      ELSE IF nrows = 0 \/ v = fill[c] THEN {}
      ELSE IF matches = {} THEN IF d.exhaustive = TRUE THEN {} ELSE {CannotSay}
      ELSE IF \E k \in matches : k > Len(d.data) THEN {Raises}
      ELSE UNION {d.data[k] \cap 1..nrows : k \in matches}

Matches(c, op, v) ==
  {r \in 1..nrows : ~is_missing(col[c][r], fill[c]) /\ Compare(col[c][r], op, v)}

\* An index tells every query the truth, or that it cannot say.
TellsTruth(i, c) ==
  CASE obj[i].kind = "CHUNK_MINMAX" ->
         \A q \in Questions : Raises \notin ChunksAnswer(i, c, q[1], q[2])
                              /\ Matches(c, q[1], q[2]) \subseteq ChunksAnswer(i, c, q[1], q[2])
    [] obj[i].kind = "SORTED_ROWS" ->
         \A q \in Questions : RowsAnswer(i, c, q[1], q[2]) = Matches(c, q[1], q[2])
    [] obj[i].kind = "BITMAP" ->
         \A q \in Questions : q[1] = "==" =>
           BitmapAnswer(i, c, q[2]) \in {Matches(c, "==", q[2]), {CannotSay}}
    [] OTHER -> TRUE

-----------------------------------------------------------------------------
(* validate_search_indexes.                                                *)

\* The datasets that a search index vouches for: only a BITMAP, or a kind this
\* program does not know, has an accompanying dataset.
Vouched ==
  {obj[i].values : i \in {i \in search_index_datasets :
                            obj[i].kind \notin SEARCH_INDEX_KINDS \ {"BITMAP"}}}

Rule3 == Members \ search_index_datasets \subseteq Vouched

Rule12 ==
  search_index_datasets # {} =>
    /\ gen # None
    /\ \A i \in search_index_datasets : None \notin {obj[i].sg, obj[i].sn}

Rule4 ==
  \A c \in Columns : \A i \in Linked(c) :
    i \in search_index_datasets /\ Claimants(i) = {c}

validate_minmax_structure(d, n) ==
  LET count == data_chunk_count(n) IN
  /\ d.dtype \in {"right", "half"}
  /\ Len(d.data) >= count
  /\ \A j \in 1..count : d.data[j] # Zero /\ d.data[j].n = Cardinality(ChunkRows(j - 1, n))

validate_sorted_rows_structure(d, n) ==
  /\ d.dtype = "right" /\ d.top >= n - 1
  /\ Len(d.data) >= n
  /\ None \notin {d.fills, d.nans} /\ d.ordered = TRUE
  /\ d.fills + d.nans <= n
  /\ {d.data[r] : r \in 1..n} = 1..n

validate_bitmap_structure(o, d, n) ==
  LET bytes == bitmap_bytes(n) IN
  /\ d.dtype = "right" /\ d.values # NoName
  /\ o[d.values].dtype = "right" /\ o[d.values].kind = None
  /\ Len(d.data) = Len(o[d.values].data)
  /\ d.width >= bytes
  /\ n % Bits # 0 => \A k \in DOMAIN d.data : d.data[k] \cap (n + 1)..(Bits * bytes) = {}

\* Mutant: the claim of exhaustiveness is believed.
deep_check_bitmap_trusting(d, stored, rows, f) ==
  \A k \in DOMAIN stored :
    d.data[k] \cap 1..(Bits * bitmap_bytes(Len(rows))) = Bitset(rows, stored[k])

deep_check_bitmap(d, stored, rows, f) ==
  LET present == {rows[r] : r \in {r \in DOMAIN rows : ~is_missing(rows[r], f)}} IN
  /\ \A k \in DOMAIN stored :
       d.data[k] \cap 1..(Bits * bitmap_bytes(Len(rows))) = Bitset(rows, stored[k])
  /\ d.exhaustive = TRUE =>
       NaN \notin present /\ present \subseteq {stored[k] : k \in DOMAIN stored}

\* Index i describes these rows of a column with fill value f.
check_index(o, i, rows, f, deep) ==
  LET d == o[i]
      n == Len(rows)
      expected == compute_index_content(d.kind, rows, f)
  IN  CASE d.kind = "CHUNK_MINMAX" ->
             /\ validate_minmax_structure(d, n)
             /\ deep => SubSeq(d.data, 1, data_chunk_count(n)) = expected.data
        [] d.kind = "SORTED_ROWS" ->
             /\ validate_sorted_rows_structure(d, n)
             /\ deep => /\ SubSeq(d.data, 1, n) = expected.data
                        /\ d.fills = expected.fills /\ d.nans = expected.nans
        [] d.kind = "BITMAP" ->
             /\ validate_bitmap_structure(o, d, n)
             /\ deep => deep_check_bitmap(d, o[d.values].data, rows, f)
        [] OTHER -> TRUE

Rule9(i, c, deep) == check_index(obj, i, col[c], fill[c], deep)

validate_search_indexes(deep) ==
  /\ Rule3 /\ Rule12 /\ Rule4
  /\ \A c \in Columns : \A i \in Linked(c) : index_is_valid(i) => Rule9(i, c, deep)

-----------------------------------------------------------------------------
(* What another producer may have left.                                    *)

\* An index as our builder completes it, over these rows.
OurIndex(kind, c, rows) ==
  LET content == compute_index_content(kind, rows, fill[c])
      d == [Bare EXCEPT !.kind = kind, !.data = content.data, !.sn = Len(rows)]
  IN  CASE kind = "CHUNK_MINMAX" -> d
        [] kind = "SORTED_ROWS" ->
             [d EXCEPT !.fills = content.fills, !.nans = content.nans, !.ordered = TRUE]
        [] kind = "BITMAP" ->
             [d EXCEPT !.width = content.width, !.values = <<c, "values">>, !.ordered = TRUE,
                       !.exhaustive = content.exhaustive]

OurValues(c, rows) ==
  [Bare EXCEPT !.data = compute_index_content("BITMAP", rows, fill[c]).enum]

\* Layouts another producer is free to choose.
Harmless == {"ours", "fixed", "longer", "short", "partial", "unlinked", "future"}

\* The index and its values dataset, laid out differently or damaged.
Altered(how, d) ==
  LET last == Len(d.data) IN
  CASE how = "fixed"  -> [d EXCEPT !.limit = 0]
    [] how = "longer" -> IF d.kind = "BITMAP" THEN [d EXCEPT !.width = @ + 1]
                         ELSE [d EXCEPT !.data = Append(@, Zero)]
    [] how = "short"  -> [d EXCEPT !.top = nrows]
    [] how \in {"partial", "overclaim"} ->
         IF d.kind = "BITMAP" /\ last > 0
           THEN [d EXCEPT !.data = Tail(@), !.exhaustive = how = "overclaim", !.ordered = None]
           ELSE d
    [] how = "future" -> [d EXCEPT !.kind = "FUTURE_KIND"]
    [] how = "bloom"  -> [d EXCEPT !.kind = "CHUNK_BLOOM"]
    [] how = "dtype"  -> [d EXCEPT !.dtype = "wrong"]
    [] how = "half"   -> [d EXCEPT !.dtype = "half"]
    [] how = "bare"   -> [d EXCEPT !.ordered = None, !.values = NoName, !.fills = None]
    [] how = "cut"    -> [d EXCEPT !.data = SubSeq(@, 1, last - 1)]
    [] how = "padded" -> IF d.kind = "BITMAP" /\ last > 0
                           THEN [d EXCEPT !.data[last] = @ \cup {nrows + 1}] ELSE d
    [] OTHER -> d

AlteredValues(how, d) ==
  CASE how = "fixed" -> [d EXCEPT !.limit = 0]
    [] how \in {"partial", "overclaim"} -> [d EXCEPT !.data = IF @ = <<>> THEN @ ELSE Tail(@)]
    [] how = "kinded" -> [d EXCEPT !.kind = "CHUNK_BLOOM", !.sg = 0, !.sn = 0]
    [] how = "dtype"  -> [d EXCEPT !.dtype = "wrong"]
    [] OTHER -> d

\* The rows another producer may have made an index from.
Sources(how) == IF how = "other" THEN [1..nrows -> Cells] ELSE {col[c0]}

\* One index of the first column, made from these rows.
Planted(how, kind, source, rows) ==
  /\ gen = 1 /\ plant = [how |-> how, kind |-> kind]
  /\ obj = [m \in Names |->
              IF m = <<c0, kind>>
                THEN [Altered(how, OurIndex(kind, c0, rows)) EXCEPT !.sg = source]
              ELSE IF m = <<c0, "values">> /\ kind = "BITMAP"
                THEN AlteredValues(how, OurValues(c0, rows))
              ELSE Absent]
  /\ links = [c \in Columns |->
                IF c = c0 /\ how # "unlinked" THEN <<<<c0, kind>>>> ELSE <<>>]

Init ==
  /\ col \in [Columns -> [1..StartRows -> Cells]]
  /\ fill \in [Columns -> Fills]
  /\ call = NoCall /\ killed = FALSE
  /\ \/ /\ plant = [how |-> "none", kind |-> None]
        /\ gen = None
        /\ obj = [m \in Names |-> Absent] /\ links = [c \in Columns |-> <<>>]
     \/ \E how \in Plants, kind \in Kinds, source \in {0, 1} :
          \E rows \in Sources(how) : Planted(how, kind, source, rows)

Next ==
  \/ \E c \in Columns, kind \in Kinds : BeginBuild(c, kind)
  \/ BuildStep \/ BuildFails \/ BuilderDies
  \/ \E new \in [Columns -> [1..1 -> Cells]], maintain \in BOOLEAN : append(new, maintain)
  \/ \E n \in 0..MaxRows, maintain \in BOOLEAN : truncate(n, maintain)
  \/ \E i \in Names : refresh_index(i)
  \/ refresh_all_indexes
  \/ Idle /\ UNCHANGED vars

Spec == Init /\ [][Next]_vars

-----------------------------------------------------------------------------
\* Of a file in which no builder died, with indexes of our own and harmless
\* ones of others, every call leaves what validate(deep=True) accepts.
Accepted ==
  Idle /\ ~killed /\ plant.how \in Harmless \cup {"none"} => validate_search_indexes(TRUE)

\* Whatever another producer wrote and whatever died: in a file that
\* validate(deep=True) accepts, an index that queries believe tells the truth.
DeepMeansRight ==
  Idle /\ validate_search_indexes(TRUE) =>
    \A c \in Columns : \A i \in Linked(c) : index_is_valid(i) => TellsTruth(i, c)

\* No call of ours turns an index that is invalid into one that is valid and
\* would fail the deep check, whoever laid it out.
StampedPasses ==
  [][\A c \in Columns : \A i \in {links'[c][j] : j \in DOMAIN links'[c]} :
       ~index_is_valid(i) /\ index_is_valid(i)' => Rule9(i, c, TRUE)']_vars

\* What a builder that died leaves, in a file otherwise of our own or harmless
\* indexes, is complete and true, or no query believes it.
DeadBuilderHarmless ==
  Idle /\ killed /\ plant.how \in Harmless \cup {"none"} =>
    \A i \in search_index_datasets :
      index_is_valid(i) => Rule9(i, i[1], TRUE) /\ TellsTruth(i, i[1])
=============================================================================
