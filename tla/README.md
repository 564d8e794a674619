# A verification of h5col

h5col stores tables in HDF5 files (the H5Col convention): columns are datasets
or groups, the row count is an attribute, and a small protocol of write orders
makes appends, truncations and search indexes safe against failures. This
directory models that protocol and the algorithms around it in TLA+,
model-checks them with TLC, and proves the central promises with TLAPS for
every value of the constants. Source paths below are relative to the
repository root.

Contents: 1 the system, 2 modules and code, 3 properties, 4 runs and bounds,
5 fairness, 6 proofs, 7 disagreements with the documentation, 8 what is only
model-checked or left out, 9 plan.

## 1. The system

One Python process writes a file; h5py keeps writes in the HDF5 library cache
until `File.flush`. There are no threads and no callbacks. What makes the code
hard is not concurrency but *interruption*: every call is a sequence of HDF5
writes, any of which can raise (disk, filter, encoding error) or be the last
(killed process, power loss), and the next call, possibly of another kind and
another program, starts from what is on file.

| Component (src/h5col) | State | Operations | Hard behaviour | What makes it correct |
|---|---|---|---|---|
| write protocol (`table.py`, `_hdf5.py`) | column datasets and extents, `NROWS` | `append`, `truncate`, `read` | failures between columns, residue behind `NROWS`, unflushed writes | committed rows change at one instant only; `NROWS` never passes a column; after a crash a committed state is shown |
| validity tokens (`indexes.py`) | `GENERATION`; per index `SOURCE_GENERATION`, `SOURCE_NROWS` | `ensure_generation`, `mutation_generation`, `index_is_valid` | residue tokens of dead calls, tokens retyped or dropped by other tools | a token that matches vouches for the content |
| index maintenance (`indexes.py`, `references.py`) | index datasets, `SEARCH_INDEX_LIST` | `create_*`, `refresh_index`, `refresh_all_indexes`, `append_refresh_indexes` | torn content, half-linked indexes | an index a query acts on is right; refresh restores, plain mutation disables |
| index content and lookup (`indexes.py`, `searchindex.py`, `ordering.py`, `missing.py`) | sorted permutation, chunk bounds, bitmaps | `compute_*`, `prune`, `rows`, `isin` | NaN, missing rows, placeholder bounds, partial last chunk | pruning drops no match, exact kinds are exact |
| query planner (`query.py`) | none (a cached row list per `Selection`) | `select`, `row_positions` | negation and missing rows, indexes that raise, short-circuits | every plan gives the answer a scan would give |
| list columns (`lists.py`, `listcolumn.py`) | `OFFSETS`, `MASK`, `VALUES` per level | append, range read, validate | residue of different length at every level, rebasing | rows come back as appended; committed rows validate at all times |
| table structure (`table.py`, `categorical.py`, `specs.py`) | attributes, `column-order`, column objects, `CATEGORIES` | `create`, `add_column`, `validate` | rollback, several writes per column, read-modify-write of `column-order` | a call that returns leaves a valid table; a create that failed leaves none once its handler is done |
| column readers (`column.py`, `listcolumn.py`, `_hdf5.py`, `query.py`) | none | subscripts, `read_rows`, `Selection.read` | chunk runs, sort and restore, backward slices, `NROWS` inside a chunk | values come back as given, in the order asked for |
| search-index file (`indexes.py`, `searchindex.py`) | datasets of `SEARCH_INDEXES`: extent, type, attributes | builders, rebuilding in place, `validate_search_indexes` | layouts another producer chose, a builder that dies, residue in a dataset that is reused | what the calls leave validates; what deep validation accepts answers truthfully |
| Arrow (`arrow.py`, with `strings.py`, `opaque.py`, `reserved.py`) | none beyond the table | `from_arrow`, `to_arrow`, `from_arrays` | a null becomes a value, batches with dictionaries of their own, an import that stops | nulls and values survive; refusals come first; exports can be imported |
| filters, exceptions | none | constants and lists handed on | | not modelled, see 8 |

Interactions: `append` and `truncate` call the index maintenance between
writing the columns and publishing `GENERATION` and `NROWS`; `append` calls
the list writer per list column; the planner reads indexes only if their tokens
match; the planner's rows feed the readers; `from_arrow` is `create` and one
`append` per batch; `to_arrow` reads the columns and builds list arrays from
their buffers.

## 2. Modules and code

```
AbstractTable            rows, atomic calls (the promise)
  <- TableRefinement     TableStore implements it
  <- ListColumn          a list column implements it
       <- ListColumnInvariant <- ListColumnProofs
TableStore               append, truncate, tokens, build, refresh, failures
  <- TableInvariant      the inductive invariant
  <- DurableTable        the same over a cache that loses unflushed writes
       <- DurableInvariant (with TableInvariant)
            <- TableStoreProofs (with TableRefinement)
TableSchema              create, add_column, structure
  <- TableSchemaInvariant <- TableSchemaProofs
Sorting                  stable sorts
IndexKinds               index content and lookup (with Sorting)
  <- IndexKindsProofs
  <- Query               the planner
       <- QueryInvariant <- QueryProofs (with IndexKindsProofs)
  <- IndexFile           index datasets, builders, rebuilds, validate
       <- IndexFileInvariant <- IndexFileProofs (with IndexKindsProofs)
ArrowTable               from_arrow, to_arrow, from_arrays
  <- ArrowTableInvariant <- ArrowTableProofs
ColumnReads              readers (with Sorting)
  <- ColumnReadsInvariant <- ColumnReadsProofs
MC*                      small instances and configurations
```

**TableStore.** One variable per thing on file: `nrows`, `gen`/`form` (the
value and well-formedness of `GENERATION`), `ext`, `cell`, and per index
`status`, `sg`, `sn`, `content`. `content[i]` is the column prefix an index
describes, or `Torn`; what is computed from a prefix is IndexKinds' subject.
The running call is `pc`, `op`, `todo`, `cur`; a file has one writer, hence one
`pc`. Each HDF5 write is an action, in program order:

| Code | Actions |
|---|---|
| `Table.append` steps 1 to 6 | `BeginAppend`, `extend_to`, `WriteColumn`, `FlushColumns`, `StartStep4`, `Maintain*`, `FlushIndexes`, `BumpGeneration`, `CommitRows`, `FlushFile` |
| `Table.truncate` | `BeginTruncate`, then from `StartStep4` as above |
| `append_refresh_indexes` per index | `MaintainGeneration`, `MaintainNrows`, `MaintainTear`, `MaintainContent` |
| `create_chunk_minmax`, `create_sorted_rows`, `create_bitmap` | `BeginBuild`, `BuildCreate`, `BuildContent`, `BuildKind`, `BuildGeneration`, `BuildNrows`, `BuildUnlink`, `BuildLink`; `BuildRollback` for their handlers |
| `refresh_all_indexes` | `BeginRefresh`, `RefreshSkip`, `RefreshTear`, `RefreshContent`, `RefreshGeneration`, `RefreshNrows`, `FinishRefresh` |
| `ensure_generation`, `mutation_generation` | predicates over the value they return |

The loops over columns and indexes take their elements in any order. The three
builders differ only in what they compute and in attributes no property
distinguishes. `refresh_index` for one index is the loop body of
`refresh_all_indexes` and is no action of its own. `Raise` is an exception in
any of these writes (the builders delete what they made, other calls
propagate), `Kill` the death of the process; both can leave a column write done
in part. `ForeignRebuild` and `ForeignRetype` are other programs that
maintain their own index, or drop or retype `GENERATION`.

The constant `Careful` restricts callers: after a maintained mutation was
interrupted they refresh, or mutate with maintenance, before a plain mutation.
The history variable `interrupted` exists for this. Without it IndexTruth is
false (section 7); with it, it is a theorem.

**DurableTable** adds `disk`, the image of the last flush. `PowerLoss` keeps an
arbitrary subset of what was written since: attribute by attribute, row by row,
index content possibly in part. A `GENERATION` that is rewritten counts as one
object. The history variable `exposed` records that the power went while tokens or
content of an index were in memory only; `MaxLosses` and `IndexCalls` bound
the instance (section 7). A flush that fails and is followed by more calls
in the same process is not covered, and `TableStore`'s `Kill` alone keeps a program-order prefix.

**ListColumn** is a tower of `Depth` levels over a leaf; a string values group
is a level whose leaf is its characters. `Entries` flattens rows level by level
as `_encode_level` does recursively; `Starts` follows the committed offsets
down; writes go leaf first, `MASK` before `OFFSETS`, one action per resize and
per slice assignment. `Read` is `read_list_column` with its rebasing, `Valid`
is `validate_list_column`. `offsets_buffer`, `mask_validity` and `list_array` are
the buffers `to_arrow` hands to Arrow, which checks none of them. `Entry` gives
the entries callers use at each level; each is null or a sequence of entries of the
level below, and rows are the entries of level 1.

**TableSchema** holds the attributes of the group and the parts each column has
got so far (`Parts`: dataset or group, categories subgroup, labels, reference,
annotations, producer attributes). `WriteAttr` writes an attribute and notes it in
`written`, as `create` does. Its handler deletes one column or one attribute at
a time (`RollbackColumn`, `RollbackAttr` with `CLASS` first, `RollbackCategories`),
only what the call noted. `Raise` and `Kill` strike between any two writes
and between any two of these deletions: a kill leaves attributes a later
`create` did not write and will not delete, an exception in the handler leaves
it where it is (`stuck`), perhaps with `CLASS` on a partial table. `Raise` is an
exception of an HDF5 call, which then has not happened; one that arrives
between a write and the note of it (a signal) is left out.
`Valid` is what `Table.validate` asks of columns, of `INDEX_COLUMNS` and of `_index`.
Datasets that users put beside the columns, the `column_order` argument and
title-like attributes are left out.

**IndexKinds** and **Query**: `compute_*`, `prune`, `sorted_rows` (with its
binary search), `bitmap_rows` are functions of a column prefix; Query runs
`_dnf`, the exact leaves, the leaves to verify, and the union, with each kind of
index `none`, `usable`, `broken` (its reading raises, which demotes the leaf) or,
of a bitmap another producer wrote, `partial`.
`Truth` is an independent three-valued reading of the predicate. `NoLabel`
stands for a categorical label without a code. Encoding errors of query values
and the limit on terms are left out. Predicates are a constant: a set closed
under parts, with the depth of each (`Height`, at most `MaxHeight`), so that
`Terms` (the normal form) and `Truth` are recursive functions the prover can
reason about. The binary search is one too, on spans of places.

**IndexFile** has the index datasets themselves where TableStore has only
their tokens and one content value: extent and maximal extent, datatype,
attributes, the `VALUES` reference of a bitmap. A builder is the sequence of
its writes (`Program`; `Written` and `WrittenValues` say what each does to the two
datasets), which fails (`BuildFails`) or dies (`BuilderDies`) between any two. `append_refresh_indexes`, `refresh_index` and
`refresh_all_indexes` rebuild in place what `index_content_fits`, so an index of
another producer (`Plants`, in `Altered`: sixteen layouts, harmless or damaged) is
rewritten whole or stays as it is. `validate_search_indexes` is
translated rule by rule, shallow and deep (`check_index` is Rule 9 for any rows, so
that a proof can speak of those a call is about to commit), and `TellsTruth` asks what queries are
told by the dataset as it is. Mutations are complete here; failures inside them
are TableStore's.

**ArrowTable** goes from an Arrow table to column specifications (`specs_from_arrow`
with the metadata, or the caller's through `prepared_specs`), checks fills,
creates the table and appends batch after batch; then it exports the result and
may import it again. Every refusal is an outcome with its reason. A dictionary
chunk has labels of its own; those of a single chunk are taken as they are,
repeated ones too, and those of several are unified, unless the index type cannot
count them (`unifies`). Strings are sequences of characters, one of them
two bytes wide and one NUL. Labels are stored in padded fields like any string:
what is read back (`load_category_labels`) has lost the NULs at the end, values
are looked up in that list, where the later of two equal labels counts
(`code_of`), and that list is what is exported. `from_arrays` is a second way to begin. The levels of
nested lists are recursive functions over their depth.

**ColumnReads** takes values in and keys to positions (`row_positions`, mask,
slice), fetches blocks (`gather_rows`: one slice for a run, else runs of
consecutive chunks, the last cut at `NROWS`), undoes the sort, decodes and
masks. `select` is `arrow._select`, which narrows an exported list column.
`worth_gathering` chooses between gather and whole read in
`Selection.read`.

## 3. Properties

* TypeOK: type invariant of the core module.
* IndexTruth: an index a query would use describes exactly the committed rows,
  at every point of every call and after every failure.
* RowsCovered, CommittedStable: `NROWS` never passes a column's extent; rows
  that stay committed never change.
* Restored, Disabled: what a refresh, a maintained and a plain mutation have
  achieved when they reach their last flush.
* TokensBounded: how far a token on file can run ahead of `GENERATION`, which is
  what makes the repair of a malformed token safe.
* IInv, SchemaInv, DurableInv, QueryInv, ListInv, ReadsInv, FileInv, ArrowInv: the
  inductive invariants of section 6; TLC agrees with the proofs on the instances,
  and a mutant of the code breaks each.
* OperationEnds: a started call ends.
* ImplementsTable (twice): appends and truncations are atomic for a reader.
* OmittedReadsFill, PresentStaysPresent: what the documentation says and the
  code does not do (section 7). EqualExtents, RolledBack, AttributesWritten and
  EqualAgain state four more such sentences; they have no run of their own.
* OnlyWindow: one power loss makes an index in use wrong only if it strikes
  before the flush that ends step 4.
* LossKeepsCommit: after a power loss the table shows the rows of the last flush
  or the committed ones.
* Conformant, SliceReads: list columns validate at every moment, and a range
  read is the range of a whole read.
* ExportsCommitted: the buffers handed to Arrow are accepted, stay inside the
  elements handed over, and read as the committed rows, after any failure.
* ReturnsValid: a call that returns leaves a valid table if it found one (a clean
  group, for `create`).
* NoTableLeft: after a `create` that raised and whose handler finished, the group
  is no table, whatever dead calls had left in it; one it found clean has no attribute, no
  column but the one the call failed in, and no `CATEGORIES` it had not before.
* NamesKept: `add_column` takes no name out of `column_names`, wherever it stops.
* AnswersTheQuestion, IndexesAnswer: plans and index kinds against the meaning
  of the predicate.
* ReadsBack: a reader gives back what callers appended, in the order asked for
  and repeats included, and fails exactly when a position is no committed row or
  a mask has another length than the column.
* FetchesOnlyWanted: a scattered read touches only chunks with a wanted row, and
  none of their rows twice.
* Accepted: with our own indexes and harmless ones of others, what every call
  leaves passes deep validation.
* DeepMeansRight: in a file that deep validation accepts, whoever wrote it, an
  index in use answers every question truthfully.
* StampedPasses: no rebuild makes an index valid that would fail the deep check.
* DeadBuilderHarmless: what a builder that dies leaves, with our own indexes and
  harmless ones of others, is complete and true, or no query believes it.
* ValuesKept, SuggestionHolds: imports keep nulls and values, and name fills that
  can be used.
* RefusedUntouched: with inferred specs every refusal comes before the first
  write, but that of a categorical value which ends in a NUL.
* ImportsAgain: what h5col wrote with specs of its own can be exported and
  imported; only labels that read back as one label twice are refused, by
  `create`.
* FixedPoint: the export of such a copy is the same as that of the original.

Each property of a passing run has a mutant in `PROJECT.json`: a definition
changed as a plausible bug would change it, under which TLC finds the property
violated.

## 4. Runs and bounds

| Run | Instance | Shows |
|---|---|---|
| protocol | 1 column, 2 own indexes (symmetric) and a foreign one, 1 row, `GENERATION` to 3, raise and kill, other tools | the token protocol with calls that fail anywhere, the repair of `GENERATION`, and IInv |
| rows | 2 columns, 1 index, 2 rows, `GENERATION` to 2, raise and kill | RowsCovered, CommittedStable, ImplementsTable, and OperationEnds under WF of the running call |
| loss | 1 column, 1 index, 2 rows, `GENERATION` to 3, plain and maintained mutations, one power loss | what flushes are worth (RowsCovered and LossKeepsCommit, OnlyWindow, DurableInv) |
| list_rows | 2 levels, nullable, 5 row values, 2 rows | list columns with residue at all levels, their export, and ListInv |
| schema_calls | 4 kinds of column, 2 layouts, raise and kill | structure of a table with calls and handlers that stop anywhere, and SchemaInv |
| query | chunks of 2; leaves over up to 3 rows, two and three leaves over 2, pairs of leaves over 3, every column of up to 4 rows; values 1, 2, NaN, four fills, index health free; predicates four deep | plans and index kinds, and QueryInv |
| reads | chunks of 2 and contiguous, 5 rows | readers, the row selection of the list export, and ReadsInv |
| index_files | 1 column, chunks of 2, bytes of 2 bits, 2 to 3 rows of 1, 2 or NaN, a number or NaN as fill, `GENERATION` to 2, one builder and one planted index | index datasets, rebuilds, validate, and FileInv |
| arrow_copies | datatypes of 2 to 4 bits and a float, tables of up to 3 rows in one or two batches, one or two columns, labels that repeat or end in a NUL, inferred and supplied specs, two copies | imports and exports, and ArrowInv |
| residue_tokens, residue_rows, arrow_narrow | minimal instances | expected violations, section 7 |

Why this is enough to mean something. In `protocol` an index is affected by one
mutation that dies and one that follows: three generations and the row counts
0 and 1 contain every relation between tokens and table (behind, equal, one
ahead, matching by accident); `residue_tokens` finds its counterexample within
these bounds. Two own indexes are needed for a maintenance loop that stops
between them and for a link list that is lost while it grows; the foreign one
for tokens this program did not write. What happens to row data needs an append
onto committed rows and residue of another length, hence the two rows and two
columns of `rows`. The proofs of section 6 remove the bounds altogether for the
core, the structure of tables, power losses, list columns, readers, index kinds,
queries, the search-index file, and imports and exports. `MaxRows`, `MaxGen`, `MaxLosses`, `MaxBatch`, `StartRows`, `MaxIndexes`,
`MaxCopies`, `MaxHeight` and the row counts and extents of the cases of Query
are the only bounds; they appear as guards or in the initial states. OperationEnds is checked without the other tools, since
these could carry `GENERATION` to its bound and stop a call in the model only.
Two chunks with a partial last one, repeats and gaps need five rows in `reads`.
In `index_files` three rows are a chunk and a byte more than two: an index is
rebuilt over fewer and more rows, chunks, bytes and distinct values than it
has, with every missing and NaN pattern; one planted index meets one built next
to it. In `arrow_copies` datatypes of two bits overflow and run out of free
fills, and two batches are what dictionaries, widths and nulls can differ in,
while one batch has a dictionary with a repeated label or two that differ in a NUL;
the second copy is compared with the first. In `schema_calls` a kill in the
handler is followed by any number of further calls, so a create meets
every subset of attributes and columns that dead handlers leave.
Values are the smallest set in which the cases differ: one present value
against the fill suffices where only identity matters; query values are below
and at a bound, or NaN.

`CHECK_DEADLOCK` is left on everywhere: idle states stutter explicitly.

## 5. Fairness

`FairSpec` is `Spec` with weak fairness of `Step`, the steps of the running
call. The code is one synchronous thread: once a call has begun the interpreter
goes on to its next statement, unless the call fails or the process dies, which
are actions outside `Step` and end the call. No fairness is assumed of callers,
faults or other tools. Safety runs use no fairness.

## 6. Proofs

Eight modules of theorems; each theorem is for every value of the constants,
from the assumptions its module names.

**The write protocol** (`TableStoreProofs`): every set of columns, values and indexes, every owner map
and every bound, from `ConstantsAssumption` (the constants have their kinds,
columns and indexes are different names, the fill value is none of the stored
values):

| Theorem | Statement |
|---|---|
| TypeCorrect | `Spec => []TypeOK` |
| RowsAlwaysCovered | `Spec => []RowsCovered` |
| CommittedRowsStable | `Spec => CommittedStable` |
| IndexesTruthful | `Careful` implies `Spec => []IndexTruth` |
| MaintenanceRestores | `Careful` implies `Spec => []Restored` |
| MutationDisables | `Careful` implies `Spec => []Disabled` |
| TokensStayBounded | `Careful` implies `Spec => []TokensBounded` |
| TableImplemented | `~Omission` implies `Spec => ImplementsTable` |

BaseInvariant and WholeInvariant are the two invariants they follow from.
`Careful` is the assumption on callers of section 2; TLC shows in
`residue_tokens` that IndexTruth fails without it. `~Omission` says that callers
leave no column out of an append; `residue_rows` shows what happens if they do.

The argument. None of the properties is inductive alone: IndexTruth says
nothing of an index with tokens ahead of `GENERATION`, and it is exactly those
that become valid at the next bump. TableInvariant therefore says, for each
point of a call, what is pending:
LocalsFit (locals against `pc`), GenerationFits (`g_old` before the bump,
`g_old + 1` after), ExtentsFit (columns already extended reach `n_new`),
TokensFit (a token is at most one ahead of `GENERATION`, and only for an index
being maintained or one a dead call left), MaintainedFit (an index already
maintained has the tokens and content of the state to come, every other linked
index is behind it), BuiltFit (content precedes tokens), AttachedTruth
(IndexTruth, also for an index whose list is being rewritten), PublishedFit
(Restored and Disabled with what they build on). The first four with TypeOK
are inductive by themselves and need no assumption on callers; the others are
preserved together. Each preservation lemma has one step per action and the
theorems combine them with PTL.

TableImplemented needs one more fact, DataFits: a column an append is done with
holds the data of the call between `NROWS` and the new count. With it each
action is one of five: it begins a call (`CallStep`), is not seen (`QuietStep`,
`RestStep`), publishes rows that are those promised (`CommitStep`), or returns
(`ReturnStep`), also by failing or dying. The abstract step of each kind is a
lemma about the committed rows and the step the call is at; the actions are
then cases of these.

**Power losses** (also in `TableStoreProofs`, from `ConstantsAssumption` and
`DurableAssumption`):

| Theorem | Statement |
|---|---|
| RowsFlushedFirst | `DurableSpec => []RowsInv` |
| RowsCoveredAfterLoss | `DurableSpec => []RowsCovered` |
| CommittedRowsSurviveLoss | `DurableSpec => LossKeepsCommit` |
| MixturesStayTables | the assumptions of OnlyWindowWrong imply `DurableSpec => []DurableInv` |
| OnlyWindowWrong | `Careful`, no refreshes and at most one loss imply `DurableSpec => []OnlyWindow` |

The first three hold for any number of losses and any callers. They rest on
two images rather than one: up to either row count, memory and disk hold the
same rows and neither extent falls short (RowsFlushed), and what an append is
about to commit was flushed before its step 4 (PromiseFlushed). Any mixture of
the two images then covers its `NROWS`, whichever one it keeps. OnlyWindow
needs the core invariant besides, and what relates the tokens of the two images
before the loss (FlushedInv): a flushed token is at most one ahead of the
flushed `GENERATION`, ahead only if a maintained mutation wrote it, and where the
two are equal the flushed row counts are equal too. After the one loss the
mixture satisfies the invariant of TableStore again, unless it struck in the
window. Both restrictions are needed (section 7).

MixturesStayTables is that invariant as a whole, the one the run checks.

**Table structure** (`TableSchemaProofs`, from `SchemaAssumption`: kinds are
kinds, layouts are sequences of distinct names, the names finitely many):

| Theorem | Statement |
|---|---|
| SchemaInvariant | `Spec => []SchemaInv` |
| ValidTables | `Spec => []ReturnsValid` |
| FailedCreateLeavesNoTable | `Spec => []NoTableLeft` |
| ColumnNamesKept | `Spec => []NamesKept` |

`validate` judges the table when a call returns; the invariant has to say in
between what is already valid. ValidFor is the rules of `validate` for a set of
columns: CreateFits has them for the columns made so far, AddFits for all but
the one being made until it has its extent, AppendFits with two extents, that of
the columns grown and that of the others. ObjectsFit orders the parts of a
column (no reference without an object, no categories without their subgroup)
whoever died before. These are conditional on the call having found a valid
table, which the history field `sound` records.

NoTableLeft rests on HandlerFits, what the handler goes by: `CLASS` is there only because
the running `create` wrote and noted it, and in a group found clean so is every
other attribute, and every column is noted or is the one being made. Each deletion
shortens the list and the group together; a handler that has emptied its list has
emptied the group but for that one column. A handler that raises or dies stops
with the rest of its list still in the group, and the theorem says nothing of it: the next
call starts from there, with `sound` false.

**List columns** (`ListColumnProofs`, from `ListAssumption`: at least one level
over the leaf, entries are null or sequences of entries of the level below, and
no caller stores the declared fill of a leaf as a value, which would read as
missing). For every depth, every choice of nullable levels,
every set of entries and any number of torn appends:

| Theorem | Statement |
|---|---|
| ListInvHolds | `Spec => []ListInv` |
| AlwaysConformant | `Spec => []Conformant` |
| AlwaysSliceReads | `Spec => []SliceReads` |
| AlwaysExports | `Spec => []ExportsCommitted` |
| ListImplemented | `Spec => ImplementsTable` |

Conformant speaks of the committed rows and says nothing of what an append has
written behind them, which is what `NROWS` will make visible. ListInv adds it:
the running append works off the plan of its rows (PlanFits), and the leaf and
the levels below the one at hand hold exactly what the plan says, from where the
committed entries end (WritesFit); resized but not yet written, they are long
enough. A write changes nothing in front of that place (Keeps), so the counts of
the levels, and what is read, stay (CommittedKept). At the commit GrownDescribed
puts the committed and the new entries of every level together: the running sums
are where the lists of a level lie in the flattened level below (FlattenPlaces,
SumsFacts).

Reading is an induction over the levels from the leaf up. RangeItems: any range
of a level reads its items, where an item is a slice of the whole level below;
rebasing drops out because offsets ascend. SliceReads and the export follow from
it, and so does GrownJoined: once every level is written, each reads its
committed entries followed by the new ones, of which level 1 is the rows the
caller gave. The refinement then needs only that no other step changes what is
read (each lemma of a step proves `Committed' = Committed` with ListInv).

**Readers** (`ColumnReadsProofs`, from `ReadsAssumption`: chunks and bounds are
of their kinds, keys are masks, lists of positions or slices with a step other
than 0, fills are none of the codes of a categorical column, and labels are distinct). For every column, chunk
length, sequence of appends and truncations, and key:

| Theorem | Statement |
|---|---|
| ReadersRight | `Spec => []ReadsInv` |
| WhatWasAppended | `Spec => []ReadsBack` |
| NoChunkInVain | `Spec => []FetchesOnlyWanted` |

ReadsInv has three parts besides the two properties. RowsFit: up to `NROWS` the
dataset is the encoding of what was appended, whatever lies behind. GatherFits:
a scattered read has fetched every wanted row of the chunks it is done with, and
its blocks end before the chunks still to come begin. BlocksFit: blocks hold
wanted chunks only and do not overlap. A run of consecutive chunks is the longest
from the lowest chunk left, so every wanted row of these chunks is in the block
that is read, although the block is cut at `NROWS` (GatherRun); the block of a
key that ascends without gaps is the special case of one run (GatherRange).
Restoring the order is a fact about sorting alone: `Ordered` over the places of
the key is a bijection, and writing the i-th value fetched to the i-th
place of it gives the key its order back, with repeats. What the numbers of a
mask or a list are is proved against Wanted, which counts the marked rows and
adds `NROWS` to negative positions, and of a slice against SliceRows, the rows it
runs through in its direction.

OrderedList is that fact, from no assumption: for whole-number keys `Ordered`
lists each member of a finite set once, ascending, equal keys ascending by the
member. IndexKindsProofs needs it for a column, this module for the places of a
key. Both prove it.

**Index kinds** (`IndexKindsProofs`, from `KindsAssumption`: chunks are not
empty, NaN and "no fill" are not integers). For every column of integers and
NaN, row count, fill value and comparison:

| Theorem | Statement |
|---|---|
| PruneKeepsMatches | the chunks `prune` keeps contain every row that compares |
| SortedExact | `sorted_rows` of `compute_sorted_rows` is the rows that compare |
| BitmapExact | `bitmap_isin` of a whole or partial bitmap is the rows with one of the values, or CannotSay |

PruneKeepsMatches: a row lies in the chunk its quotient names, inside the
bounds of that chunk, and makes it Usable. SortedExact: `Ordered` is a bijection
that ascends (the place of a row is the number of rows before it, and these
numbers are all different); the places whose element reaches a bound are
therefore a suffix of the body, `First` finds where a suffix begins, and each
comparison is the slice between two such places.

**Queries** (`QueryProofs`, from `KindsAssumption` and `QueryAssumption`:
values and fills are of their kinds, predicates are made of less deep ones and of
leaves that ask what the operators allow, row counts are within the extent):

| Theorem | Statement |
|---|---|
| NormalForm | a predicate (or its negation) is true of an element iff all leaves of a term of its normal form match it |
| EvaluationKeepsRows | `Spec => []QueryInv` |
| SelectAnswers | `Spec => []AnswersTheQuestion` |
| KindsAnswer | `Spec => []IndexesAnswer` |

NormalForm is where three-valued logic and missing rows meet: it is proved for a
predicate and its negation together, since NOT swaps them, and says that "not
true" of the one is neither "true" nor "false" of the other. The invariant of
the evaluation is Kept: the predicate is true of a row if and only if the row is
in the result, or has survived the leaves done of this term and matches those
still to be tried or verified, or satisfies a term left. An exact index that
answers moves a leaf from those to be tried to those survived; one that is
absent or broken moves it to those to be verified; either way Kept does not
change, which is why the indexes cannot show in the answer.

**The search-index file** (`IndexFileProofs`, from `KindsAssumption` and
`IndexFileAssumption`: cells and fills are numbers or NaN, a byte has bits,
`Endless` is beyond every row, and the marks for what is absent are none of the
things they could be taken for). For every set of columns, content, chunk length
and row count, every one of the sixteen layouts, and any sequence of calls that
fail or die:

| Theorem | Statement |
|---|---|
| TypesKept | `Spec => []Typed` |
| DeepChecksSuffice | `Spec => []DeepMeansRight` |
| StampsEarned | `Spec => StampedPasses` |
| FileKept | `Spec => []FileInv` |
| AlwaysAccepted | `Spec => []Accepted` |
| DeadBuildersHarmless | `Spec => []DeadBuilderHarmless` |

The theorems come in three layers. DeepChecksSuffice needs only that datasets are
datasets (Typed): each rule of the deep check is brought to what the lookup
reads (MinmaxTruth, SortedTruth, BitmapTruth), and IndexKindsProofs says what the
lookup answers on it. Nothing is assumed of who wrote the file. It is here that a
rule missing from `validate` would show: BitmapTruth uses every one of those on
the claim to be exhaustive.

StampsEarned needs Typed as an invariant, which contains BuilderFits: the running
builder is at some place of its program, and what the steps before have
written is on file (Built). An index becomes valid at `SOURCE_NROWS`, and every
step that its deep check looks at is before that in the program (LastToken,
CompletePasses). For a rebuild, RebuiltMinmax, RebuiltSorted and RebuiltBitmap
show that what `index_content_fits` admits is right once
`write_index_content` has written it, whatever attributes and content were there
before. A call rebuilds many indexes one after the other, so RebuiltTends is an
induction over that list with an invariant on its intermediate files
(Tended): each dataset is still what it was, or has the tokens of the state to come and
passes the deep check for its rows. That no rebuild undoes another rests on
names: two indexes share no dataset (Apart).

Accepted is not inductive. It says nothing of an index that is not linked, which
a later call may link or rebuild, nothing while a builder runs, and nothing of an index that is
stale now and whose tokens may match later. FileInv adds ValidRight (whatever claims to be
valid passes the deep check, linked or not, also while a builder runs) and
Orderly (unless a builder died, each dataset other than those being made is a
complete index or the values of a bitmap). A stale index cannot become valid by
itself because no token is ahead of `GENERATION` and each mutation raises it
(Dated, NotTouched). In the initial states FreePasses shows that the layouts
called harmless are: entries behind the last chunk, wider rows of a
bitmap, a partial enumeration that does not claim to be exhaustive, fixed
extents and narrow row numbers all pass.

ValidRight after the death of a builder is DeadBuilderHarmless. Orderly stops
there: the dataset of a builder killed before `KIND` remains, and validate says
so (Rule 3).

**Imports and exports** (`ArrowTableProofs`, from `DatatypesAssumption`: an
integer datatype is an interval with 0 in it, and a signed one reaches below -1;
`ApartAssumption`: null, NaN and "no fill" are no numbers, texts or bytes, and null
is no list; `SourcesAssumption`: the tables begun with are Arrow tables, the
caller's specs are specs for them, and arrays have no nulls; a spec of an integer
datatype is not for a column of floats, a list spec has the depth of its column,
and some signed datatype counts the labels of each dictionary). For every set of
datatypes, every table with any number of columns, batches and labels and any
depth of lists, every caller's spec, and any number of copies and suggestions:

| Theorem | Statement |
|---|---|
| TypesOfCopies | `Spec => []ArrowInv` |
| ValuesAreKept | `Spec => []ValuesKept` |
| RefusalsLeaveNothing | `Spec => []RefusedUntouched` |
| ExportsComeBack | `Spec => []ImportsAgain` |
| CopiesAreEqual | `Spec => []FixedPoint` |
| SuggestionsWork | `Spec => []SuggestionHolds` |

ArrowInv says how the state came about: SourceFits (what is imported is an Arrow
table; an export has one batch of the types `arrow_type` writes; if nobody
supplied specs its inferred specs are refused only for labels that repeat), SpecsFit (each spec
is ready: of its field, filled, and checked against the data; without a caller's
specs it is the inferred one), FileFits (the rows on file are the rows of the
batches appended so far, each value cast, filled in and encoded, and none was
refused) and SuggestionFits (a suggested fill, put into the spec it is for, passes
the check). RefusedUntouched, ImportsAgain and SuggestionHolds are not inductive
without these and are conjuncts of ArrowInv; ValuesKept and FixedPoint follow from it.

ValuesKept then is a statement about one value, its spec and its fill
(ScalarOut, and over the depth of lists NestedSteps): what is encoded and read back
is the value, unless it is a null, and a null is never taken for a value, because
the fill was compared with every present value of every chunk on every level. The
batches are joined by an induction over their number (PrefixFacts); strings fit
the width that is the maximum over all of them, and the labels inferred contain those
of every batch.

Labels are the one thing stored that is not what was given. A label loses the NULs
at its end (ReadLabels), so a value that ends in one is found nowhere, and CodeOf
gives the code of every other value of the column. Hence the two exceptions:
RefusedUntouched names the batch with such a value, ImportsAgain the labels
that have become one label twice. IsExport says that exported labels end in no NUL,
so the second copy can only meet the latter.

ImportsAgain and FixedPoint are about two imports in a row. The spec inferred
from an exported field is the spec it came from, but for its fill (FieldSpec),
and the field exported for that spec is that field (FieldAgain): the metadata give
back what the type cannot say. That its fill is not refused
follows from what was exported: a spec that nobody supplied has the recommended
fill, which its annotations allow (NaturalSpec), and an export holds no present value
equal to the fill, because what equalled it was exported as null (ScalarOut).

SuggestionHolds needs that `suggest_fill` tries its candidates against the same
values the next check looks at, and that giving one column another fill leaves the
checks of the others as they were (RefilledGiven).

PresentStaysPresent has no theorem; it is false (section 7).

**Induction.** The induction theorems of the library take an operator and
cannot be used here. IndexKindsProofs states induction over sets instead: from
the well-foundedness of `<` a set of naturals has a least element (LeastNat), so a
set that contains 0 and successors contains them all (NatSetInduction); a set that
contains an element whenever it contains all of less measure contains
everything (MeasureInduction); and a functional that only looks at arguments of
less measure has a fixed point (BoundedRecursion). The last is what makes a
recursive *function* (`Terms`, `Truth`, the binary search of `First`) satisfy its
equation; without it a recursive definition is a CHOOSE of which nothing is
known. ListColumnProofs does the same over the levels of a column (LevelsUp,
LevelsDown), for `Entries`, `Counts`, `Read`, `ArrowRows` and the library's
`FlattenSeq`, and ArrowTableProofs over the depth of nested values (LevelDown,
NestedSteps, LeavesSteps) and the number of batches. Recursive *operators*
remain out of reach; only MCQuery declares some, to enumerate predicates.

Model definitions whose CASE arms overlapped have been rewritten as chains of
IF: in TLA+ a CASE with two true arms is an unspecified choice of one of them,
while TLC takes the first.

## 7. Disagreements with the documentation

Each is a run whose counterexample TLC prints.

* `residue_tokens`: a maintained call dies after it wrote the tokens of the state
  to come; a plain append or truncate later publishes that very state, and the
  unfinished index is believed. (docs/guide/indexes.md: a crash "cannot leave
  an index believed-valid but wrong".)
* `residue_rows`: rows cut off by `truncate` come back as values of a column that
  a later `append` omits. (docs/guide/data-model.md: "its new rows read as
  missing".)
* `arrow_narrow`: a caller's narrower integer datatype: the fill is compared with
  the values before the cast, which wraps one of them onto it. ("supplying specs
  cannot skip it".)

Four more are stated in the modules and have no run of their own:

* EqualExtents: an append fails between two columns, a shorter one then
  succeeds, and extents differ; `validate` rejects the table. ("All column
  datasets must share one extent".)
* RolledBack: `create` fails inside a column, which is not in the list its
  handler deletes. ("rolling everything back on failure".)
* AttributesWritten: producer attributes of categorical and list columns are
  never written. ("Extra HDF5 attributes to write on the column".)
* EqualAgain: dictionary codes of an unsigned type, or of one whose largest
  value is the last label, are imported and come back in another type, since
  `_code_dtype` takes signed types with room for a code above the labels. TLC finds it in the
  instance of `arrow_copies`. (docs/guide/from-arrow.md: "Export, import, and
  export again gives back an equal Arrow table".) FixedPoint says that this
  is the only difference.

The handler of `create` keeps its promise ("a partially built table is never left
behind") only if it finishes, which NoTableLeft assumes. One that raises before it
deletes `CLASS` leaves a partial table; one that dies, or a `create` that does,
may leave `column-order`, `INDEX_COLUMNS` or `_index`, which no later failing `create`
cleans up, since it deletes only what it wrote itself.

ArrowTable follows the code where users may be surprised; the properties make
room for it and no run is about it. A dictionary label that ends in a NUL is
stored without it: the import is refused as an unknown category when the first batch with
such a value is appended, after the table was created. Labels that differ only in such
NULs read back as duplicates, and the import of their export is refused. The
label repeated within one Arrow chunk is refused by `create`. A string of NULs alone is exported as
missing; `Holds` says what a datatype can hold. A categorical or string column whose spec declares a
valid range exports metadata that an import refuses (ImportsAgain is about
specs h5col infers). The fill a caller gives
for a categorical column is replaced by the default one, and producer
attributes are not exported.

The documents say "crash" and do not tell a dead process from a power loss.
After a power loss TLC finds IndexTruth violated in two cases. Tokens and
content of a maintained index share one flush, and a loss can keep the content
without the tokens: OnlyWindow says that with one loss this is the only case,
for callers that do not refresh. A refresh that is stopped between
`SOURCE_GENERATION` and `SOURCE_NROWS` leaves the new generation next to the old
row count in memory, and the flush of a later call puts both on disk; a
truncation back to that count whose `GENERATION` is lost makes them match.
`GENERATION` and `NROWS` share one flush too, and two losses that each keep
`NROWS` and drop `GENERATION` make an index of the first state valid over the
third; `MaxLosses` is 1 for this reason.

## 8. What is only model-checked, and what is left out

Only model-checked:

* OperationEnds: liveness is beyond the prover.
* OnlyWindow for callers that refresh, which it does not hold of (section 7).

Not modelled:

* `filters.py`: a list handed to HDF5, on which no state or error path depends.
* `exceptions.py`, `explain`, `repr`, metadata properties: wording.
* Field checks of `specs.py`, which pydantic does when a spec is made; specs
  here have passed them. Title-like attributes, `column_order` of
  `create`, and datasets that users put beside the columns.
* Chunk-size heuristics and array slicing inside a gather block: performance.
* String ordering, space padding and character sets; query values that cannot
  be encoded; the limit on terms. Indexes are modelled over numbers and NaN.
* Byte order, temporal types and the text of numbers in `arrow.py`.
* Bits within a byte: a bitmap row is the set of its bits.
* Files with two indexes of another producer that share a dataset.
* Documentation, examples, notebooks and build files.

## 9. Plan

Done, in this order: core protocol and its abstraction; invariants and proofs;
durability; list columns; structure; query; readers; the search-index file and
its validation; Arrow import and export; the refinement theorem; the theorems
about structure, power losses, index kinds, queries, list columns, readers,
the search-index file, and imports and exports.

Next:

1. A composition of TableStore with ListColumn and a scalar column in one
   append.
2. IndexKinds for byte strings.
