------------------------------ MODULE TableStore ------------------------------
(***************************************************************************)
(* The write protocol of an h5col table: Table.append and Table.truncate   *)
(* (table.py), the search-index validity tokens they publish, and the      *)
(* index builders and refreshers of indexes.py that write against them.    *)
(*                                                                         *)
(* The variables are what the HDF5 file holds (columns, NROWS, GENERATION, *)
(* index datasets with their SOURCE_GENERATION / SOURCE_NROWS tokens) and  *)
(* the local state of the one operation that is running.  Every HDF5 write *)
(* is a step of its own, so that an exception or a killed process can fall *)
(* between any two of them.  HDF5 has one writer, hence one program        *)
(* counter.                                                                *)
(***************************************************************************)
EXTENDS Integers

CONSTANTS
  Columns,      \* the scalar columns of the table
  FillLess,     \* those that declare no fill value (boolean columns)
  Values,       \* the values a caller can store
  Fill,         \* what an unwritten element reads as: the column's fill value
  Indexes,      \* names under SEARCH_INDEXES
  Owner,        \* the column an index is built over
  Foreign,      \* indexes this implementation cannot rebuild
  Torn,         \* index content that is partly overwritten
  NoName,       \* no column or index is being written
  MaxRows,      \* bound: rows of the table
  MaxGen,       \* bound: values of GENERATION
  Omission,     \* callers leave columns out of an append
  Shrinking,    \* callers call truncate
  Careful,      \* callers follow an interrupted maintained mutation with a
                \* refresh or another maintained mutation
  Faults,       \* "raise": a call fails; "kill": the process dies
  ForeignTool   \* another tool rebuilds its indexes and retypes GENERATION

Row  == 1..MaxRows
Gens == 0..MaxGen
Cell == Values \cup {Fill}
None == -1      \* an attribute that is absent or of the wrong type

ASSUME ConstantsAssumption ==
  /\ MaxRows \in Nat /\ MaxGen \in Nat
  /\ FillLess \subseteq Columns /\ Foreign \subseteq Indexes
  /\ Owner \in [Indexes -> Columns]
  /\ Columns \cap Indexes = {} /\ NoName \notin Columns \cup Indexes
  /\ Fill \notin Values
  /\ {Omission, Shrinking, Careful, ForeignTool} \subseteq BOOLEAN
  /\ Faults \subseteq {"raise", "kill"}

VARIABLES
  nrows,        \* NROWS: the committed row count
  gen, form,    \* GENERATION: its value; "absent", "uint64" or "malformed"
  ext,          \* extent of each column dataset
  cell,         \* elements of each column dataset; Fill beyond its extent
  status,       \* "none"; "bare": no KIND yet; "kinded"; "linked": on the
                \* column's SEARCH_INDEX_LIST
  sg, sn,       \* SOURCE_GENERATION, SOURCE_NROWS of each index, or None
  content,      \* the column prefix an index describes, or Torn
  pc,           \* next step of the running operation
  op,           \* its locals: n = n_new, g = g_old, the data it was given
  todo, cur,    \* columns or indexes still to write, and the one in hand
  interrupted   \* history: a maintained mutation died, nothing healed since

tableVars == <<nrows, gen, form, ext, cell>>
indexVars == <<status, sg, sn, content>>
localVars == <<pc, op, todo, cur>>
vars      == <<tableVars, indexVars, localVars, interrupted>>

Phase ==
  {"idle", "columns", "write", "step4", "maintain", "mrows", "mtear",
   "mcontent", "bump", "rows", "flush", "bcreate", "bcontent", "bkind",
   "bgen", "brows", "bunlink", "blink", "refresh", "rcontent", "rgen", "rrows"}

NoData   == [c \in Columns |-> [r \in Row |-> Fill]]
NoOp     == [kind |-> "none", n |-> 0, g |-> None, given |-> {},
             data |-> NoData, maintain |-> FALSE]
Op       == [kind : {"none", "append", "truncate", "build", "refresh"},
             n : 0..MaxRows, g : Gens \cup {None}, given : SUBSET Columns,
             data : [Columns -> [Row -> Cell]], maintain : BOOLEAN]
Prefixes == UNION {[1..n -> Cell] : n \in 0..MaxRows}

\* The column values a full scan of the first n rows reads.
Snapshot(i, n) == [r \in 1..n |-> cell[Owner[i]][r]]

\* The table as the constructors leave it: no rows, no index of our own; a
\* foreign index, if any, already describes the empty table.
Init ==
  /\ nrows = 0
  /\ form = IF Foreign = {} THEN "absent" ELSE "uint64"
  /\ gen = 0
  /\ ext = [c \in Columns |-> 0]
  /\ cell = NoData
  /\ status = [i \in Indexes |-> IF i \in Foreign THEN "linked" ELSE "none"]
  /\ sg = [i \in Indexes |-> IF i \in Foreign THEN 0 ELSE None]
  /\ sn = [i \in Indexes |-> IF i \in Foreign THEN 0 ELSE None]
  /\ content = [i \in Indexes |-> IF i \in Foreign THEN Snapshot(i, 0) ELSE Torn]
  /\ pc = "idle" /\ op = NoOp /\ todo = {} /\ cur = NoName
  /\ interrupted = FALSE

-----------------------------------------------------------------------------
(* Tokens and what they vouch for.                                         *)

\* The consumer check; a malformed or absent token never passes.
index_is_valid(i) == form = "uint64" /\ sg[i] = gen /\ sn[i] = nrows

Kinded == {i \in Indexes : status[i] \in {"kinded", "linked"}}
Linked == {i \in Indexes : status[i] = "linked"}

\* What a query acts on: an index found through its column that passes the check.
Believed(i) == i \in Linked /\ index_is_valid(i)

\* g is what ensure_generation returns: the well-formed token, 0 for a table
\* that has no index, else one above every value any index may carry.
ensure_generation(g) ==
  LET floors == {IF form = "malformed" THEN gen ELSE 0} \cup {sg[i] : i \in Kinded}
  IN  CASE form = "uint64" -> g = gen
        [] form = "absent" /\ Kinded = {} -> g = 0
        [] OTHER -> g - 1 \in floors /\ \A f \in floors : f <= g - 1

\* Mutant: the lenient read; a malformed token is taken as it is.
mutation_generation_lenient(g) ==
  IF form = "absent" THEN g = None ELSE g = gen

\* g_old of a mutation: an absent token stays absent, a malformed one is repaired.
mutation_generation(g) ==
  IF form = "absent" THEN g = None ELSE ensure_generation(g)

SetGeneration(g) ==
  /\ gen'  = IF g = None THEN gen ELSE g
  /\ form' = IF g = None THEN form ELSE "uint64"

Goto(p)  == pc' = p /\ UNCHANGED <<op, cur>>
Return   == pc' = "idle" /\ op' = NoOp /\ todo' = {} /\ cur' = NoName

-----------------------------------------------------------------------------
(* Append and truncate.                                                    *)

\* A plain mutation by a careful caller waits until residue is healed.
MayMutate(maintain) == Careful /\ ~maintain => ~interrupted

\* Validation has passed: every fill-less column is given, k rows each.  A
\* None in the data is the fill value by now, so a fill-less column has none.
BeginAppend(given, k, data, maintain, g) ==
  /\ pc = "idle" /\ MayMutate(maintain)
  /\ FillLess \subseteq given
  /\ \A c \in FillLess, r \in 1..k : data[c][r] # Fill
  /\ mutation_generation(g) /\ g < MaxGen
  /\ SetGeneration(g)
  /\ op' = [kind |-> "append", n |-> nrows + k, g |-> g, given |-> given,
            data |-> [c \in Columns |-> [r \in Row |->
                        IF c \in given /\ r \in (nrows + 1)..(nrows + k)
                        THEN data[c][r - nrows] ELSE Fill]],
            maintain |-> maintain]
  /\ pc' = "columns" /\ todo' = Columns /\ cur' = NoName
  /\ UNCHANGED <<nrows, ext, cell, indexVars, interrupted>>

\* Mutant: one row short.
extend_to_short(c) ==
  /\ pc = "columns" /\ c \in todo
  /\ ext' = [ext EXCEPT ![c] = IF @ < op.n - 1 THEN op.n - 1 ELSE @]
  /\ IF c \in op.given
       THEN pc' = "write" /\ cur' = c /\ UNCHANGED <<op, todo>>
       ELSE todo' = todo \ {c} /\ UNCHANGED <<pc, op, cur>>
  /\ UNCHANGED <<nrows, gen, form, cell, indexVars, interrupted>>

\* Dataset.resize, only ever upwards; a column that was not given is done.
extend_to(c) ==
  /\ pc = "columns" /\ c \in todo
  /\ ext' = [ext EXCEPT ![c] = IF @ < op.n THEN op.n ELSE @]
  /\ IF c \in op.given
       THEN pc' = "write" /\ cur' = c /\ UNCHANGED <<op, todo>>
       ELSE todo' = todo \ {c} /\ UNCHANGED <<pc, op, cur>>
  /\ UNCHANGED <<nrows, gen, form, cell, indexVars, interrupted>>

\* Elements n_old..n_new of the column in hand, or those of them in rows.
WriteRows(rows) ==
  cell' = [cell EXCEPT ![cur] =
             [r \in Row |-> IF r \in rows THEN op.data[cur][r] ELSE @[r]]]

\* Mutants: the slice starts one row early, or ends one row early; nothing is
\* flushed after the last column.
WriteColumnEarly ==
  /\ pc = "write"
  /\ WriteRows(nrows..op.n)
  /\ pc' = "columns" /\ todo' = todo \ {cur} /\ cur' = NoName
  /\ UNCHANGED <<op, nrows, gen, form, ext, indexVars, interrupted>>

WriteColumnShort ==
  /\ pc = "write"
  /\ WriteRows((nrows + 1)..(op.n - 1))
  /\ pc' = "columns" /\ todo' = todo \ {cur} /\ cur' = NoName
  /\ UNCHANGED <<op, nrows, gen, form, ext, indexVars, interrupted>>

WriteColumnUnflushed ==
  /\ pc = "write"
  /\ WriteRows((nrows + 1)..op.n)
  /\ todo' = todo \ {cur} /\ cur' = NoName
  /\ pc' = IF todo' = {} THEN "step4" ELSE "columns"
  /\ UNCHANGED <<op, nrows, gen, form, ext, indexVars, interrupted>>

WriteColumn ==
  /\ pc = "write"
  /\ WriteRows((nrows + 1)..op.n)
  /\ pc' = "columns" /\ todo' = todo \ {cur} /\ cur' = NoName
  /\ UNCHANGED <<op, nrows, gen, form, ext, indexVars, interrupted>>

\* The flush that precedes step 4: the new rows are in the file.
FlushColumns ==
  /\ pc = "columns" /\ todo = {}
  /\ Goto("step4")
  /\ UNCHANGED <<tableVars, indexVars, todo, interrupted>>

BeginTruncate(n, maintain, g) ==
  /\ Shrinking
  /\ pc = "idle" /\ MayMutate(maintain)
  /\ n < nrows
  /\ mutation_generation(g) /\ g < MaxGen
  /\ SetGeneration(g)
  /\ op' = [NoOp EXCEPT !.kind = "truncate", !.n = n, !.g = g, !.maintain = maintain]
  /\ pc' = "step4" /\ UNCHANGED <<todo, cur>>
  /\ UNCHANGED <<nrows, ext, cell, indexVars, interrupted>>

\* Step 4 opens: without maintain_indexes nothing is rewritten; with it, a
\* table that has indexes gets a GENERATION first.
StartStep4(g) ==
  /\ pc = "step4"
  /\ IF op.maintain /\ op.g = None /\ Kinded # {}
       THEN ensure_generation(g) /\ g < MaxGen
       ELSE g = op.g
  /\ SetGeneration(g)
  /\ op' = [op EXCEPT !.g = g]
  /\ todo' = IF op.maintain /\ g # None THEN Linked \ Foreign ELSE {}
  /\ pc' = IF todo' = {} THEN "bump" ELSE "maintain"
  /\ cur' = NoName
  /\ UNCHANGED <<nrows, ext, cell, indexVars, interrupted>>

\* One index of append_refresh_indexes: tokens of the state to come, then content.
MaintainGeneration(i) ==
  /\ pc = "maintain" /\ i \in todo
  /\ sg' = [sg EXCEPT ![i] = op.g + 1]
  /\ pc' = "mrows" /\ cur' = i
  /\ UNCHANGED <<op, todo, tableVars, status, sn, content, interrupted>>

\* Mutant: the token names the row count before the mutation.
MaintainNrowsOld ==
  /\ pc = "mrows"
  /\ sn' = [sn EXCEPT ![cur] = nrows]
  /\ Goto("mtear")
  /\ UNCHANGED <<todo, tableVars, status, sg, content, interrupted>>

MaintainNrows ==
  /\ pc = "mrows"
  /\ sn' = [sn EXCEPT ![cur] = op.n]
  /\ Goto("mtear")
  /\ UNCHANGED <<todo, tableVars, status, sg, content, interrupted>>

MaintainTear ==
  /\ pc = "mtear"
  /\ content' = [content EXCEPT ![cur] = Torn]
  /\ Goto("mcontent")
  /\ UNCHANGED <<todo, tableVars, status, sg, sn, interrupted>>

\* Mutants: the index stays on the list; its content is that of the old rows.
MaintainContentAgain ==
  /\ pc = "mcontent"
  /\ content' = [content EXCEPT ![cur] = Snapshot(cur, op.n)]
  /\ pc' = "maintain" /\ cur' = NoName
  /\ UNCHANGED <<op, todo, tableVars, status, sg, sn, interrupted>>

MaintainContentOld ==
  /\ pc = "mcontent"
  /\ content' = [content EXCEPT ![cur] = Snapshot(cur, nrows)]
  /\ todo' = todo \ {cur}
  /\ pc' = "maintain" /\ cur' = NoName
  /\ UNCHANGED <<op, tableVars, status, sg, sn, interrupted>>

MaintainContent ==
  /\ pc = "mcontent"
  /\ content' = [content EXCEPT ![cur] = Snapshot(cur, op.n)]
  /\ todo' = todo \ {cur}
  /\ pc' = "maintain" /\ cur' = NoName
  /\ UNCHANGED <<op, tableVars, status, sg, sn, interrupted>>

\* Some index was rewritten, so the file is flushed before it is published.
FlushIndexes ==
  /\ pc = "maintain" /\ todo = {}
  /\ Goto("bump")
  /\ UNCHANGED <<todo, tableVars, indexVars, interrupted>>

\* Mutant: the mutation does not bump GENERATION.
BumpGenerationMissing ==
  /\ pc = "bump"
  /\ Goto("rows")
  /\ UNCHANGED <<todo, tableVars, indexVars, interrupted>>

\* Step 5: every index that was not maintained is now detectably stale.
BumpGeneration ==
  /\ pc = "bump"
  /\ gen' = IF op.g = None THEN gen ELSE op.g + 1
  /\ Goto("rows")
  /\ UNCHANGED <<todo, nrows, form, ext, cell, indexVars, interrupted>>

\* Mutant: one row too many is committed.
CommitRowsExtra ==
  /\ pc = "rows"
  /\ nrows' = op.n + 1
  /\ interrupted' = (interrupted /\ ~op.maintain)
  /\ Goto("flush")
  /\ UNCHANGED <<todo, gen, form, ext, cell, indexVars>>

\* Step 6: the commit point.
CommitRows ==
  /\ pc = "rows"
  /\ nrows' = op.n
  /\ interrupted' = (interrupted /\ ~op.maintain)
  /\ Goto("flush")
  /\ UNCHANGED <<todo, gen, form, ext, cell, indexVars>>

\* The last flush of an operation, after which it returns.
FlushFile ==
  /\ pc = "flush"
  /\ Return
  /\ UNCHANGED <<tableVars, indexVars, interrupted>>

-----------------------------------------------------------------------------
(* Building one index: content, KIND, tokens, link.                        *)

\* The name is looked up after GENERATION has been written.
BeginBuild(i, g) ==
  /\ pc = "idle" /\ i \notin Foreign
  /\ ensure_generation(g) /\ g < MaxGen
  /\ SetGeneration(g)
  /\ IF status[i] = "none"
       THEN /\ op' = [NoOp EXCEPT !.kind = "build", !.n = nrows, !.g = g]
            /\ pc' = "bcreate" /\ cur' = i /\ UNCHANGED todo
       ELSE UNCHANGED localVars
  /\ UNCHANGED <<nrows, ext, cell, indexVars, interrupted>>

BuildCreate ==
  /\ pc = "bcreate"
  /\ status' = [status EXCEPT ![cur] = "bare"]
  /\ Goto("bcontent")
  /\ UNCHANGED <<todo, tableVars, sg, sn, content, interrupted>>

BuildContent ==
  /\ pc = "bcontent"
  /\ content' = [content EXCEPT ![cur] = Snapshot(cur, op.n)]
  /\ Goto("bkind")
  /\ UNCHANGED <<todo, tableVars, status, sg, sn, interrupted>>

BuildKind ==
  /\ pc = "bkind"
  /\ status' = [status EXCEPT ![cur] = "kinded"]
  /\ Goto("bgen")
  /\ UNCHANGED <<todo, tableVars, sg, sn, content, interrupted>>

BuildGeneration ==
  /\ pc = "bgen"
  /\ sg' = [sg EXCEPT ![cur] = op.g]
  /\ Goto("brows")
  /\ UNCHANGED <<todo, tableVars, status, sn, content, interrupted>>

BuildNrows ==
  /\ pc = "brows"
  /\ sn' = [sn EXCEPT ![cur] = op.n]
  /\ Goto("bunlink")
  /\ UNCHANGED <<todo, tableVars, status, sg, content, interrupted>>

\* The SEARCH_INDEX_LIST attribute is deleted: the column's indexes lose
\* their links until the longer list is written.
BuildUnlink ==
  /\ pc = "bunlink"
  /\ todo' = {i \in Linked : Owner[i] = Owner[cur]}
  /\ status' = [i \in Indexes |-> IF i \in todo' THEN "kinded" ELSE status[i]]
  /\ Goto("blink")
  /\ UNCHANGED <<tableVars, sg, sn, content, interrupted>>

BuildLink ==
  /\ pc = "blink"
  /\ status' = [i \in Indexes |-> IF i \in todo \cup {cur} THEN "linked" ELSE status[i]]
  /\ Goto("flush")
  /\ UNCHANGED <<todo, tableVars, sg, sn, content, interrupted>>

-----------------------------------------------------------------------------
(* refresh_indexes: every stale linked index, content first, tokens last.  *)

BeginRefresh(g) ==
  /\ pc = "idle"
  /\ ensure_generation(g) /\ g < MaxGen
  /\ SetGeneration(g)
  /\ op' = [NoOp EXCEPT !.kind = "refresh", !.n = nrows, !.g = g]
  /\ todo' = Linked /\ pc' = "refresh" /\ cur' = NoName
  /\ UNCHANGED <<nrows, ext, cell, indexVars, interrupted>>

\* A valid index is left alone, and so is one that cannot be rebuilt.
RefreshSkip(i) ==
  /\ pc = "refresh" /\ i \in todo
  /\ index_is_valid(i) \/ i \in Foreign
  /\ todo' = todo \ {i}
  /\ UNCHANGED <<pc, op, cur, tableVars, indexVars, interrupted>>

RefreshTear(i) ==
  /\ pc = "refresh" /\ i \in todo
  /\ ~ index_is_valid(i) /\ i \notin Foreign
  /\ content' = [content EXCEPT ![i] = Torn]
  /\ pc' = "rcontent" /\ cur' = i
  /\ UNCHANGED <<op, todo, tableVars, status, sg, sn, interrupted>>

RefreshContent ==
  /\ pc = "rcontent"
  /\ content' = [content EXCEPT ![cur] = Snapshot(cur, op.n)]
  /\ Goto("rgen")
  /\ UNCHANGED <<todo, tableVars, status, sg, sn, interrupted>>

RefreshGeneration ==
  /\ pc = "rgen"
  /\ sg' = [sg EXCEPT ![cur] = op.g]
  /\ Goto("rrows")
  /\ UNCHANGED <<todo, tableVars, status, sn, content, interrupted>>

RefreshNrows ==
  /\ pc = "rrows"
  /\ sn' = [sn EXCEPT ![cur] = op.n]
  /\ todo' = todo \ {cur}
  /\ pc' = "refresh" /\ UNCHANGED <<op, cur>>
  /\ UNCHANGED <<tableVars, status, sg, content, interrupted>>

\* The file is flushed when some index was rewritten (cur still names one).
FinishRefresh ==
  /\ pc = "refresh" /\ todo = {}
  /\ IF cur = NoName THEN Return ELSE Goto("flush") /\ UNCHANGED todo
  /\ interrupted' = FALSE
  /\ UNCHANGED <<tableVars, indexVars>>

-----------------------------------------------------------------------------
(* Failures and other writers.                                             *)

\* The running operation ends here: what it wrote so far stays.  A write of
\* several rows may have stored only some of them.
Stopped ==
  /\ pc # "idle"
  /\ Return
  /\ interrupted' = (interrupted \/ op.maintain)
  /\ UNCHANGED <<nrows, gen, form, ext>>

PartialRows ==
  IF pc = "write" THEN \E rows \in SUBSET ((nrows + 1)..op.n) : WriteRows(rows)
                  ELSE UNCHANGED cell

Kill ==
  /\ "kill" \in Faults
  /\ Stopped /\ PartialRows
  /\ UNCHANGED indexVars

\* An exception in a builder deletes the dataset it created and puts the
\* link list back; any other operation just propagates it.
BuildRollback ==
  /\ status'  = [i \in Indexes |-> IF i = cur THEN "none"
                                   ELSE IF i \in todo THEN "linked" ELSE status[i]]
  /\ sg'      = [sg EXCEPT ![cur] = None]
  /\ sn'      = [sn EXCEPT ![cur] = None]
  /\ content' = [content EXCEPT ![cur] = Torn]

Raise ==
  /\ "raise" \in Faults
  /\ Stopped /\ PartialRows
  /\ IF op.kind = "build" /\ pc # "flush" THEN BuildRollback ELSE UNCHANGED indexVars

\* ensure_generation deletes a malformed token before it writes the repaired one.
RepairKilled ==
  /\ "kill" \in Faults
  /\ pc = "idle" /\ form = "malformed"
  /\ form' = "absent" /\ gen' = 0
  /\ UNCHANGED <<nrows, ext, cell, indexVars, localVars, interrupted>>

ForeignRebuild(i) ==
  /\ ForeignTool
  /\ pc = "idle" /\ i \in Foreign \cap Linked /\ form = "uint64"
  /\ content' = [content EXCEPT ![i] = Snapshot(i, nrows)]
  /\ sg' = [sg EXCEPT ![i] = gen]
  /\ sn' = [sn EXCEPT ![i] = nrows]
  /\ UNCHANGED <<status, tableVars, localVars, interrupted>>

\* A tool that does not know the token retypes it, or drops it.
ForeignRetype(g) ==
  /\ ForeignTool
  /\ pc = "idle" /\ form = "uint64"
  /\ \/ form' = "malformed" /\ gen' = g
     \/ form' = "absent" /\ gen' = 0
  /\ UNCHANGED <<nrows, ext, cell, indexVars, localVars, interrupted>>

-----------------------------------------------------------------------------
Requests(given, k) == [given -> [1..k -> Cell]]

CallAppend(g) ==
  \E given \in SUBSET Columns, k \in 1..(MaxRows - nrows), m \in BOOLEAN :
    /\ given = Columns \/ (Omission /\ given # {})
    /\ \E data \in Requests(given, k) : BeginAppend(given, k, data, m, g)

Begin ==
  \E g \in Gens \cup {None} :
    \/ CallAppend(g)
    \/ \E n \in 0..MaxRows, m \in BOOLEAN : BeginTruncate(n, m, g)
    \/ \E i \in Indexes : BeginBuild(i, g)
    \/ BeginRefresh(g)

Mutate ==
  \/ \E c \in Columns : extend_to(c)
  \/ WriteColumn \/ FlushColumns
  \/ \E g \in Gens \cup {None} : StartStep4(g)
  \/ \E i \in Indexes : MaintainGeneration(i)
  \/ MaintainNrows \/ MaintainTear \/ MaintainContent \/ FlushIndexes
  \/ BumpGeneration \/ CommitRows

Build ==
  \/ BuildCreate \/ BuildContent \/ BuildKind \/ BuildGeneration \/ BuildNrows
  \/ BuildUnlink \/ BuildLink

Refresh ==
  \/ \E i \in Indexes : RefreshSkip(i) \/ RefreshTear(i)
  \/ RefreshContent \/ RefreshGeneration \/ RefreshNrows \/ FinishRefresh

Step == Mutate \/ Build \/ Refresh \/ FlushFile

Fault == Kill \/ Raise \/ RepairKilled

OtherTool ==
  \/ \E i \in Foreign : ForeignRebuild(i)
  \/ \E g \in Gens : ForeignRetype(g)

\* The caller makes no call for now.
Idle == pc = "idle" /\ UNCHANGED vars

Next == Begin \/ Step \/ Fault \/ OtherTool \/ Idle

Spec == Init /\ [][Next]_vars

\* The steps of a running call follow one another; nobody has to make a call,
\* and nothing has to fail.
FairSpec == Spec /\ WF_vars(Step)

-----------------------------------------------------------------------------
(* Properties.                                                             *)

\* Every variable keeps its type.
TypeOK ==
  /\ nrows \in 0..MaxRows
  /\ gen \in Gens /\ form \in {"absent", "uint64", "malformed"}
  /\ ext \in [Columns -> 0..MaxRows]
  /\ cell \in [Columns -> [Row -> Cell]]
  /\ status \in [Indexes -> {"none", "bare", "kinded", "linked"}]
  /\ sg \in [Indexes -> Gens \cup {None}]
  /\ sn \in [Indexes -> 0..MaxRows \cup {None}]
  /\ content \in [Indexes -> Prefixes \cup {Torn}]
  /\ pc \in Phase /\ op \in Op
  /\ todo \in SUBSET (Columns \cup Indexes)
  /\ cur \in Columns \cup Indexes \cup {NoName}
  /\ interrupted \in BOOLEAN

\* An index that a query would act on describes exactly the committed rows,
\* at every point of every operation and after every failure (the promise
\* of the validity-token protocol, head of indexes.py).
IndexTruth == \A i \in Indexes : Believed(i) => content[i] = Snapshot(i, nrows)

\* NROWS never points beyond the extent of a column, whatever was interrupted
\* (append extends every column before it commits the row count).
RowsCovered == \A c \in Columns : nrows <= ext[c]

\* No step of any operation, failed ones included, changes a row that stays
\* committed (append writes n_old:n_new only, truncate writes no data).
CommittedStable ==
  [][\A c \in Columns, r \in Row :
       r <= nrows /\ r <= nrows' => cell'[c][r] = cell[c][r]]_vars

\* When refresh_indexes or a mutation with maintain_indexes=True reaches its
\* last flush, every linked index that can be rebuilt is in use again.
Restored ==
  pc = "flush" /\ (op.kind = "refresh" \/ op.maintain)
    => \A i \in Linked \ Foreign : Believed(i)

\* A mutation that maintains no index leaves no index in use: the bumped
\* GENERATION matches no token on file, those of foreign indexes included.
Disabled ==
  pc = "flush" /\ op.kind \in {"append", "truncate"} /\ ~op.maintain
    => \A i \in Indexes : ~Believed(i)

\* No token on file runs ahead of GENERATION by more than the one mutation
\* that may have died before publishing it.
TokensBounded ==
  form = "uint64" => \A i \in Indexes : sg[i] <= gen + 1

\* The columns an append was not given read as missing in the new rows
\* ("extended and left at its fill value", Table.append).
OmittedReadsFill ==
  pc = "rows" /\ op.kind = "append"
    => \A c \in Columns \ op.given, r \in (nrows + 1)..op.n : cell[c][r] = Fill

\* The columns have one extent when an append returns (the equal-extent
\* invariant its extension loop names).
EqualExtents ==
  pc = "flush" /\ op.kind = "append" => \A c, d \in Columns : ext[c] = ext[d]

\* A started call returns or dies; it never stalls between two steps.
OperationEnds == pc # "idle" ~> pc = "idle"
=============================================================================
