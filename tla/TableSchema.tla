------------------------------ MODULE TableSchema ------------------------------
(***************************************************************************)
(* The structure of a table group: which columns it has, in which order,   *)
(* and the objects behind them, through Table.create with its rollback,    *)
(* Table.add_column, append and truncate, any of which may fail or die     *)
(* between two HDF5 calls.  Values and indexes are TableStore's.           *)
(***************************************************************************)
EXTENDS Integers, Sequences, FiniteSets, Functions

CONSTANTS
  Names,      \* the column names callers use
  Kind,       \* of each: "scalar", "boolean", "categorical" or "list"
  Annotated,  \* the names whose specs carry producer attributes
  Layouts,    \* the sequences of columns Table.create is called with
  MaxRows,    \* bound: rows of the table
  Faults      \* {"raise", "kill"}: how a call may end early

ASSUME SchemaAssumption ==
  /\ Kind \in [Names -> {"scalar", "boolean", "categorical", "list"}]
  /\ Annotated \subseteq Names
  /\ Layouts \subseteq Seq(Names)
  /\ \A l \in Layouts : l # <<>> /\ IsInjective(l)
  /\ MaxRows \in Nat /\ Faults \subseteq {"raise", "kill"}
  /\ IsFiniteSet(Names) /\ "gone" \notin Names

VARIABLES
  attrs,    \* the attributes the group carries
  nrows,    \* NROWS
  order,    \* column-order, when it is among attrs
  index,    \* the references of INDEX_COLUMNS and the name in _index, ditto
  made,     \* the parts of each column that exist
  ext,      \* the extent of each column dataset
  catGroup, \* the CATEGORIES subgroup exists
  cats,     \* the columns whose categories dataset exists in it
  pc, call  \* where the running call is, and its arguments

file == <<attrs, nrows, order, index, made, ext, catGroup, cats>>
vars == <<file, pc, call>>

Marks == <<"CLASS", "VERSION", "NROWS">>

\* What a reference to a deleted column refers to.
Gone == "gone"

\* Mutant: the reference is written before the categories dataset exists.
PartsEarlyRef(c) ==
  CASE Kind[c] = "categorical" -> <<"object", "ref", "notes">>
    [] Kind[c] = "list" -> <<"object", "class", "members">>
    [] OTHER -> <<"object", "notes", "extra">>

\* What a column is made of, in the order it is made: the dataset or group, the
\* CATEGORIES subgroup, the categories dataset and the reference to it, the
\* members of a list level, H5Col's own annotations, the producer's attributes.
Parts(c) ==
  CASE Kind[c] = "categorical" -> <<"object", "subgroup", "labels", "ref", "notes">>
    [] Kind[c] = "list" -> <<"object", "class", "members">>
    [] OTHER -> <<"object", "notes", "extra">>

IsDataset(c) == Kind[c] # "list"

\* _discover_columns: a group counts once it has its CLASS.
Discovered == {c \in Names : (IF IsDataset(c) THEN "object" ELSE "class") \in made[c]}

Datasets == {c \in Discovered : IsDataset(c)}

\* column_names, of which only the set matters here.
column_names ==
  IF "column-order" \in attrs THEN Range(order) \intersect Discovered ELSE Discovered

\* The members of a set in some order.
Listing(S) == CHOOSE o \in [1..Cardinality(S) -> S] : Range(o) = S

\* columns: those still to be made; names: those create has completed, or the
\* column-order add_column is to write; written: the attributes create wrote;
\* grown: the parts made of the current column, or the columns append has
\* extended.  sound and listed are what the call found: a valid table (a clean
\* group for create), and its column_names.  stuck: the handler raised.
NoCall == [kind |-> "none", columns |-> <<>>, names |-> <<>>, index |-> <<>>, written |-> <<>>,
           n |-> 0, hadCategories |-> FALSE, grown |-> {}, sound |-> FALSE, listed |-> {},
           stuck |-> FALSE]

Init ==
  /\ attrs = {} /\ nrows = 0 /\ order = <<>> /\ index = [refs |-> <<>>, name |-> Gone]
  /\ made = [c \in Names |-> {}] /\ ext = [c \in Names |-> 0]
  /\ catGroup \in BOOLEAN /\ cats = {}
  /\ pc = "idle" /\ call = NoCall

-----------------------------------------------------------------------------
(* Table.validate, as far as it looks at columns.                          *)

\* INDEX_COLUMNS refers to columns among D, and _index names the first.
IndexNames(D) ==
  "INDEX_COLUMNS" \in attrs =>
    /\ Range(index.refs) \subseteq D
    /\ "_index" \in attrs /\ index.refs # <<>> => index.name = Head(index.refs)

Valid ==
  /\ Range(Marks) \subseteq attrs
  /\ \A c, d \in Datasets : ext[c] = ext[d]
  /\ \A c \in Datasets : ext[c] >= nrows
  /\ "column-order" \in attrs => Range(order) = Discovered /\ IsInjective(order)
  /\ \A c \in Discovered \ Datasets : "members" \in made[c]
  /\ IndexNames(Datasets)
  /\ \A c \in Datasets : "ref" \in made[c] => catGroup /\ c \in cats
  /\ catGroup => \A c \in cats : "ref" \in made[c]

\* A group Table.create finds as its callers make it: nothing of a table yet.
Clean == attrs = {} /\ made = [c \in Names |-> {}] /\ cats = {}

-----------------------------------------------------------------------------
(* The calls.                                                              *)

Goto(p) == pc' = p /\ UNCHANGED call

Leave(outcome) == pc' = outcome /\ UNCHANGED call

\* The specification passed the checks that come before the first write.
BeginCreate ==
  /\ pc = "idle" /\ "CLASS" \notin attrs
  /\ \E layout \in Layouts, i \in SUBSET Names :
       /\ i \subseteq {c \in Range(layout) : IsDataset(c)} /\ Cardinality(i) <= 1
       /\ call' = [NoCall EXCEPT !.kind = "create", !.columns = layout,
                                 !.index = Listing(i),
                                 !.hadCategories = catGroup, !.sound = Clean]
  /\ pc' = "mark" /\ UNCHANGED file

\* An attribute is written, over what it held, and noted in create's list.
WriteAttr(a) ==
  /\ attrs' = attrs \union {a}
  /\ call' = [call EXCEPT !.written = Append(@, a)]

Mark ==
  /\ pc = "mark"
  /\ LET a == Marks[Len(call.written) + 1]
     IN  /\ WriteAttr(a)
         /\ nrows' = IF a = "NROWS" THEN 0 ELSE nrows
         /\ pc' = IF a = "NROWS" THEN "columns" ELSE "mark"
  /\ UNCHANGED <<order, index, made, ext, catGroup, cats>>

\* The column being created, and the part it gets next: the first it lacks.
Current == Head(call.columns)
Due(c) == {Parts(c)[i] : i \in {i \in DOMAIN Parts(c) :
             Parts(c)[i] \notin call.grown /\ \A j \in 1..(i - 1) : Parts(c)[j] \in call.grown}}

\* HDF5 refuses to create an object whose name is taken.
Taken(part) ==
  \/ part = "object" /\ "object" \in made[Current]
  \/ part = "labels" /\ Current \in cats

MakePart ==
  /\ pc = "columns" /\ call.columns # <<>>
  /\ \E part \in Due(Current) :
       /\ ~Taken(part)
       /\ made' = [made EXCEPT ![Current] =
                     IF part \in {"subgroup", "labels"}
                        \/ (part = "extra" /\ Current \notin Annotated)
                     THEN @ ELSE @ \union {part}]
       /\ catGroup' = (catGroup \/ part = "subgroup")
       /\ cats' = IF part = "labels" THEN cats \union {Current} ELSE cats
       /\ ext' = IF part = "object" THEN [ext EXCEPT ![Current] = 0] ELSE ext
       /\ call' = [call EXCEPT !.grown = @ \union {part}]
  /\ UNCHANGED <<attrs, nrows, order, index, pc>>

\* _create_one_column returns; create notes the name in its list.
ColumnMade ==
  /\ pc = "columns" /\ call.columns # <<>> /\ Due(Current) = {}
  /\ IF call.kind = "create"
       THEN call' = [call EXCEPT !.columns = Tail(@), !.names = Append(@, Current),
                                 !.grown = {}]
            /\ pc' = IF Len(call.columns) = 1 THEN "order" ELSE "columns"
       ELSE call' = [call EXCEPT !.grown = {}] /\ pc' = "grow"
  /\ UNCHANGED file

WriteOrder ==
  /\ pc = "order" /\ call.kind = "create"
  /\ order' = call.names /\ WriteAttr("column-order")
  /\ pc' = IF call.index = <<>> THEN "return" ELSE "index"
  /\ UNCHANGED <<nrows, index, made, ext, catGroup, cats>>

WriteIndexColumns ==
  /\ pc = "index"
  /\ index' = [index EXCEPT !.refs = call.index] /\ WriteAttr("INDEX_COLUMNS")
  /\ pc' = "index_name"
  /\ UNCHANGED <<nrows, order, made, ext, catGroup, cats>>

WriteIndexName ==
  /\ pc = "index_name"
  /\ index' = [index EXCEPT !.name = Head(call.index)] /\ WriteAttr("_index")
  /\ pc' = "return"
  /\ UNCHANGED <<nrows, order, made, ext, catGroup, cats>>

\* The handler of create deletes, one after another, the columns the call
\* completed, in the order it made them,
RollbackColumn ==
  /\ pc = "rollback" /\ call.names # <<>>
  /\ made' = [made EXCEPT ![Head(call.names)] = {}]
  /\ index' = [index EXCEPT !.refs =
                 [k \in DOMAIN @ |-> IF @[k] = Head(call.names) THEN Gone ELSE @[k]]]
  /\ call' = [call EXCEPT !.names = Tail(@)]
  /\ UNCHANGED <<attrs, nrows, order, ext, catGroup, cats, pc>>

\* Mutant: the attributes written after the columns are forgotten.
RollbackAttrSome ==
  /\ pc = "rollback" /\ call.names = <<>> /\ call.written # <<>>
  /\ attrs' = attrs \ ({Head(call.written)} \intersect Range(Marks))
  /\ call' = [call EXCEPT !.written = Tail(@)]
  /\ UNCHANGED <<nrows, order, index, made, ext, catGroup, cats, pc>>

\* then the attributes it wrote, CLASS first,
RollbackAttr ==
  /\ pc = "rollback" /\ call.names = <<>> /\ call.written # <<>>
  /\ attrs' = attrs \ {Head(call.written)}
  /\ call' = [call EXCEPT !.written = Tail(@)]
  /\ UNCHANGED <<nrows, order, index, made, ext, catGroup, cats, pc>>

\* and the CATEGORIES subgroup if the call brought it in.
RollbackCategories ==
  /\ pc = "rollback" /\ call.names = <<>> /\ call.written = <<>>
  /\ catGroup' = (catGroup /\ call.hadCategories)
  /\ cats' = IF call.hadCategories THEN cats ELSE {}
  /\ Leave("raised")
  /\ UNCHANGED <<attrs, nrows, order, index, made, ext>>

\* Table.open wants the table's class and version; whoever reads NROWS wants it.
Opens == {"CLASS", "VERSION"} \subseteq attrs

\* Columns that cannot represent the rows a table already has are refused.
BeginAddColumn(c) ==
  /\ pc = "idle" /\ Opens
  /\ c \notin Discovered
  /\ Kind[c] \in {"boolean", "list"} => "NROWS" \in attrs /\ nrows = 0
  /\ call' = [NoCall EXCEPT !.kind = "add", !.columns = <<c>>, !.sound = Valid,
                            !.listed = column_names]
  /\ pc' = "columns" /\ UNCHANGED file

\* The extent of any of the datasets there were before; NROWS if there was none.
GrowAdded ==
  /\ pc = "grow" /\ call.kind = "add" /\ (IsDataset(Current) => "NROWS" \in attrs)
  /\ LET others == Datasets \ {Current}
         extents == IF others = {} THEN {nrows} ELSE {ext[d] : d \in others}
     IN  IF IsDataset(Current)
           THEN \E e \in extents :
                  ext' = [ext EXCEPT ![Current] = IF @ < e THEN e ELSE @]
           ELSE UNCHANGED ext
  /\ Goto("drop_order")
  /\ UNCHANGED <<attrs, nrows, order, index, made, catGroup, cats>>

\* Mutant: without a column-order the new name is the only one.
DropOrderForget ==
  /\ pc = "drop_order"
  /\ call' = [call EXCEPT !.names = IF "column-order" \in attrs THEN order ELSE <<>>]
  /\ attrs' = attrs \ {"column-order"} /\ pc' = "append_order"
  /\ UNCHANGED <<nrows, order, index, made, ext, catGroup, cats>>

\* column-order is read, deleted and written again with the new name; without
\* one, the names found before the column was created stand in for it.
DropOrder ==
  /\ pc = "drop_order"
  /\ call' = [call EXCEPT !.names =
                IF "column-order" \in attrs /\ order # <<>> THEN order
                ELSE Listing(Discovered \ {Current})]
  /\ attrs' = attrs \ {"column-order"} /\ pc' = "append_order"
  /\ UNCHANGED <<nrows, order, index, made, ext, catGroup, cats>>

AppendOrder ==
  /\ pc = "append_order"
  /\ order' = Append(call.names, Current) /\ attrs' = attrs \union {"column-order"}
  /\ Leave("return")
  /\ UNCHANGED <<nrows, index, made, ext, catGroup, cats>>

BeginAppend(k) ==
  /\ pc = "idle" /\ Opens /\ "NROWS" \in attrs
  /\ Discovered # {} /\ nrows + k <= MaxRows
  /\ call' = [NoCall EXCEPT !.kind = "append", !.n = nrows + k, !.sound = Valid]
  /\ pc' = "grow" /\ UNCHANGED file

GrowColumn(c) ==
  /\ pc = "grow" /\ call.kind = "append"
  /\ c \in Datasets \ call.grown
  /\ ext' = [ext EXCEPT ![c] = IF @ < call.n THEN call.n ELSE @]
  /\ call' = [call EXCEPT !.grown = @ \union {c}]
  /\ UNCHANGED <<attrs, nrows, order, index, made, catGroup, cats, pc>>

\* Every list column is there to be written, then NROWS is committed.
CommitAppend ==
  /\ pc = "grow" /\ call.kind = "append" /\ call.grown = Datasets
  /\ \A c \in Discovered \ Datasets : "members" \in made[c]
  /\ nrows' = call.n /\ Leave("return")
  /\ UNCHANGED <<attrs, order, index, made, ext, catGroup, cats>>

Truncate(n) ==
  /\ pc = "idle" /\ Opens /\ "NROWS" \in attrs
  /\ n < nrows /\ nrows' = n
  /\ pc' = "return" /\ call' = [NoCall EXCEPT !.kind = "truncate", !.sound = Valid]
  /\ UNCHANGED <<attrs, order, index, made, ext, catGroup, cats>>

Working == pc \notin {"idle", "return", "raised"}

\* What fails without any fault: a name that is taken, NROWS read where there
\* is none, a list without members.
Refused ==
  \/ pc = "columns" /\ call.columns # <<>> /\ \E part \in Due(Current) : Taken(part)
  \/ pc = "grow" /\ call.kind = "add" /\ IsDataset(Current) /\ "NROWS" \notin attrs
  \/ pc = "grow" /\ call.kind = "append" /\ call.grown = Datasets
     /\ \E c \in Discovered \ Datasets : "members" \notin made[c]

\* An exception: create catches it, the other calls let it pass.  One that a
\* deletion of create's handler raises ends the handler where it is.
Raise ==
  /\ Working
  /\ "raise" \in Faults \/ Refused
  /\ pc' = IF call.kind = "create" /\ pc # "rollback" THEN "rollback" ELSE "raised"
  /\ call' = [call EXCEPT !.stuck = (pc = "rollback")]
  /\ UNCHANGED file

Kill == Working /\ "kill" \in Faults /\ pc' = "idle" /\ call' = NoCall /\ UNCHANGED file

Return == pc \in {"return", "raised"} /\ pc' = "idle" /\ call' = NoCall /\ UNCHANGED file

Idle == pc = "idle" /\ UNCHANGED vars

Next ==
  \/ BeginCreate \/ Mark \/ MakePart \/ ColumnMade
  \/ WriteOrder \/ WriteIndexColumns \/ WriteIndexName
  \/ RollbackColumn \/ RollbackAttr \/ RollbackCategories
  \/ \E c \in Names : BeginAddColumn(c) \/ GrowColumn(c)
  \/ GrowAdded \/ DropOrder \/ AppendOrder
  \/ \E k \in 1..MaxRows : BeginAppend(k)
  \/ \E n \in 0..MaxRows : Truncate(n)
  \/ CommitAppend \/ Raise \/ Kill \/ Return \/ Idle

Spec == Init /\ [][Next]_vars

-----------------------------------------------------------------------------
(* Properties.                                                             *)

\* A call that returns leaves a table that Table.validate accepts, if it found
\* one, or, for create, a group with nothing of a table in it; whatever failed
\* or died before, and was healed or not.
ReturnsValid == pc = "return" /\ call.sound => Valid

\* After a create that raised, with every deletion of its handler done, whoever
\* opens the group finds no table ("a partially built table is never left
\* behind", Table.create), whatever earlier calls left in it.  A group it found
\* clean can be used again but for the column the call failed in: no attribute
\* stays, no other column, and no categories the call brought in.
NoTableLeft ==
  pc = "raised" /\ call.kind = "create" /\ ~call.stuck =>
    /\ "CLASS" \notin attrs
    /\ call.sound =>
         /\ attrs = {} /\ catGroup = call.hadCategories
         /\ ~call.hadCategories => cats = {}
         /\ \A c \in Names : made[c] # {} => call.columns # <<>> /\ c = Current

\* add_column never takes a name out of column_names, not even between its
\* deletion and rewriting of column-order, and not when that happens on a table
\* whose column-order an earlier call deleted before it died.
NamesKept == call.kind = "add" => call.listed \subseteq column_names

\* "rolling everything back on failure": after a create that raised, the
\* columns it asked for are not there.
RolledBack ==
  pc = "raised" /\ call.kind = "create" /\ call.sound => Clean /\ catGroup = call.hadCategories

\* "Extra HDF5 attributes to write on the column": a column whose creation
\* returned carries them.
AttributesWritten ==
  pc = "return" /\ call.kind = "create" /\ call.sound =>
    \A c \in Range(call.names) \intersect Annotated : "extra" \in made[c]
=============================================================================
