------------------------- MODULE ArrowTableInvariant -------------------------
(***************************************************************************)
(* The inductive invariant of ArrowTable: what tables and specifications   *)
(* look like, how the specs of a table come from what is imported, and how *)
(* the rows in the file come from the rows of the batches.                 *)
(***************************************************************************)
EXTENDS ArrowTable

CONSTANTS
  Chars,      \* the characters of strings
  MaxLevels   \* bound: how deep lists nest

-----------------------------------------------------------------------------
(* Values, columns and tables.                                             *)

\* A float may also hold what an integer column holds.
Numbers(dtype) == IF is_float(dtype) THEN Int \cup {NaN} ELSE Domain[dtype]

Texts == Seq(Chars)
Bytes(width) == [1..width -> 0..255]

\* The values of a column without lists, or of the leaves of one.
Leaves(type) ==
  {Null} \cup (CASE type.kind = "number" -> Numbers(type.dtype)
                 [] type.kind = "boolean" -> {0, 1}
                 [] type.kind = "opaque" -> Bytes(type.width)
                 [] OTHER -> Texts)

\* The values of a list that is so deep.
Nested(leaves, depth) ==
  LET lists[k \in 0..depth] == IF k = 0 THEN leaves ELSE {Null} \cup Seq(lists[k - 1])
  IN  lists[depth]

Values(type) == IF type.kind = "list" THEN Nested(Leaves(type.of), type.levels) ELSE Leaves(type)

IsLeafType(type) ==
  /\ type.kind \in LeafKinds
  /\ type.kind = "number" => type.dtype \in DOMAIN Domain
  /\ type.kind = "opaque" => type.width \in Nat \ {0}

\* The types that can be imported at all.
IsType(type) ==
  \/ IsLeafType(type)
  \/ type.kind = "dictionary" /\ type.index \in DOMAIN Domain /\ ~is_float(type.index)
  \/ type.kind = "list" /\ type.levels \in 1..MaxLevels /\ IsLeafType(type.of)

IsChunk(type, chunk) ==
  IF type.kind = "dictionary"
  THEN /\ chunk.labels \in Seq(Texts)
       /\ chunk.cells \in Seq({Null} \cup 0..(Len(chunk.labels) - 1))
  ELSE chunk.labels = <<>> /\ chunk.cells \in Seq(Values(type))

\* A signed datatype counts so many labels.
Countable(n) ==
  \E d \in DOMAIN Domain : ~is_float(d) /\ ~unsigned(d) /\ n <= highest(d)

IsSeq(s) == Len(s) \in Nat /\ s = [i \in 1..Len(s) |-> s[i]]

\* A schema may hold what cannot be imported, with any chunks.
IsTable(t) ==
  /\ IsSeq(t.fields) /\ IsSeq(t.batches)
  /\ \A b \in DOMAIN t.batches : IsSeq(t.batches[b]) /\ Len(t.batches[b]) = Len(t.fields)
  /\ \A i \in DOMAIN t.fields :
       LET type == t.fields[i].type
       IN  importable(type) =>
             /\ IsType(type) /\ \A b \in DOMAIN t.batches : IsChunk(type, t.batches[b][i])
             /\ type.kind = "dictionary" => Countable(Len(unify_dictionaries(t, i)))

\* Arrays have no missing values.
IsArrays(t) ==
  \A i \in DOMAIN t.fields : IsLeafType(t.fields[i].type) /\ ~nulls(column(t, i))

-----------------------------------------------------------------------------
(* Specifications.                                                         *)

IsLeafSpec(leaf) ==
  /\ "kind" \in DOMAIN leaf /\ leaf.kind \in {"strings", "boolean", "number", "opaque"}
  /\ leaf.kind = "strings" => leaf.nullable \in BOOLEAN
  /\ leaf.kind # "strings" => "fill" \in DOMAIN leaf
  /\ leaf.kind = "number" =>
       "dtype" \in DOMAIN leaf /\ leaf.dtype \in DOMAIN Domain /\ leaf.fill \in {NoFill} \cup Numbers(leaf.dtype)
  /\ leaf.kind = "opaque" =>
       "width" \in DOMAIN leaf /\ leaf.width \in Nat \ {0} /\ leaf.fill \in {NoFill} \cup Bytes(leaf.width)

IsSpec(spec) ==
  /\ {"name", "notes", "attributes", "kind"} \subseteq DOMAIN spec
  /\ spec.kind \in LeafKinds \cup {"categorical", "list"}
  /\ spec.kind # "list" => "fill" \in DOMAIN spec
  /\ spec.kind = "number" =>
       "dtype" \in DOMAIN spec /\ spec.dtype \in DOMAIN Domain /\ spec.fill \in {NoFill} \cup Numbers(spec.dtype)
  /\ spec.kind = "string" =>
       "width" \in DOMAIN spec /\ spec.width \in Nat /\ spec.fill \in {NoFill} \cup Texts
  /\ spec.kind = "opaque" =>
       "width" \in DOMAIN spec /\ spec.width \in Nat \ {0} /\ spec.fill \in {NoFill} \cup Bytes(spec.width)
  /\ spec.kind = "categorical" =>
       /\ {"dtype", "labels"} \subseteq DOMAIN spec
       /\ spec.dtype \in DOMAIN Domain /\ ~is_float(spec.dtype) /\ spec.labels \in Seq(Texts)
       /\ Countable(Len(spec.labels))
  /\ spec.kind = "list" =>
       {"nullable", "leaf"} \subseteq DOMAIN spec /\ spec.nullable \in Seq(BOOLEAN) /\ IsLeafSpec(spec.leaf)

LeafFits(leaf, type) ==
  CASE leaf.kind = "strings" -> type.kind = "string"
    [] leaf.kind = "number" -> type.kind \in {"number", "boolean"}
    [] OTHER -> type.kind = leaf.kind

\* The columns a spec can be for.  A column of floats is not for integers.
Fits(spec, type) ==
  /\ IsType(type)
  /\ CASE spec.kind = "list" ->
            type.kind = "list" /\ Len(spec.nullable) = type.levels /\ LeafFits(spec.leaf, type.of)
       [] spec.kind = "categorical" -> type.kind \in {"dictionary", "string"}
       [] spec.kind = "number" ->
            \/ type.kind = "boolean"
            \/ type.kind = "number" /\ (is_float(type.dtype) => is_float(spec.dtype))
       [] OTHER -> type.kind = spec.kind

\* A caller's specs, each of another name; those of the columns are for them.
AreGiven(given, t) ==
  /\ IsSeq(given) /\ IsInjective([j \in DOMAIN given |-> given[j].name])
  /\ \A j \in DOMAIN given : IsSpec(given[j])
  /\ names_fields(t, given) =>
       \A j \in DOMAIN given, i \in DOMAIN t.fields :
         given[j].name = t.fields[i].name => Fits(given[j], t.fields[i].type)

LeafFilled(leaf) ==
  /\ leaf.kind \in {"number", "opaque"} => leaf.fill # NoFill
  /\ leaf.kind = "boolean" => leaf.fill = NoFill

Filled(spec) ==
  CASE spec.kind = "list" -> LeafFilled(spec.leaf)
    [] spec.kind \in {"number", "string", "opaque"} -> spec.fill # NoFill
    [] OTHER -> spec.fill = NoFill

\* A spec whose fill has been checked against the data.
Ready(spec, t, i) ==
  /\ IsSpec(spec) /\ spec.name = t.fields[i].name /\ Fits(spec, t.fields[i].type)
  /\ Filled(spec) /\ checked(spec, t, i).reason = "none"

\* What prepared_specs makes of field i without a caller's spec.
Inferred(t, i) ==
  LET spec == spec_from_field(t, i) IN with_fill(spec, checked(spec, t, i).fill)

\* The spec that is inferred for field i, with another fill.
FillIn(spec) ==
  IF spec.kind # "list" THEN spec.fill
  ELSE IF spec.leaf.kind = "strings" THEN NoFill ELSE spec.leaf.fill

FromField(spec, t, i) == spec = with_fill(spec_from_field(t, i), FillIn(spec))

-----------------------------------------------------------------------------
(* Exports.                                                                *)

\* The types that arrow_type writes.
Exportable(type, notes) ==
  CASE type.kind = "string" -> type = [kind |-> "string", large |-> TRUE]
    [] type.kind = "number" -> type = [kind |-> "number", dtype |-> type.dtype]
    [] type.kind = "opaque" -> type = [kind |-> "opaque", width |-> type.width]
    [] type.kind = "boolean" -> type = [kind |-> "boolean"]
    [] type.kind = "dictionary" ->
         type = [kind |-> "dictionary", index |-> type.index,
                 ordered |-> "ordered" \in DOMAIN notes /\ notes["ordered"]]
    [] OTHER -> type = [kind |-> "list", large |-> TRUE, levels |-> type.levels, of |-> type.of]

IsExport(t) ==
  /\ Len(t.batches) = 1
  /\ \A i \in DOMAIN t.fields :
       LET field == t.fields[i]
           chunk == t.batches[1][i]
       IN  /\ IsType(field.type)
           /\ field = [name |-> field.name, type |-> field.type, metadata |-> field.metadata]
           /\ field.metadata = [h5col |-> field.metadata.h5col, other |-> {}]
           /\ Exportable(field.type, field.metadata.h5col)
           /\ field.type.kind = "list" => Exportable(field.type.of, <<>>)
           /\ chunk = [labels |-> chunk.labels, cells |-> chunk.cells]
           /\ \A l \in Range(chunk.labels) : l = unpadded(l)
           /\ field.type.kind = "string" => \A v \in Range(chunk.cells) \ {Null} : v = unpadded(v)

\* A table whose inferred specs are refused nowhere, but for repeated labels.
Importable(t) ==
  /\ importable_schema(t)
  /\ \A i \in DOMAIN t.fields :
       /\ checked(spec_from_field(t, i), t, i).reason = "none"
       /\ validate_column_spec(Inferred(t, i)) \/ ~IsInjective(t.batches[1][i].labels)

-----------------------------------------------------------------------------
(* The invariant.                                                          *)

FromArrays == origin = "arrays" /\ copies = 0

SourceFits ==
  /\ copies \in Nat /\ IsTable(source)
  /\ origin \in {"arrow", "arrays", "specs"}
  /\ supplied # NoSpecs => origin = "specs" /\ supplied = <<supplied[1]>> /\ AreGiven(supplied[1], source)
  /\ FromArrays => IsArrays(source) /\ pc # "arrow"
  /\ pc = "arrays" => FromArrays
  /\ copies > 0 => IsExport(source)
  /\ copies > 0 /\ origin # "specs" => Importable(source)
  /\ copies > 0 /\ supplied # NoSpecs =>
       /\ importable_schema(source) /\ DOMAIN supplied[1] = DOMAIN source.fields
       /\ \A j \in DOMAIN supplied[1] : FromField(supplied[1][j], source, j)

Columns == DOMAIN source.fields

Opened == {"append", "done", "failed", "interrupted"}

SpecsFit ==
  pc \in {"create"} \cup Opened =>
    /\ IsSeq(specs) /\ DOMAIN specs = Columns
    /\ IF FromArrays THEN \A i \in Columns : specs[i] = infer_column_spec(source, i)
       ELSE /\ \A i \in Columns : Ready(specs[i], source, i)
            /\ supplied = NoSpecs =>
                 importable_schema(source) /\ \A i \in Columns : specs[i] = Inferred(source, i)
            /\ copies > 0 =>
                 importable_schema(source) /\ \A i \in Columns : FromField(specs[i], source, i)

\* What append_values makes of one value, and what is stored of it.
Taken(spec, v) ==
  LET x == IF v = Null /\ spec.kind \in {"number", "opaque"} THEN spec.fill ELSE v
  IN  IF spec.kind = "number" THEN astype(x, spec.dtype) ELSE x

Created(spec, rows) == [spec |-> spec, fill |-> fill_of(spec), rows |-> rows]

Stored(spec, v) == encode(Created(spec, <<>>), Taken(spec, v))

FileFits ==
  IF pc \in Opened
  THEN /\ written \in 0..Len(source.batches) /\ (pc = "done" => written = Len(source.batches))
       /\ \A i \in Columns : validate_column_spec(specs[i])
       /\ IsInjective([i \in Columns |-> specs[i].name])
       /\ file = [i \in Columns |->
                    Created(specs[i], [r \in DOMAIN Imported(i) |-> Stored(specs[i], Imported(i)[r])])]
       /\ \A i \in Columns : \A v \in Range(Imported(i)) : encodable(specs[i], Taken(specs[i], v))
  ELSE file = NoTable /\ written = 0

Refusals == {"collision", "arrow"}

\* With the suggested fill, or one that was taken, a spec is not refused for it.
SuggestionFits ==
  /\ pc = "refused" /\ why.reason = "collision" /\ why.suggestion # NoFill =>
       /\ supplied = NoSpecs => importable_schema(source)
       /\ names_fields(source, Given(source)) /\ why.column \in Columns
       /\ \A spec \in Range(Given(source)) : spec.name = names(source)[why.column] =>
            LET filled == with_fill(spec, why.suggestion)
            IN  IsSpec(filled) /\ checked(filled, source, why.column).reason \notin Refusals
  /\ \A c \in taken :
       /\ supplied # NoSpecs /\ names_fields(source, Given(source)) /\ c \in Columns
       /\ \A spec \in Range(Given(source)) :
            spec.name = names(source)[c] => checked(spec, source, c).reason \notin Refusals

ArrowInv ==
  /\ SourceFits /\ SpecsFit /\ FileFits /\ SuggestionFits
  /\ RefusedUntouched /\ ImportsAgain /\ SuggestionHolds

-----------------------------------------------------------------------------
(* What is assumed of the constants.                                       *)

ASSUME DatatypesAssumption ==
  \A d \in DOMAIN Domain :
    IF is_float(d) THEN FloatFill \in Int
    ELSE /\ lowest(d) \in Int /\ highest(d) \in Int /\ Domain[d] = lowest(d)..highest(d)
         /\ 0 \in Domain[d] /\ (lowest(d) = 0 \/ lowest(d) < -1)

Everything == Int \cup {NaN, Null} \cup Texts \cup Seq(0..255)

ASSUME ApartAssumption ==
  /\ NaN \notin Int /\ Null \notin Int \cup {NaN} /\ NoFill \notin Int \cup {NaN, Null}
  /\ {Null, NoFill, NaN} \cap Texts = {} /\ {Null, NoFill, NaN} \cap Seq(0..255) = {}
  /\ MaxLevels \in Nat /\ \A k \in 0..MaxLevels : Null \notin Seq(Nested(Everything, k))

ASSUME SourcesAssumption ==
  \A n \in DOMAIN Sources : \A c \in Sources[n] :
    /\ IsTable(c.table) /\ c.by \in {"arrow", "arrays"}
    /\ c.specs # NoSpecs => c.specs = <<c.specs[1]>> /\ c.by = "arrow" /\ AreGiven(c.specs[1], c.table)
    /\ c.by = "arrays" => IsArrays(c.table)
=============================================================================
