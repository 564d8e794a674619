------------------------------ MODULE ArrowTable ------------------------------
(***************************************************************************)
(* Table.from_arrow and Table.to_arrow: Arrow marks a missing value with a *)
(* null, H5Col with a value of the column's own datatype.  An Arrow table  *)
(* becomes column specifications (inferred, or the caller's), every fill   *)
(* is checked against the data, the table is created, and the batches are  *)
(* appended one by one.  What is exported can be imported again, any       *)
(* number of times, and a table may also begin with Table.from_arrays.     *)
(*                                                                         *)
(* An Arrow table has fields [name, type, metadata] and batches, a batch   *)
(* one chunk per field: [labels, cells], labels being the dictionary of a  *)
(* dictionary chunk, its cells codes.  A string is a sequence of           *)
(* characters, raw bytes a sequence of numbers, a list a sequence.  Lists  *)
(* may nest: a list type is a number of levels and the type of its leaves. *)
(***************************************************************************)
EXTENDS Integers, Sequences, FiniteSets, SequencesExt, FiniteSetsExt

CONSTANTS
  Sources,        \* a sequence of sets of [table, specs, by], specs <<the caller's>>
                  \* or NoSpecs, by "arrow" or "arrays"
  Domain,         \* the values of each primitive datatype; a float has NaN
  FloatFill,      \* the recommended fill of a float
  Nul, Wide,      \* two characters: one that pads strings, one of two bytes
  BadNames,       \* what cannot name an HDF5 link or attribute
  ReservedNames,  \* what H5Col reserves among column names
  ReservedKeys,   \* what H5Col reserves or writes itself among attribute names
  Null, NaN, NoFill, NoTable,
  FillSuggestions, \* fills tried for a suggestion
  MaxCopies       \* bound: exports of one table and its copies

ASSUME ArrowAssumption ==
  /\ MaxCopies \in Nat /\ FillSuggestions \in Nat \ {0}
  /\ \A d \in DOMAIN Domain : Domain[d] \ {NaN} \subseteq Int

VARIABLES
  source,     \* the Arrow table, or arrays, being written
  supplied,   \* <<the caller's specs>>, or NoSpecs
  pc,
  specs,      \* the specs it is created with
  file,       \* the H5Col table: per column its spec, its fill and its rows
  written,    \* batches appended
  why,        \* why it was refused: [reason, column, suggestion]
  taken,      \* the columns for which a suggested fill was taken
  copies,     \* how often the table was exported and imported again
  origin      \* history: what it began with, "specs" if a caller gave specs

vars == <<source, supplied, pc, specs, file, written, why, taken, copies, origin>>

NoSpecs == <<>>

Fine == [reason |-> "none", column |-> 0, suggestion |-> NoFill]

Init ==
  /\ \E i \in DOMAIN Sources : \E c \in Sources[i] :
       /\ source = c.table /\ supplied = c.specs /\ pc = c.by
       /\ origin = IF c.specs = NoSpecs THEN c.by ELSE "specs"
  /\ specs = <<>> /\ file = NoTable /\ written = 0 /\ why = Fine
  /\ taken = {} /\ copies = 0

-----------------------------------------------------------------------------
(* Arrow.                                                                  *)

Cells(chunk) ==
  [r \in DOMAIN chunk.cells |->
     IF chunk.labels = <<>> \/ chunk.cells[r] = Null THEN chunk.cells[r]
     ELSE chunk.labels[chunk.cells[r] + 1]]

\* A column over all its chunks.
column(t, i) == FlattenSeq([b \in DOMAIN t.batches |-> Cells(t.batches[b][i])])

nulls(cells) == Null \in Range(cells)

\* One level down a list column; a null row has no elements.
flatten(cells) ==
  FlattenSeq([r \in DOMAIN cells |-> IF cells[r] = Null THEN <<>> ELSE cells[r]])

\* So many levels down.
Level(cells, depth) ==
  LET level[k \in 0..depth] == IF k = 0 THEN cells ELSE flatten(level[k - 1])
  IN  level[depth]

\* The labels of a single chunk as they are, repeated ones too; those of several
\* chunks once each, in the order they are met.
unify_dictionaries(t, i) ==
  LET met == FlattenSeq([b \in DOMAIN t.batches |-> t.batches[b][i].labels])
  IN  IF Len(t.batches) <= 1 THEN met
      ELSE FlattenSeq([p \in DOMAIN met |->
                         IF \E q \in 1..(p - 1) : met[q] = met[p] THEN <<>> ELSE <<met[p]>>])

-----------------------------------------------------------------------------
(* Datatypes and fills.                                                    *)

is_float(dtype) == NaN \in Domain[dtype]
lowest(dtype)   == Min(Domain[dtype] \ {NaN})
highest(dtype)  == Max(Domain[dtype] \ {NaN})
unsigned(dtype) == ~is_float(dtype) /\ lowest(dtype) = 0

\* A cast to a narrower integer wraps.
astype(v, dtype) ==
  IF is_float(dtype) THEN v
  ELSE lowest(dtype) + ((v - lowest(dtype)) % (highest(dtype) - lowest(dtype) + 1))

\* "FILL", then a counting sequence.
opaque_fill_bytes(n) == [i \in 1..n |-> IF i <= 4 THEN <<70, 73, 76, 76>>[i] ELSE (i - 4) % 256]

recommended_fill(spec) ==
  CASE spec.kind = "string" -> <<>>
    [] spec.kind = "opaque" -> opaque_fill_bytes(spec.width)
    [] OTHER -> IF is_float(spec.dtype) THEN FloatFill
                ELSE IF unsigned(spec.dtype) THEN highest(spec.dtype)
                ELSE lowest(spec.dtype) + 1

default_categorical_fill(dtype) == IF unsigned(dtype) THEN highest(dtype) ELSE -1

\* The smallest signed datatype that counts so many labels.
choose_code_dtype(ncats) ==
  CHOOSE d \in DOMAIN Domain :
    /\ ~is_float(d) /\ ~unsigned(d) /\ ncats <= highest(d)
    /\ \A e \in DOMAIN Domain :
         ~is_float(e) /\ ~unsigned(e) /\ ncats <= highest(e) => highest(d) <= highest(e)

validate_fill_outside_range(fill, notes) ==
  LET bounds == DOMAIN notes \cap {"valid_min", "valid_max"}
  IN  \/ bounds = {} \/ fill = NaN
      \/ "valid_min" \in bounds /\ fill < notes["valid_min"]
      \/ "valid_max" \in bounds /\ fill > notes["valid_max"]

\* UTF-8 length, and what is left of a string in a padded field.
encoded_len(s) == Len(s) + Cardinality({i \in DOMAIN s : s[i] = Wide})
unpadded(s)    == SubSeq(s, 1, Max({0} \cup {i \in DOMAIN s : s[i] # Nul}))

-----------------------------------------------------------------------------
(* From an Arrow schema to specifications.                                 *)

is_valid_link_name(name) == name \notin BadNames
validate_column_name(name) == is_valid_link_name(name) /\ name \notin ReservedNames
validate_attribute_names(keys) == \A k \in keys : is_valid_link_name(k) /\ k \notin ReservedKeys

Common  == {"units", "units_vocabulary", "description"}
Scalar  == Common \cup {"valid_min", "valid_max"}
Bounds  == {"valid_min", "valid_max"}

\* A bound is text; only a number reads it back.
parse_bound(text, type) == type.kind = "number" /\ text \in Domain[type.dtype]

allowed(type) ==
  IF type.kind \in {"string", "number"} THEN Scalar
  ELSE IF type.kind = "dictionary" THEN Common \cup {"ordered"} ELSE Common

\* Whether a field's metadata are annotations of a column of its type.
annotations(field) ==
  LET notes == field.metadata.h5col
  IN  /\ DOMAIN notes \subseteq allowed(field.type)
      /\ \A k \in DOMAIN notes \cap Bounds : parse_bound(notes[k], field.type)
      /\ validate_attribute_names(field.metadata.other)

\* Mutant: characters are counted, not bytes.
max_utf8_chars(cells) == Max({1} \cup {Len(v) : v \in Range(cells) \ {Null}})

max_utf8_bytes(cells) == Max({1} \cup {encoded_len(v) : v \in Range(cells) \ {Null}})

\* Mutant: the smallest datatype, whatever Arrow's index type is.
code_dtype_smallest(index, ncats) == choose_code_dtype(ncats)

\* Arrow's signed index type is kept if it can count the labels.
code_dtype(index, ncats) ==
  IF ~unsigned(index) /\ ncats <= highest(index) THEN index ELSE choose_code_dtype(ncats)

LeafKinds == {"string", "number", "boolean", "opaque"}

importable(type) ==
  type.kind \in LeafKinds \cup {"dictionary"} \/ (type.kind = "list" /\ type.of.kind \in LeafKinds)

\* What the leaves of a list are; null strings have a MASK.
leaf_spec(type, cells) ==
  CASE type.kind = "string" -> [kind |-> "strings", nullable |-> nulls(cells)]
    [] type.kind = "number" -> [kind |-> "number", dtype |-> type.dtype, fill |-> NoFill]
    [] type.kind = "opaque" -> [kind |-> "opaque", width |-> type.width, fill |-> NoFill]
    [] OTHER -> [kind |-> "boolean", fill |-> NoFill]

\* The levels of a list; each has a MASK if it holds a null.
values_spec_from_type(type, cells) ==
  [nullable |-> [k \in 1..type.levels |-> nulls(Level(cells, k - 1))],
   leaf     |-> leaf_spec(type.of, Level(cells, type.levels))]

\* Metadata win over Arrow's flag, of which only TRUE is a statement.
with_ordered(notes, ordered) ==
  IF ~ordered \/ "ordered" \in DOMAIN notes THEN notes
  ELSE [k \in DOMAIN notes \cup {"ordered"} |-> IF k = "ordered" THEN TRUE ELSE notes[k]]

\* The spec for field i of t.
spec_from_field(t, i) ==
  LET field  == t.fields[i]
      type   == field.type
      cells  == column(t, i)
      notes  == field.metadata.h5col
      labels == unify_dictionaries(t, i)
      values == values_spec_from_type(type, cells)
  IN  CASE type.kind = "list" ->
             [name |-> field.name, notes |-> notes, attributes |-> field.metadata.other,
              kind |-> "list", nullable |-> values.nullable, leaf |-> values.leaf]
        [] type.kind = "dictionary" ->
             [name |-> field.name, notes |-> with_ordered(notes, type.ordered),
              attributes |-> field.metadata.other, kind |-> "categorical", fill |-> NoFill,
              labels |-> labels, dtype |-> code_dtype(type.index, Len(labels))]
        [] type.kind = "string" ->
             [name |-> field.name, notes |-> notes, attributes |-> field.metadata.other,
              kind |-> "string", fill |-> NoFill, width |-> max_utf8_bytes(cells)]
        [] type.kind = "opaque" ->
             [name |-> field.name, notes |-> notes, attributes |-> field.metadata.other,
              kind |-> "opaque", fill |-> NoFill, width |-> type.width]
        [] type.kind = "number" ->
             [name |-> field.name, notes |-> notes, attributes |-> field.metadata.other,
              kind |-> "number", fill |-> NoFill, dtype |-> type.dtype]
        [] OTHER ->
             [name |-> field.name, notes |-> notes, attributes |-> field.metadata.other,
              kind |-> "boolean", fill |-> NoFill]

-----------------------------------------------------------------------------
(* Fills against the data.                                                 *)

\* Whether Arrow can say the fill in the column's own type.
fill_scalar_fits(fill, type) ==
  CASE type.kind = "number" -> is_float(type.dtype) \/ fill \in Domain[type.dtype]
    [] type.kind = "opaque" -> Len(fill) = type.width
    [] OTHER -> type.kind = "string"

\* Compared as Arrow values, which have not been stored yet.
fill_occurs_in_data(cells, fill) == fill \in Range(cells)

\* Values at the limits of an integer type; the minimum is left alone.
fill_candidates(dtype) ==
  LET room == IF unsigned(dtype) THEN Cardinality(Domain[dtype]) ELSE Cardinality(Domain[dtype]) - 1
  IN  [k \in 1..Min({room, FillSuggestions}) |->
         IF unsigned(dtype) THEN highest(dtype) - k + 1 ELSE lowest(dtype) + k]

\* Mutant: the first candidate, free or not.
suggest_first(spec, cells, type) ==
  IF spec.kind # "number" \/ is_float(spec.dtype) THEN NoFill ELSE fill_candidates(spec.dtype)[1]

\* The first candidate that is free, or that Arrow cannot say.
suggest_fill(spec, cells, type) ==
  IF spec.kind # "number" \/ is_float(spec.dtype) THEN NoFill
  ELSE LET fills == fill_candidates(spec.dtype)
           stops == {k \in DOMAIN fills : \/ ~fill_scalar_fits(fills[k], type)
                                          \/ ~fill_occurs_in_data(cells, fills[k])}
       IN  IF stops = {} THEN NoFill ELSE fills[Min(stops)]

Outcome(reason, suggestion, fill) == [reason |-> reason, suggestion |-> suggestion, fill |-> fill]

\* The fill of a column or a list leaf with these values, or why there is none.
chosen_fill(spec, notes, cells, type) ==
  LET fill == IF spec.fill # NoFill THEN spec.fill ELSE recommended_fill(spec)
  IN  IF fill # NaN /\ ~fill_scalar_fits(fill, type) THEN Outcome("arrow", NoFill, fill)
      ELSE IF fill_occurs_in_data(cells, fill)
           THEN LET suggestion == suggest_fill(spec, cells, type)
                IN  Outcome(IF suggestion = NoFill \/ fill_scalar_fits(suggestion, type)
                            THEN "collision" ELSE "arrow", suggestion, fill)
      ELSE IF ~validate_fill_outside_range(fill, notes) THEN Outcome("range", NoFill, fill)
      ELSE Outcome("none", NoFill, fill)

fill_for(spec, cells, type) ==
  CASE spec.kind = "boolean" ->
         Outcome(IF nulls(cells) THEN "nulls" ELSE "none", NoFill, NoFill)
    [] spec.kind = "categorical" -> Outcome("none", NoFill, NoFill)
    [] OTHER -> chosen_fill(spec, spec.notes, cells, type)

\* A null string element is a bit of a MASK and needs no fill.
leaf_fill(leaf, cells, type) ==
  CASE leaf.kind = "strings" -> Outcome("none", NoFill, NoFill)
    [] leaf.kind = "boolean" -> Outcome(IF nulls(cells) THEN "nulls" ELSE "none", NoFill, NoFill)
    [] OTHER -> chosen_fill(leaf, <<>>, cells, type)

\* Down to the leaf.
apply_list_fills(spec, cells, type) ==
  leaf_fill(spec.leaf, Level(cells, Len(spec.nullable)), type.of)

with_leaf_fill(leaf, fill) ==
  IF leaf.kind = "strings" THEN leaf ELSE [leaf EXCEPT !.fill = fill]

with_fill(spec, fill) ==
  IF spec.kind = "list" THEN [spec EXCEPT !.leaf = with_leaf_fill(@, fill)]
  ELSE [spec EXCEPT !.fill = fill]

checked(spec, t, i) ==
  LET type == t.fields[i].type
  IN  IF spec.kind = "list" THEN apply_list_fills(spec, column(t, i), type)
      ELSE fill_for(spec, column(t, i), type)

names(t) == [i \in DOMAIN t.fields |-> t.fields[i].name]

\* Arrow unifies several dictionaries only into codes of the index type.
unifies(t, i) ==
  Len(t.batches) <= 1 \/ Len(unify_dictionaries(t, i)) <= highest(t.fields[i].type.index)

\* One spec for every field of a schema that can be imported.
specs_from_arrow(t) == [i \in DOMAIN t.fields |-> spec_from_field(t, i)]

importable_schema(t) ==
  /\ IsInjective(names(t))
  /\ \A i \in DOMAIN t.fields :
       /\ validate_column_name(t.fields[i].name)
       /\ importable(t.fields[i].type) /\ annotations(t.fields[i])
       /\ t.fields[i].type.kind = "dictionary" => unifies(t, i)

\* Specs that name exactly the fields, and their order.
names_fields(t, given) ==
  IsInjective(names(t)) /\ {s.name : s \in Range(given)} = Range(names(t))

in_field_order(t, given) ==
  [i \in DOMAIN t.fields |-> CHOOSE s \in Range(given) : s.name = t.fields[i].name]

\* The caller's list specs get the fills too: the copies share their value trees.
filled_in_place(given, ordered, outcomes, upto) ==
  [j \in DOMAIN given |->
     LET i == CHOOSE i \in DOMAIN ordered : ordered[i].name = given[j].name
     IN  IF given[j].kind = "list" /\ i < upto
         THEN with_fill(given[j], outcomes[i].fill) ELSE given[j]]

Given(t) == IF supplied = NoSpecs THEN specs_from_arrow(t) ELSE supplied[1]

\* from_arrow, first part: specs with checked fills, or a refusal.
prepared_specs ==
  /\ pc = "arrow"
  /\ IF (supplied = NoSpecs => importable_schema(source)) /\ names_fields(source, Given(source))
     THEN LET ordered  == in_field_order(source, Given(source))
              outcomes == [i \in DOMAIN ordered |-> checked(ordered[i], source, i)]
              bad      == {i \in DOMAIN ordered : outcomes[i].reason # "none"}
              upto     == Min(bad \cup {Len(ordered) + 1})
          IN  /\ supplied' = IF supplied = NoSpecs THEN NoSpecs
                             ELSE <<filled_in_place(supplied[1], ordered, outcomes, upto)>>
              /\ IF bad = {}
                 THEN /\ specs' = [i \in DOMAIN ordered |->
                                     with_fill(ordered[i], outcomes[i].fill)]
                      /\ pc' = "create" /\ UNCHANGED why
                 ELSE /\ pc' = "refused" /\ UNCHANGED specs
                      /\ why' = [reason |-> outcomes[upto].reason, column |-> upto,
                                 suggestion |-> outcomes[upto].suggestion]
     ELSE /\ pc' = "refused" /\ why' = [Fine EXCEPT !.reason = "schema"]
          /\ UNCHANGED <<supplied, specs>>
  /\ UNCHANGED <<source, file, written, taken, copies, origin>>

\* The error names a fill that would work; the caller takes it.
TakeSuggestion ==
  /\ pc = "refused" /\ why.reason = "collision" /\ why.suggestion # NoFill
  /\ why.column \notin taken
  /\ supplied' = <<[j \in DOMAIN Given(source) |->
                     LET spec == Given(source)[j]
                     IN  IF spec.name = names(source)[why.column]
                         THEN with_fill(spec, why.suggestion) ELSE spec]>>
  /\ pc' = "arrow" /\ taken' = taken \cup {why.column}
  /\ why' = Fine /\ origin' = "specs"
  /\ UNCHANGED <<source, specs, file, written, copies>>

\* from_arrays: a spec for each array.
infer_column_spec(t, i) ==
  LET field == t.fields[i]
      type  == field.type
  IN  CASE type.kind = "string" ->
             [name |-> field.name, notes |-> <<>>, attributes |-> {}, kind |-> "string",
              fill |-> NoFill, width |-> max_utf8_bytes(column(t, i))]
        [] type.kind = "opaque" ->
             [name |-> field.name, notes |-> <<>>, attributes |-> {}, kind |-> "opaque",
              fill |-> NoFill, width |-> type.width]
        [] type.kind = "number" ->
             [name |-> field.name, notes |-> <<>>, attributes |-> {}, kind |-> "number",
              fill |-> NoFill, dtype |-> type.dtype]
        [] OTHER ->
             [name |-> field.name, notes |-> <<>>, attributes |-> {}, kind |-> "boolean",
              fill |-> NoFill]

from_arrays ==
  /\ pc = "arrays"
  /\ specs' = [i \in DOMAIN source.fields |-> infer_column_spec(source, i)]
  /\ pc' = "create"
  /\ UNCHANGED <<source, supplied, file, written, why, taken, copies, origin>>

-----------------------------------------------------------------------------
(* Creating the table and writing the rows.                                *)

\* What a scalar or list column is created with.
fill_of(spec) ==
  IF spec.kind \in {"list", "boolean"} THEN NoFill
  ELSE IF spec.fill # NoFill THEN spec.fill
  ELSE IF spec.kind = "categorical" THEN default_categorical_fill(spec.dtype)
  ELSE recommended_fill(spec)

validate_column_spec(spec) ==
  /\ validate_attribute_names(spec.attributes)
  /\ validate_column_name(spec.name)
  /\ spec.kind = "categorical" =>
       /\ IsInjective(spec.labels)
       /\ Len(spec.labels) - 1 <= highest(spec.dtype)
       /\ fill_of(spec) \in Domain[spec.dtype]
       /\ fill_of(spec) \notin 0..(Len(spec.labels) - 1)
  /\ spec.kind = "boolean" => spec.fill = NoFill /\ Bounds \cap DOMAIN spec.notes = {}
  /\ spec.kind \in {"number", "categorical"} => validate_fill_outside_range(fill_of(spec), spec.notes)

create ==
  /\ pc = "create"
  /\ IF /\ \A i \in DOMAIN specs : validate_column_spec(specs[i])
        /\ IsInjective([i \in DOMAIN specs |-> specs[i].name])
     THEN /\ file' = [i \in DOMAIN specs |->
                        [spec |-> specs[i], fill |-> fill_of(specs[i]), rows |-> <<>>]]
          /\ pc' = "append" /\ UNCHANGED why
     ELSE /\ pc' = "refused" /\ why' = [Fine EXCEPT !.reason = "create"] /\ UNCHANGED file
  /\ UNCHANGED <<source, supplied, specs, written, taken, copies, origin>>

\* Mutant: the codes of a batch are read as codes of the unified labels.
append_codes(spec, chunk) ==
  [r \in DOMAIN chunk.cells |->
     LET v == IF chunk.cells[r] = Null /\ spec.kind \in {"number", "opaque"}
              THEN spec.fill ELSE chunk.cells[r]
     IN  CASE spec.kind = "categorical" /\ v # Null -> spec.labels[v + 1]
           [] spec.kind = "number" -> astype(v, spec.dtype)
           [] OTHER -> v]

\* One column of a batch in the form append takes: labels, text and lists with
\* their nulls, numbers and raw bytes with the fill in place of a null.
append_values(spec, chunk) ==
  LET cells == Cells(chunk)
  IN  IF spec.kind \notin {"number", "opaque"} THEN cells
      ELSE [r \in DOMAIN cells |->
              LET v == IF cells[r] = Null THEN spec.fill ELSE cells[r]
              IN  IF spec.kind = "number" THEN astype(v, spec.dtype) ELSE v]

\* Which elements a leaf takes, and what is stored of one.
encodable_leaf(leaf, e) ==
  CASE leaf.kind = "strings" -> e # Null \/ leaf.nullable
    [] leaf.kind = "boolean" -> e # Null
    [] leaf.kind = "number" -> e = Null \/ e \in Domain[leaf.dtype] \/ is_float(leaf.dtype)
    [] OTHER -> TRUE

encode_leaf(leaf, e) ==
  IF e = Null /\ leaf.kind \notin {"strings", "boolean"} THEN leaf.fill ELSE e

\* A null needs a MASK at its level.
encodable_element(spec, v) ==
  LET levels == Len(spec.nullable)
  IN  /\ \A k \in 1..levels : nulls(Level(<<v>>, k - 1)) => spec.nullable[k]
      /\ \A e \in Range(Level(<<v>>, levels)) : encodable_leaf(spec.leaf, e)

\* A list with the image of every leaf element; what lies above stays.
on_leaves(image, levels, v) ==
  LET at[k \in 0..levels] ==
        IF k = 0 THEN image
        ELSE [x \in Range(Level(<<v>>, levels - k)) |->
                IF x = Null THEN Null ELSE [j \in DOMAIN x |-> at[k - 1][x[j]]]]
  IN  at[levels][v]

encode_element(spec, v) ==
  LET levels == Len(spec.nullable)
  IN  on_leaves([e \in Range(Level(<<v>>, levels)) |-> encode_leaf(spec.leaf, e)], levels, v)

\* The labels are stored in padded fields too.
load_category_labels(spec) == [k \in DOMAIN spec.labels |-> unpadded(spec.labels[k])]

encodable(spec, v) ==
  CASE spec.kind = "categorical" -> v = Null \/ v \in Range(load_category_labels(spec))
    [] spec.kind = "string" -> v = Null \/ encoded_len(v) <= spec.width
    [] spec.kind = "list" -> encodable_element(spec, v)
    [] OTHER -> TRUE

\* Of two labels that read back alike the later one counts.
code_of(spec, v) == Max({k \in DOMAIN spec.labels : load_category_labels(spec)[k] = v}) - 1

encode(col, v) ==
  IF col.spec.kind = "list" THEN encode_element(col.spec, v)
  ELSE IF v = Null THEN col.fill
  ELSE IF col.spec.kind = "categorical" THEN code_of(col.spec, v)
  ELSE IF col.spec.kind = "string" THEN unpadded(v) ELSE v

\* Batch by batch; one whose values are refused writes nothing, and the batches
\* before it stay.  An empty one is left out.
append ==
  /\ pc = "append" /\ written < Len(source.batches)
  /\ LET values == [i \in DOMAIN file |->
                      append_values(file[i].spec, source.batches[written + 1][i])]
     IN  IF \A i \in DOMAIN file : \A r \in DOMAIN values[i] : encodable(file[i].spec, values[i][r])
         THEN /\ file' = [i \in DOMAIN file |->
                   [file[i] EXCEPT !.rows = @ \o [r \in DOMAIN values[i] |-> encode(file[i], values[i][r])]]]
              /\ written' = written + 1 /\ UNCHANGED pc
         ELSE /\ pc' = "failed" /\ UNCHANGED <<file, written>>
  /\ UNCHANGED <<source, supplied, specs, why, taken, copies, origin>>

\* An append fails or the process dies; a batch is in the table or not.
Interrupt ==
  /\ pc = "append" /\ written < Len(source.batches)
  /\ pc' = "interrupted"
  /\ UNCHANGED <<source, supplied, specs, file, written, why, taken, copies, origin>>

from_arrow_returns ==
  /\ pc = "append" /\ written = Len(source.batches)
  /\ pc' = "done"
  /\ UNCHANGED <<source, supplied, specs, file, written, why, taken, copies, origin>>

-----------------------------------------------------------------------------
(* To Arrow.                                                               *)

\* Also of a NaN fill: NaN is one value here.
is_missing(x, fill) == fill # NoFill /\ x = fill

leaf_array(leaf, e) ==
  IF leaf.kind \notin {"strings", "boolean"} /\ is_missing(e, leaf.fill) THEN Null ELSE e

values_array(spec, v) ==
  LET levels == Len(spec.nullable)
  IN  on_leaves([e \in Range(Level(<<v>>, levels)) |-> leaf_array(spec.leaf, e)], levels, v)

list_array(col) ==
  [labels |-> <<>>,
   cells  |-> [r \in DOMAIN col.rows |-> values_array(col.spec, col.rows[r])]]

\* Mutant: raw bytes are handed over without their mask.
column_array_unmasked(col) ==
  [labels |-> IF col.spec.kind = "categorical" THEN load_category_labels(col.spec) ELSE <<>>,
   cells  |-> [r \in DOMAIN col.rows |->
                 IF col.spec.kind # "opaque" /\ is_missing(col.rows[r], col.fill)
                 THEN Null ELSE col.rows[r]]]

\* Codes with their labels as they are read back, text without its padding, the rest as it is stored.
column_array(col) ==
  [labels |-> IF col.spec.kind = "categorical" THEN load_category_labels(col.spec) ELSE <<>>,
   cells  |-> [r \in DOMAIN col.rows |->
                 IF is_missing(col.rows[r], col.fill) THEN Null ELSE col.rows[r]]]

element_type(values) ==
  CASE values.kind \in {"string", "strings"} -> [kind |-> "string", large |-> TRUE]
    [] values.kind = "number" -> [kind |-> "number", dtype |-> values.dtype]
    [] values.kind = "opaque" -> [kind |-> "opaque", width |-> values.width]
    [] OTHER -> [kind |-> "boolean"]

arrow_type(spec) ==
  CASE spec.kind = "list" ->
         [kind |-> "list", large |-> TRUE, levels |-> Len(spec.nullable), of |-> element_type(spec.leaf)]
    [] spec.kind = "categorical" ->
         [kind |-> "dictionary", index |-> spec.dtype,
          ordered |-> "ordered" \in DOMAIN spec.notes /\ spec.notes["ordered"]]
    [] OTHER -> element_type(spec)

\* The annotations go along; a producer's own attributes do not.
column_metadata(col) == [h5col |-> col.spec.notes, other |-> {}]

table_arrow(f) ==
  [fields  |-> [i \in DOMAIN f |->
                  [name |-> f[i].spec.name, type |-> arrow_type(f[i].spec),
                   metadata |-> column_metadata(f[i])]],
   batches |-> <<[i \in DOMAIN f |->
                    IF f[i].spec.kind = "list" THEN list_array(f[i]) ELSE column_array(f[i])]>>]

\* The export, of a whole table or a part of one, is imported into another file.
to_arrow ==
  /\ pc \in {"done", "failed", "interrupted"} /\ copies < MaxCopies
  /\ source' = table_arrow(file) /\ supplied' = NoSpecs /\ pc' = "arrow"
  /\ specs' = <<>> /\ file' = NoTable /\ written' = 0 /\ taken' = {}
  /\ copies' = copies + 1
  /\ UNCHANGED <<why, origin>>

Stop == pc \in {"refused", "done", "failed", "interrupted"} /\ UNCHANGED vars

Next ==
  \/ prepared_specs \/ TakeSuggestion \/ from_arrays \/ create
  \/ append \/ Interrupt \/ from_arrow_returns \/ to_arrow \/ Stop

Spec == Init /\ [][Next]_vars

-----------------------------------------------------------------------------
(* Properties.                                                             *)

\* The rows of the batches appended so far, as they were imported.
Imported(i) ==
  FlattenSeq([b \in 1..written |-> Cells(source.batches[b][i])])

Exported(i) ==
  Cells(IF file[i].spec.kind = "list" THEN list_array(file[i]) ELSE column_array(file[i]))

Importing == file # NoTable /\ (origin # "arrays" \/ copies > 0)

\* A value the column's datatype holds: an integer in its range, a string that
\* does not end in a NUL.
Holds(spec, v) ==
  v # Null =>
    /\ spec.kind = "number" => v \in Domain[spec.dtype] \/ is_float(spec.dtype)
    /\ spec.kind = "string" => v = unpadded(v)

\* At every moment the table holds the rows of the whole batches written so far;
\* exported, a null is a null and every value its datatype holds is that value,
\* whatever fill stands for the nulls, however the dictionaries of the batches
\* differ, and at every level of a list (Table.from_arrow, Table.to_arrow).
ValuesKept ==
  Importing =>
    \A i \in DOMAIN file :
      /\ Len(Exported(i)) = Len(Imported(i))
      /\ \A r \in DOMAIN Imported(i) :
           Holds(file[i].spec, Imported(i)[r]) => Exported(i)[r] = Imported(i)[r]

\* No value that is present in the Arrow table reads as missing, whichever way
\* the specs arrived ("supplying specs cannot skip it", Table.from_arrow).
PresentStaysPresent ==
  Importing => \A i \in DOMAIN file : \A r \in DOMAIN Imported(i) :
    Exported(i)[r] = Null => Imported(i)[r] = Null

\* With inferred specs every refusal comes before the group is touched: widths,
\* labels and MASKs inferred from all batches fit each of them (specs_from_arrow).
\* One refusal comes too late: a label that ends in a NUL is read back without
\* it, and the batch with a value of that label is refused.
RefusedUntouched ==
  supplied = NoSpecs /\ pc \in {"refused", "failed"} /\ file # NoTable =>
    /\ pc = "failed"
    /\ \E i \in DOMAIN file :
         /\ file[i].spec.kind = "categorical"
         /\ \E v \in Range(Cells(source.batches[written + 1][i])) \ {Null} : v # unpadded(v)

\* What H5Col wrote with specs of its own can be exported and imported again;
\* only labels that were alike but for NULs at their end come back as one label
\* twice, which create refuses.
ImportsAgain ==
  copies > 0 /\ origin # "specs" /\ pc \in {"refused", "failed"} =>
    /\ pc = "refused" /\ why.reason = "create"
    /\ \E i \in DOMAIN source.fields : ~IsInjective(source.batches[1][i].labels)

\* Export, import and export again gives the same Arrow table: fields, types,
\* metadata and values.  Only codes of a type that is unsigned, or that has no
\* code above the labels, come back in another type.
FixedPoint ==
  pc = "done" /\ copies > 0 =>
    LET again == table_arrow(file)
    IN  /\ again.batches = source.batches
        /\ \A i \in DOMAIN file :
             \/ again.fields[i] = source.fields[i]
             \/ /\ source.fields[i].type.kind = "dictionary"
                /\ LET index == source.fields[i].type.index
                   IN  unsigned(index) \/ Len(source.batches[1][i].labels) > highest(index)
                /\ [again.fields[i] EXCEPT !.type.index = "other"] =
                     [source.fields[i] EXCEPT !.type.index = "other"]

\* Export, import and export again gives back an equal Arrow table "for every
\* column kind H5Col can store", as the guide to from_arrow says; the codes of
\* FixedPoint are the exception it does not name.
EqualAgain == pc = "done" /\ copies > 0 => table_arrow(file) = source

\* The fill value a refusal names is not refused for the data in its turn.
SuggestionHolds ==
  pc = "refused" /\ why.column \in taken => why.reason \notin {"collision", "arrow"}
=============================================================================
