----------------------------- MODULE MCArrowTable -----------------------------
(* Small instances of ArrowTable for TLC.                                  *)
EXTENDS ArrowTableInvariant

CONSTANTS a, w, nul

Datatypes ==
  [u2 |-> 0..3, u3 |-> 0..7, i2 |-> -2..1, i3 |-> -4..3, i4 |-> -8..7, f |-> {0, 1, 7, NaN}]

Characters == {a, w, nul}

Plain == [h5col |-> <<>>, other |-> {}]
Notes(h5col) == [h5col |-> h5col, other |-> {}]
Field(name, type, metadata) == [name |-> name, type |-> type, metadata |-> metadata]
Chunk(cells) == [labels |-> <<>>, cells |-> cells]

Number(d) == [kind |-> "number", dtype |-> d]
Text      == [kind |-> "string", large |-> FALSE]
Truth     == [kind |-> "boolean"]
Raw(n)    == [kind |-> "opaque", width |-> n]
ListOf(t) == [kind |-> "list", large |-> FALSE, levels |-> 1, of |-> t]
ListsOf(t) == [kind |-> "list", large |-> FALSE, levels |-> 2, of |-> t]
Coded(d, ordered) == [kind |-> "dictionary", index |-> d, ordered |-> ordered]

\* Tables of one column, of one or two batches, the second perhaps empty.
OneColumn(type, metadata, cells) ==
  {[fields  |-> <<Field("v", type, metadata)>>,
    batches |-> <<<<Chunk(first)>>, <<Chunk(second)>>>>] :
     first \in BoundedSeq(cells, 2), second \in {<<>>} \cup {<<c>> : c \in cells}}

Imports(tables, given) == [table : tables, specs : given, by : {"arrow"}]
Arrays(tables) == [table : tables, specs : {NoSpecs}, by : {"arrays"}]

NumberSpec(d, fill, notes) ==
  <<<<[name |-> "v", kind |-> "number", dtype |-> d, fill |-> fill, notes |-> notes, attributes |-> {}]>>>>
TextSpec(width, fill) ==
  <<<<[name |-> "v", kind |-> "string", width |-> width, fill |-> fill, notes |-> <<>>, attributes |-> {}]>>>>
CodeSpec(d, labels, fill, notes) ==
  <<<<[name |-> "v", kind |-> "categorical", dtype |-> d, labels |-> labels, fill |-> fill,
     notes |-> notes, attributes |-> {}]>>>>
ListSpec(leaf, nullable) ==
  <<<<[name |-> "v", kind |-> "list", leaf |-> leaf, nullable |-> <<nullable>>, notes |-> <<>>, attributes |-> {}]>>>>

Range12 == [valid_min |-> 1, valid_max |-> 2]

NumberCases ==
  <<Imports(OneColumn(Number("u2"), Plain, {0, 2, 3, Null}),
            {NoSpecs, NumberSpec("u2", 1, <<>>), NumberSpec("u3", NoFill, <<>>),
             NumberSpec("u3", 1, <<>>), NumberSpec("u2", 2, Range12)}),
    Imports(OneColumn(Number("u2"), Notes(Range12), {1, 3, Null}), {NoSpecs}),
    Imports(OneColumn(Number("i3"), Plain, {-3, -2, 0, Null}),
            {NoSpecs, NumberSpec("i2", NoFill, <<>>), NumberSpec("u2", NoFill, <<>>)}),
    Imports(OneColumn(Number("f"), Plain, {0, 7, NaN, Null}), {NoSpecs, NumberSpec("f", NaN, <<>>)}),
    Arrays(OneColumn(Number("u2"), Plain, {0, 3})),
    Arrays(OneColumn(Number("f"), Plain, {0, 7, NaN}))>>

TextCases ==
  LET some == {<<>>, <<a>>, <<w>>, <<a, nul>>, <<nul>>, Null}
  IN  <<Imports(OneColumn(Text, Plain, some),
                {NoSpecs, TextSpec(1, NoFill), TextSpec(3, <<a>>)}),
        Arrays(OneColumn(Text, Plain, some \ {Null}))>>

FlagCases ==
  <<Imports(OneColumn(Truth, Plain, {0, 1, Null}), {NoSpecs, NumberSpec("u2", NoFill, <<>>)}),
    Arrays(OneColumn(Truth, Plain, {0, 1})),
    Imports(OneColumn(Raw(5), Plain, {opaque_fill_bytes(5), <<0, 0, 0, 0, 0>>, Null}), {NoSpecs}),
    Arrays(OneColumn(Raw(5), Plain, {opaque_fill_bytes(5), <<0, 0, 0, 0, 0>>}))>>

x == <<a>>
y == <<w>>
z == <<a, a>>
aw == <<a, w>>
xn == <<a, nul>>

\* Every batch has its own dictionary.
Dictionaries(type, metadata) ==
  {[fields  |-> <<Field("v", type, metadata)>>,
    batches |-> <<<<[labels |-> first, cells |-> <<0, Null>>]>>, <<[labels |-> second, cells |-> cells]>>>>] :
     first \in {<<x>>, <<x, y>>}, second \in {<<x, y>>, <<y, x>>, <<xn, x>>},
     cells \in BoundedSeq({0, 1, Null}, 2)}

\* One batch, whose dictionary is taken as it is: labels repeated, or alike but
\* for a NUL at the end.
OneDictionary(type, metadata) ==
  UNION {{[fields  |-> <<Field("v", type, metadata)>>,
           batches |-> <<<<[labels |-> labels, cells |-> cells]>>>>] :
            cells \in BoundedSeq({Null} \cup 0..(Len(labels) - 1), 2)} :
         labels \in {<<>>, <<xn>>, <<x, x>>, <<x, xn>>, <<xn, x>>, <<xn, y>>}}

CodeCases ==
  <<Imports(Dictionaries(Coded("i4", TRUE), Plain) \cup Dictionaries(Coded("i2", FALSE), Plain)
              \cup Dictionaries(Coded("i3", TRUE), Notes([ordered |-> FALSE])), {NoSpecs}),
    Imports(Dictionaries(Coded("i4", FALSE), Plain),
            {CodeSpec("i2", <<x, y>>, NoFill, <<>>),
             CodeSpec("i4", <<y, x>>, -5, [ordered |-> FALSE]),
             CodeSpec("u2", <<x, y>>, NoFill, [ordered |-> TRUE]),
             CodeSpec("i2", <<x>>, NoFill, <<>>),
             CodeSpec("i2", <<x, y, z>>, NoFill, <<>>),
             CodeSpec("u2", <<x, y, z, aw>>, NoFill, <<>>)}),
    Imports(OneDictionary(Coded("i3", TRUE), Plain) \cup OneDictionary(Coded("i2", FALSE), Plain),
            {NoSpecs, CodeSpec("i4", <<x, y, xn>>, NoFill, <<>>), CodeSpec("i4", <<xn>>, NoFill, <<>>)})>>

ListCases ==
  <<Imports(OneColumn(ListOf(Number("u2")), Plain, {<<>>, <<0, 2>>, <<Null>>, <<3>>, Null}),
            {NoSpecs, ListSpec([kind |-> "number", dtype |-> "u2", fill |-> NoFill], FALSE)}),
    Imports(OneColumn(ListOf(Text), Plain, {<<>>, <<<<>>, <<nul>>>>, <<Null>>, Null}), {NoSpecs}),
    Imports(OneColumn(ListsOf(Truth), Plain, {<<>>, <<<<0, 1>>, Null>>, <<<<Null>>>>, Null}),
            {NoSpecs}),
    Imports(OneColumn(ListsOf(Number("i2")), Plain, {<<<<0>>, <<>>>>, <<<<-1>>>>, Null}), {NoSpecs})>>

\* Two columns, and everything a schema may be refused for.
Pairs ==
  {[fields |-> <<Field(n, t, m), Field(p, Number("u2"), Plain)>>,
    batches |-> <<<<Chunk(<<1>>), Chunk(<<c>>)>>>>] :
     n \in {"v", "a/b", "NROWS"}, p \in {"v", "q"}, c \in {2, 3, Null},
     t \in {Number("u2"), Text, [kind |-> "timestamp"]},
     m \in {Plain, Notes([units |-> "m"]), Notes([valid_min |-> 9]), Notes([valid_max |-> 2]),
            Notes([strange |-> 1]), [h5col |-> <<>>, other |-> {"CLASS"}], [h5col |-> <<>>, other |-> {"source"}]}}

SchemaCases ==
  <<Imports({t \in Pairs : t.fields[1].type.kind # "string"}, {NoSpecs, NumberSpec("u2", NoFill, <<>>)})>>

AllSources == NumberCases \o TextCases \o FlagCases \o CodeCases \o ListCases \o SchemaCases

\* An integer column stored in fewer bits than it has.
NarrowSources ==
  <<Imports({[fields |-> <<Field("v", Number("i3"), Plain)>>, batches |-> <<<<Chunk(<<0, -1>>)>>>>]},
            {NumberSpec("u2", NoFill, <<>>)})>>
=============================================================================
