------------------------ MODULE TableSchemaInvariant ------------------------
(***************************************************************************)
(* The inductive invariant of TableSchema: why its properties hold.  Each  *)
(* conjunct says what a running call may rely on at the step it is at, and *)
(* how far the table it found is already what it will leave behind.        *)
(***************************************************************************)
EXTENDS TableSchema

Attributes == {"CLASS", "VERSION", "NROWS", "column-order", "INDEX_COLUMNS", "_index"}
PartNames  == {"object", "subgroup", "labels", "ref", "notes", "class", "members", "extra"}
Creating   == {"mark", "columns", "order", "index", "index_name"}

Calls == [kind : {"none", "create", "add", "append", "truncate"},
          columns : Seq(Names), names : Seq(Names), index : Seq(Names),
          written : Seq(Attributes), n : Nat,
          hadCategories : BOOLEAN, grown : SUBSET (PartNames \cup Names),
          sound : BOOLEAN, listed : SUBSET Names, stuck : BOOLEAN]

TypeOK ==
  /\ attrs \in SUBSET Attributes /\ nrows \in Nat
  /\ order \in Seq(Names)
  /\ index \in [refs : Seq(Names \cup {Gone}), name : Names \cup {Gone}]
  /\ made \in [Names -> SUBSET PartNames] /\ ext \in [Names -> Nat]
  /\ catGroup \in BOOLEAN /\ cats \in SUBSET Names
  /\ pc \in Creating \cup
       {"idle", "grow", "drop_order", "append_order", "return", "rollback", "raised"}
  /\ call \in Calls

\* Which call is at which step, and the columns it has in hand.
CallFits ==
  /\ pc = "idle" => call.kind = "none"
  /\ pc \in (Creating \ {"columns"}) \cup {"rollback"} => call.kind = "create"
  /\ pc = "columns" => call.kind \in {"create", "add"}
  /\ pc \in {"drop_order", "append_order"} => call.kind = "add"
  /\ pc \in {"mark", "columns"} => call.columns # <<>>
  /\ pc = "mark" => call.names = <<>> /\ call.grown = {}
  /\ pc \in {"order", "index", "index_name"} => call.columns = <<>>
  /\ pc \in {"index", "index_name"} => call.index # <<>>
  /\ call.kind = "add" => Len(call.columns) = 1
  /\ call.kind = "append" => call.grown \subseteq Datasets
  /\ call.kind = "append" /\ pc = "grow" => nrows <= call.n

\* The columns of a create: those made and those to come, each once.
LayoutFits ==
  call.kind = "create" =>
    /\ IsInjective(call.names) /\ IsInjective(call.columns)
    /\ Range(call.names) \cap Range(call.columns) = {}
    /\ pc \in Creating => \A c \in Range(call.index) :
         IsDataset(c) /\ c \in Range(call.names) \cup Range(call.columns)

\* What holds of the objects in the file whoever died before: the dataset or
\* group of a column comes first, categories are in their subgroup, and the
\* parts the running call made are there.
ObjectsFit ==
  /\ \A c \in Names : made[c] # {} => "object" \in made[c]
  /\ \A c \in Names : "ref" \in made[c] \/ c \in cats => Kind[c] = "categorical"
  /\ cats # {} => catGroup
  /\ pc = "columns" =>
       /\ "subgroup" \in call.grown => catGroup
       /\ "labels" \in call.grown => Current \in cats
       /\ call.grown \cap {"object", "ref", "class", "members"} \subseteq made[Current]

\* Table.validate finds nothing to say about the parts of column c.
Accepted(c) ==
  /\ c \in Discovered \ Datasets => "members" \in made[c]
  /\ c \in Datasets /\ "ref" \in made[c] => c \in cats
  /\ c \in cats => "ref" \in made[c]

\* The rules of Table.validate for the columns in D, of which the table has
\* no more than those in D.
ValidFor(D) ==
  /\ Range(Marks) \subseteq attrs
  /\ \A c, d \in Datasets \cap D : ext[c] = ext[d]
  /\ \A c \in Datasets \cap D : ext[c] >= nrows
  /\ IndexNames(Datasets \cap D)
  /\ \A c \in D : Accepted(c)

OrderFits(D) ==
  "column-order" \in attrs => Range(order) = Discovered \cap D /\ IsInjective(order)

Others == Names \ {Current}

\* A create that found a clean group: nothing but the columns it made, of no
\* rows, and the one it is making.
CreateFits ==
  call.kind = "create" /\ call.sound =>
    /\ pc = "mark" => attrs \subseteq Range(Marks) /\ cats = {} /\ made = [c \in Names |-> {}]
    /\ pc \in Creating \ {"mark"} =>
         /\ nrows = 0 /\ Range(Marks) \subseteq attrs
         /\ "INDEX_COLUMNS" \in attrs => pc = "index_name" /\ index.refs = call.index
         /\ "column-order" \in attrs => pc \in {"index", "index_name"} /\ order = call.names
         /\ \A c \in Range(call.names) :
              c \in Discovered /\ Accepted(c) /\ (IsDataset(c) => ext[c] = 0)
         /\ \A c \in Names : c \in Range(call.names) \/ (pc = "columns" /\ c = Current)
                               \/ (made[c] = {} /\ c \notin cats)
         /\ pc = "columns" /\ IsDataset(Current) /\ made[Current] # {} => ext[Current] = 0

\* An add_column that found a valid table: valid but for the column it makes,
\* then but for the column's extent, then but for the order.
AddFits ==
  call.kind = "add" /\ call.sound =>
    /\ pc \in {"columns", "grow"} =>
         /\ ValidFor(Others) /\ OrderFits(Others)
         /\ IsDataset(Current) /\ made[Current] # {} => ext[Current] = 0
    /\ pc = "grow" => Current \in Discovered /\ Accepted(Current)
    /\ pc \in {"drop_order", "append_order"} => ValidFor(Names) /\ Current \in Discovered
    /\ pc = "drop_order" => OrderFits(Others)
    /\ pc = "append_order" =>
         Range(call.names) = Discovered \cap Others /\ IsInjective(call.names)

\* The names the running add_column found, none of them its own, are in the
\* order it is about to write.
NamesFit ==
  call.kind = "add" =>
    /\ Current \notin call.listed
    /\ pc = "append_order" => call.listed \subseteq Range(call.names)

\* An append that found a valid table: equal extents on either side of the
\* columns it has extended.
Extended(e) == IF e < call.n THEN call.n ELSE e

AppendFits ==
  call.kind = "append" /\ call.sound /\ pc = "grow" =>
    /\ Range(Marks) \subseteq attrs
    /\ \A c \in Datasets : ext[c] >= nrows
    /\ \A c \in call.grown : ext[c] >= call.n
    /\ \A c, d \in Datasets : (c \in call.grown <=> d \in call.grown) => ext[c] = ext[d]
    /\ \A c \in call.grown, d \in Datasets \ call.grown : ext[c] = Extended(ext[d])
    /\ IndexNames(Datasets)
    /\ OrderFits(Names)
    /\ \A c \in Names : Accepted(c)

\* What create's handler goes by: CLASS is there because the call wrote it; in
\* a group the call found clean so is every other attribute, and every column
\* is one it completed or the one it was making.
HandlerFits ==
  call.kind = "create" =>
    /\ pc = "mark" => /\ Len(call.written) < Len(Marks)
                       /\ \A i \in DOMAIN call.written :
                            call.written[i] = Marks[i] /\ Marks[i] \in attrs
    /\ "CLASS" \in attrs => "CLASS" \in Range(call.written)
    /\ call.hadCategories => catGroup
    /\ call.sound =>
         /\ attrs \subseteq Range(call.written)
         /\ \A c \in Names : made[c] # {} =>
              c \in Range(call.names) \/ (call.columns # <<>> /\ c = Current)
    /\ pc = "raised" /\ ~call.stuck =>
         /\ call.names = <<>> /\ call.written = <<>>
         /\ ~call.hadCategories => ~catGroup /\ cats = {}

SchemaInv ==
  /\ TypeOK /\ CallFits /\ LayoutFits /\ ObjectsFit
  /\ CreateFits /\ AddFits /\ NamesFit /\ AppendFits /\ HandlerFits
  /\ ReturnsValid /\ NoTableLeft /\ NamesKept
=============================================================================
