------------------------- MODULE TableSchemaProofs -------------------------
(* Proofs about TableSchema: what the calls that make, extend, fill and    *)
(* shorten a table leave, for any layout and wherever they fail or die.    *)
EXTENDS TableSchemaInvariant, FiniteSetTheorems, SequenceTheorems, TLAPS

\* Append adds one element to the range of a sequence, and keeps it injective
\* when the element is new.
LEMMA RangeAppend ==
  ASSUME NEW S, NEW s \in Seq(S), NEW e \in S
  PROVE  /\ Append(s, e) \in Seq(S)
         /\ Range(Append(s, e)) = Range(s) \cup {e}
         /\ IsInjective(s) /\ e \notin Range(s) => IsInjective(Append(s, e))
<1> DEFINE a == Append(s, e)
<1>1. /\ a \in Seq(S) /\ DOMAIN a = 1..(Len(s) + 1) /\ DOMAIN s = 1..Len(s) /\ Len(s) \in Nat
      /\ \A i \in 1..Len(s) : a[i] = s[i]
      /\ a[Len(s) + 1] = e
  OBVIOUS
<1> HIDE DEF a
<1>2. 1..(Len(s) + 1) = 1..Len(s) \cup {Len(s) + 1}
  BY <1>1
<1>3. Range(a) = Range(s) \cup {e}
  BY <1>1, <1>2 DEF Range
<1>4. IsInjective(s) /\ e \notin Range(s) => IsInjective(a)
  BY <1>1, <1>2 DEF Range, IsInjective
<1> QED BY <1>1, <1>3, <1>4 DEF a

\* The head of a sequence and the range of its tail make up its range, and
\* the head of an injective sequence is not in its tail.
LEMMA RangeTail ==
  ASSUME NEW S, NEW s \in Seq(S), s # <<>>
  PROVE  /\ Head(s) \in S /\ Tail(s) \in Seq(S)
         /\ Range(s) = {Head(s)} \cup Range(Tail(s))
         /\ IsInjective(s) => IsInjective(Tail(s)) /\ Head(s) \notin Range(Tail(s))
         /\ Len(s) = 1 <=> Tail(s) = <<>>
<1> DEFINE t == Tail(s)
<1>1. /\ Len(s) \in Nat \ {0} /\ DOMAIN s = 1..Len(s) /\ \A i \in 1..Len(s) : s[i] \in S
      /\ Head(s) = s[1]
      /\ t \in Seq(S) /\ Len(t) = Len(s) - 1 /\ DOMAIN t = 1..(Len(s) - 1)
      /\ \A i \in 1..(Len(s) - 1) : t[i] = s[i + 1]
  <2>1. Len(s) \in Nat \ {0} /\ DOMAIN s = 1..Len(s) /\ \A i \in 1..Len(s) : s[i] \in S
    OBVIOUS
  <2>2. Head(s) = s[1]
    OBVIOUS
  <2>3. t \in Seq(S) /\ Len(t) = Len(s) - 1
    OBVIOUS
  <2>4. DOMAIN t = 1..(Len(s) - 1) /\ \A i \in 1..(Len(s) - 1) : t[i] = s[i + 1]
    BY <2>1, <2>3
  <2> QED BY <2>1, <2>2, <2>3, <2>4
<1>2. Len(t) = 0 <=> t = <<>>
  BY <1>1, EmptySeq
<1> HIDE DEF t
<1>3. /\ \A i \in DOMAIN t : i + 1 \in DOMAIN s /\ i + 1 # 1 /\ t[i] = s[i + 1]
      /\ \A i \in DOMAIN s : i # 1 => i - 1 \in DOMAIN t /\ t[i - 1] = s[i]
      /\ 1 \in DOMAIN s
  BY <1>1
<1>4. Range(s) = {Head(s)} \cup Range(t)
  <2>1. ASSUME NEW x \in Range(s) PROVE x \in {Head(s)} \cup Range(t)
    <3>1. PICK i \in DOMAIN s : x = s[i]
      BY DEF Range
    <3> QED BY <1>1, <1>3, <3>1 DEF Range
  <2>2. {Head(s)} \cup Range(t) \subseteq Range(s)
    BY <1>1, <1>3 DEF Range
  <2> QED BY <2>1, <2>2
<1>5. IsInjective(s) => IsInjective(t) /\ Head(s) \notin Range(t)
  BY <1>1, <1>3 DEF Range, IsInjective
<1> QED BY <1>1, <1>2, <1>4, <1>5 DEF t

\* The empty sequence.
LEMMA RangeEmpty ==
  (\A S : <<>> \in Seq(S)) /\ Len(<<>>) = 0 /\ Range(<<>>) = {} /\ IsInjective(<<>>)
BY DEF Range, IsInjective

\* The column in hand is one of the columns.
LEMMA CurrentTypes ==
  ASSUME TypeOK, call.columns # <<>>
  PROVE  Current \in Names /\ Current \in Range(call.columns)
BY RangeTail DEF TypeOK, Calls, Current

\* Listing puts the members of a finite set in a sequence, each once.
LEMMA ListingTypes ==
  ASSUME NEW S, IsFiniteSet(S)
  PROVE  Listing(S) \in Seq(S) /\ Range(Listing(S)) = S /\ IsInjective(Listing(S))
<1>1. Cardinality(S) \in Nat /\ ExistsBijection(1..Cardinality(S), S)
  BY FS_CardinalityType
<1>2. PICK f \in Bijection(1..Cardinality(S), S) : TRUE
  BY <1>1 DEF ExistsBijection
<1>3. f \in [1..Cardinality(S) -> S] /\ Range(f) = S
  BY <1>2 DEF Bijection, Injection, Surjection, Range
<1>4. Listing(S) \in [1..Cardinality(S) -> S] /\ Range(Listing(S)) = S
  BY <1>3 DEF Listing
<1>5. Listing(S) \in Surjection(1..Cardinality(S), S)
  BY <1>4 DEF Surjection, Range
<1>6. IsFiniteSet(1..Cardinality(S)) /\ Cardinality(1..Cardinality(S)) = Cardinality(S)
  BY <1>1, FS_Interval
<1>7. Listing(S) \in Injection(1..Cardinality(S), S)
  BY <1>5, <1>6, FS_Surjection
<1>8. IsInjective(Listing(S))
  BY <1>4, <1>7 DEF Injection, IsInjective
<1> QED BY <1>1, <1>4, <1>8
\* The attributes that mark a group as a table, in the order they are written.
LEMMA MarksRange ==
  /\ DOMAIN Marks = 1..3 /\ Len(Marks) = 3
  /\ Marks[1] = "CLASS" /\ Marks[2] = "VERSION" /\ Marks[3] = "NROWS"
  /\ Range(Marks) = {"CLASS", "VERSION", "NROWS"}
<1>1. DOMAIN Marks = {1, 2, 3}
  BY DEF Marks
<1> QED BY <1>1 DEF Range, Marks

-----------------------------------------------------------------------------
(* Table.create.                                                           *)

\* create starts on a group that is no table.
LEMMA BeginCreateKeeps ==
  ASSUME SchemaInv, BeginCreate
  PROVE  SchemaInv'
<1> USE DEF SchemaInv
<1>1. PICK layout \in Layouts, i \in SUBSET Names :
        /\ i \subseteq {c \in Range(layout) : IsDataset(c)}
        /\ call' = [NoCall EXCEPT !.kind = "create", !.columns = layout,
                                  !.index = Listing(i),
                                  !.hadCategories = catGroup, !.sound = Clean]
  BY DEF BeginCreate
<1>2. pc' = "mark" /\ UNCHANGED file
  BY DEF BeginCreate
<1>3. layout \in Seq(Names) /\ layout # <<>> /\ IsInjective(layout)
  BY SchemaAssumption
<1>4. Listing(i) \in Seq(i) /\ Range(Listing(i)) = i
  BY SchemaAssumption, ListingTypes, FS_Subset
<1>5. Listing(i) \in Seq(Names)
  BY <1>4, SeqMonotonic
<1>6. TypeOK'
  BY <1>1, <1>2, <1>3, <1>5, RangeEmpty
     DEF TypeOK, Calls, NoCall, Clean, file, Creating
<1>7. CallFits' /\ ObjectsFit' /\ ReturnsValid'
  BY <1>1, <1>2, <1>3
     DEF CallFits, ObjectsFit, ReturnsValid, NoCall, file, Creating
<1>8. LayoutFits' /\ CreateFits' /\ NoTableLeft' /\ HandlerFits'
  <2>1. LayoutFits' /\ CreateFits' /\ NoTableLeft'
    BY <1>1, <1>2, <1>3, <1>4, RangeEmpty
       DEF LayoutFits, CreateFits, NoTableLeft, NoCall, Clean, file, IsDataset, Creating
  <2>2. /\ call'.kind = "create" /\ call'.written = <<>> /\ call'.names = <<>>
        /\ call'.hadCategories = catGroup /\ call'.sound = Clean
        /\ UNCHANGED <<attrs, catGroup, made>> /\ "CLASS" \notin attrs
    BY <1>1, <1>2 DEF NoCall, file, BeginCreate
  <2>3. Len(<<>>) < Len(Marks) /\ DOMAIN <<>> = {}
    BY MarksRange
  <2>4. HandlerFits'
    BY <1>2, <2>2, <2>3 DEF HandlerFits, Clean
  <2> QED BY <2>1, <2>4
<1>9. AddFits' /\ NamesFit' /\ NamesKept' /\ AppendFits'
  BY <1>1 DEF AddFits, NamesFit, NamesKept, AppendFits, NoCall
<1> QED BY <1>6, <1>7, <1>8, <1>9

\* The attributes that mark a table are written before any column.
LEMMA MarkKeeps ==
  ASSUME SchemaInv, Mark
  PROVE  SchemaInv'
<1> USE DEF SchemaInv
<1> DEFINE l == Len(call.written)  a == Marks[l + 1]
<1>1. /\ pc = "mark" /\ call.kind = "create"
      /\ attrs' = attrs \cup {a} /\ call' = [call EXCEPT !.written = Append(call.written, a)]
      /\ nrows' = IF a = "NROWS" THEN 0 ELSE nrows
      /\ pc' = IF a = "NROWS" THEN "columns" ELSE "mark"
      /\ UNCHANGED <<order, index, made, ext, catGroup, cats>>
  BY DEF Mark, WriteAttr, CallFits, Creating
<1>2. /\ call.written \in Seq(Attributes) /\ l \in 0..2
      /\ \A i \in 1..l : call.written[i] = Marks[i] /\ Marks[i] \in attrs
  <2>1. call.written \in Seq(Attributes)
    BY DEF TypeOK, Calls
  <2>2. l \in Nat /\ DOMAIN call.written = 1..l
    BY <2>1
  <2>3. l < 3 /\ \A i \in 1..l : call.written[i] = Marks[i] /\ Marks[i] \in attrs
    BY <1>1, <2>2, MarksRange DEF HandlerFits
  <2> HIDE DEF l
  <2>4. l \in 0..2
    BY <2>2, <2>3
  <2> QED BY <2>1, <2>3, <2>4
<1>3. /\ a \in Range(Marks) /\ a \in Attributes /\ a = Marks[l + 1]
      /\ a = "NROWS" <=> l = 2
      /\ l = 0 => a = "CLASS"
  BY <1>2, MarksRange DEF Attributes
<1>4. /\ call'.kind = call.kind /\ call'.columns = call.columns /\ call'.names = call.names
      /\ call'.index = call.index /\ call'.sound = call.sound /\ call'.listed = call.listed
      /\ call'.grown = call.grown /\ call'.n = call.n
      /\ call'.hadCategories = call.hadCategories /\ call'.stuck = call.stuck
      /\ call'.written = Append(call.written, a)
  BY <1>1 DEF TypeOK, Calls
<1> HIDE DEF a
<1>5. /\ call'.written \in Seq(Attributes) /\ Range(call'.written) = Range(call.written) \cup {a}
      /\ Len(call'.written) = l + 1
      /\ \A i \in 1..(l + 1) : call'.written[i] = Marks[i]
  <2>1. /\ \A i \in 1..l : Append(call.written, a)[i] = call.written[i]
        /\ Append(call.written, a)[l + 1] = a /\ Len(Append(call.written, a)) = l + 1
    BY <1>2, <1>3
  <2> QED BY <1>2, <1>3, <1>4, <2>1, RangeAppend
<1>6. a = "NROWS" => Range(Marks) \subseteq attrs'
  BY <1>1, <1>2, <1>3, MarksRange
<1> HIDE DEF l
<1>7. TypeOK'
  <2>1. call' \in Calls
    BY <1>1, <1>5 DEF TypeOK, Calls
  <2> QED BY <1>1, <1>3, <2>1 DEF TypeOK, Creating
<1>8. CallFits' /\ ObjectsFit' /\ ReturnsValid' /\ NoTableLeft'
  BY <1>1, <1>4 DEF CallFits, ObjectsFit, ReturnsValid, NoTableLeft, Creating
<1>9. LayoutFits'
  BY <1>1, <1>4 DEF LayoutFits, IsDataset, Creating
<1>10. CreateFits'
  BY <1>1, <1>3, <1>4, <1>6, MarksRange, RangeEmpty, CurrentTypes
     DEF CreateFits, CallFits, Creating, Accepted, Discovered, Datasets, IsDataset, Current
<1>11. HandlerFits'
  <2>1. pc' = "mark" => /\ Len(call'.written) < Len(Marks)
                        /\ \A i \in DOMAIN call'.written :
                             call'.written[i] = Marks[i] /\ Marks[i] \in attrs'
    <3>1. pc' = "mark" => l # 2
      BY <1>1, <1>3
    <3>2. DOMAIN call'.written = 1..(l + 1)
      BY <1>5
    <3>3. \A i \in 1..(l + 1) : Marks[i] \in attrs'
      <4> SUFFICES ASSUME NEW i \in 1..(l + 1) PROVE Marks[i] \in attrs'
        OBVIOUS
      <4>1. i \in 1..l \/ i = l + 1
        BY <1>2
      <4> QED BY <1>1, <1>2, <1>3, <4>1
    <3> QED BY <1>2, <1>5, <3>1, <3>2, <3>3, MarksRange
  <2>2. pc' # "raised"
    BY <1>1
  <2> QED BY <1>1, <1>4, <1>5, <2>1, <2>2 DEF HandlerFits, Current
<1>12. AddFits' /\ NamesFit' /\ NamesKept' /\ AppendFits'
  BY <1>1, <1>4 DEF AddFits, NamesFit, NamesKept, AppendFits
<1> QED BY <1>7, <1>8, <1>9, <1>10, <1>11, <1>12

\* What writing an attribute leaves of a create's call and of what its handler
\* goes by.
LEMMA WriteAttrKeeps ==
  ASSUME SchemaInv, NEW a \in Attributes, WriteAttr(a),
         pc \in {"order", "index", "index_name"}, call.kind = "create",
         pc' \in {"index", "index_name", "return"}, UNCHANGED <<made, catGroup, cats>>
  PROVE  /\ call'.kind = call.kind /\ call'.columns = call.columns /\ call'.names = call.names
         /\ call'.index = call.index /\ call'.sound = call.sound /\ call'.listed = call.listed
         /\ call'.grown = call.grown /\ call'.n = call.n
         /\ attrs' = attrs \cup {a} /\ attrs' \in SUBSET Attributes
         /\ call' \in Calls /\ HandlerFits'
<1> USE DEF SchemaInv
<1>1. /\ attrs' = attrs \cup {a} /\ call' = [call EXCEPT !.written = Append(call.written, a)]
      /\ call.written \in Seq(Attributes)
  BY DEF WriteAttr, TypeOK, Calls
<1>2. /\ Append(call.written, a) \in Seq(Attributes)
      /\ Range(Append(call.written, a)) = Range(call.written) \cup {a}
  BY <1>1, RangeAppend
<1>3. /\ call'.kind = call.kind /\ call'.columns = call.columns /\ call'.names = call.names
      /\ call'.index = call.index /\ call'.sound = call.sound /\ call'.listed = call.listed
      /\ call'.grown = call.grown /\ call'.n = call.n
      /\ call'.hadCategories = call.hadCategories /\ call'.written = Append(call.written, a)
  BY <1>1 DEF TypeOK, Calls
<1>4. attrs' \in SUBSET Attributes
  BY <1>1 DEF TypeOK
<1>5. call' \in Calls
  BY <1>1, <1>2 DEF TypeOK, Calls
<1>6. HandlerFits'
  BY <1>1, <1>2, <1>3 DEF HandlerFits, Current
<1> QED BY <1>1, <1>3, <1>4, <1>5, <1>6

\* column-order names the columns that were made.
LEMMA WriteOrderKeeps ==
  ASSUME SchemaInv, WriteOrder
  PROVE  SchemaInv'
<1> USE DEF SchemaInv
<1>1. /\ UNCHANGED <<made, ext, cats, catGroup, nrows, index>>
      /\ pc = "order" /\ call.kind = "create" /\ order' = call.names /\ WriteAttr("column-order")
      /\ pc' = IF call.index = <<>> THEN "return" ELSE "index"
  BY DEF WriteOrder
<1>2. /\ call'.kind = call.kind /\ call'.columns = call.columns /\ call'.names = call.names
      /\ call'.index = call.index /\ call'.sound = call.sound /\ call'.listed = call.listed
      /\ call'.grown = call.grown /\ call'.n = call.n
      /\ attrs' = attrs \cup {"column-order"} /\ attrs' \in SUBSET Attributes
      /\ call' \in Calls /\ HandlerFits'
  BY <1>1, WriteAttrKeeps DEF Attributes
<1>3. TypeOK'
  BY <1>1, <1>2 DEF TypeOK, Calls, Creating
<1>4. CallFits' /\ ObjectsFit' /\ LayoutFits' /\ NoTableLeft'
  BY <1>1, <1>2 DEF CallFits, ObjectsFit, LayoutFits, NoTableLeft, IsDataset, Creating
<1>5. CreateFits'
  BY <1>1, <1>2, MarksRange DEF CreateFits, Creating, Accepted, Discovered, Datasets, IsDataset, Current
<1>6. ASSUME pc' = "return", call.sound PROVE Valid'
  <2>1. /\ nrows' = 0 /\ Range(Marks) \subseteq attrs' /\ "INDEX_COLUMNS" \notin attrs'
        /\ \A c \in Range(call.names) :
             c \in Discovered /\ Accepted(c) /\ (IsDataset(c) => ext[c] = 0)
        /\ \A c \in Names : c \in Range(call.names) \/ (made[c] = {} /\ c \notin cats)
    BY <1>1, <1>2, <1>6 DEF CreateFits, Creating
  <2>2. Range(call.names) = Discovered /\ IsInjective(call.names)
    BY <1>1, <2>1 DEF Discovered, LayoutFits
  <2>3. order' = call.names /\ Discovered' = Discovered /\ Datasets' = Datasets
    BY <1>1 DEF Discovered, Datasets, IsDataset
  <2> QED BY <1>1, <2>1, <2>2, <2>3 DEF Valid, IndexNames, Accepted, Datasets, ObjectsFit, TypeOK
<1>7. ReturnsValid'
  BY <1>2, <1>6 DEF ReturnsValid
<1>8. AddFits' /\ NamesFit' /\ NamesKept' /\ AppendFits'
  BY <1>1, <1>2 DEF AddFits, NamesFit, NamesKept, AppendFits
<1> QED BY <1>2, <1>3, <1>4, <1>5, <1>7, <1>8

\* INDEX_COLUMNS is written before the name that goes with it.
LEMMA WriteIndexColumnsKeeps ==
  ASSUME SchemaInv, WriteIndexColumns
  PROVE  SchemaInv'
<1> USE DEF SchemaInv
<1>1. /\ UNCHANGED <<made, ext, cats, catGroup, nrows, order>>
      /\ pc = "index" /\ pc' = "index_name" /\ call.kind = "create"
      /\ index' = [index EXCEPT !.refs = call.index] /\ WriteAttr("INDEX_COLUMNS")
  BY DEF WriteIndexColumns, CallFits, Creating
<1>2. /\ call'.kind = call.kind /\ call'.columns = call.columns /\ call'.names = call.names
      /\ call'.index = call.index /\ call'.sound = call.sound /\ call'.listed = call.listed
      /\ call'.grown = call.grown /\ call'.n = call.n
      /\ attrs' = attrs \cup {"INDEX_COLUMNS"} /\ attrs' \in SUBSET Attributes
      /\ call' \in Calls /\ HandlerFits'
  BY <1>1, WriteAttrKeeps DEF Attributes
<1>3. call.index \in Seq(Names \cup {Gone})
  BY SeqMonotonic DEF TypeOK, Calls
<1>4. TypeOK' /\ index'.refs = call.index
  BY <1>1, <1>2, <1>3 DEF TypeOK, Creating
<1>5. CallFits' /\ ObjectsFit' /\ LayoutFits' /\ NoTableLeft' /\ ReturnsValid'
  BY <1>1, <1>2
     DEF CallFits, ObjectsFit, LayoutFits, NoTableLeft, ReturnsValid, IsDataset, Creating
<1>6. CreateFits'
  BY <1>1, <1>2, <1>4, MarksRange
     DEF CreateFits, Creating, Accepted, Discovered, Datasets, IsDataset, Current
<1>7. AddFits' /\ NamesFit' /\ NamesKept' /\ AppendFits'
  BY <1>1, <1>2 DEF AddFits, NamesFit, NamesKept, AppendFits
<1> QED BY <1>2, <1>4, <1>5, <1>6, <1>7

\* _index is the last attribute create writes.
LEMMA WriteIndexNameKeeps ==
  ASSUME SchemaInv, WriteIndexName
  PROVE  SchemaInv'
<1> USE DEF SchemaInv
<1>1. /\ UNCHANGED <<made, ext, cats, catGroup, nrows, order>>
      /\ pc = "index_name" /\ pc' = "return" /\ call.kind = "create" /\ call.columns = <<>>
      /\ index' = [index EXCEPT !.name = Head(call.index)] /\ WriteAttr("_index")
      /\ call.index # <<>>
  BY DEF WriteIndexName, CallFits, Creating
<1>2. /\ call'.kind = call.kind /\ call'.columns = call.columns /\ call'.names = call.names
      /\ call'.index = call.index /\ call'.sound = call.sound /\ call'.listed = call.listed
      /\ call'.grown = call.grown /\ call'.n = call.n
      /\ attrs' = attrs \cup {"_index"} /\ attrs' \in SUBSET Attributes
      /\ call' \in Calls /\ HandlerFits'
  BY <1>1, WriteAttrKeeps DEF Attributes
<1>3. Head(call.index) \in Names
  BY <1>1, RangeTail DEF TypeOK, Calls
<1>4. TypeOK' /\ index'.refs = index.refs /\ index'.name = Head(call.index)
  BY <1>1, <1>2, <1>3 DEF TypeOK, Creating
<1>5. CallFits' /\ ObjectsFit' /\ LayoutFits' /\ NoTableLeft'
  BY <1>1, <1>2 DEF CallFits, ObjectsFit, LayoutFits, NoTableLeft, IsDataset, Creating
<1>6. CreateFits'
  BY <1>1, <1>2 DEF CreateFits, Creating
<1>7. ASSUME call.sound PROVE Valid'
  <2>1. /\ nrows' = 0 /\ Range(Marks) \subseteq attrs'
        /\ "column-order" \in attrs => order = call.names
        /\ "INDEX_COLUMNS" \in attrs => index.refs = call.index
        /\ \A c \in Range(call.names) :
             c \in Discovered /\ Accepted(c) /\ (IsDataset(c) => ext[c] = 0)
        /\ \A c \in Names : c \in Range(call.names) \/ (made[c] = {} /\ c \notin cats)
    BY <1>1, <1>2, <1>7 DEF CreateFits, Creating
  <2>2. Range(call.names) = Discovered /\ IsInjective(call.names)
    BY <1>1, <2>1 DEF Discovered, LayoutFits
  <2>3. Range(call.index) \subseteq Datasets
    BY <1>1, <2>2, RangeEmpty DEF LayoutFits, Datasets, Creating
  <2>4. Discovered' = Discovered /\ Datasets' = Datasets
    BY <1>1 DEF Discovered, Datasets, IsDataset
  <2>5. IndexNames(Datasets)'
    BY <1>2, <1>4, <2>1, <2>3, <2>4 DEF IndexNames
  <2>6. "column-order" \in attrs' => Range(order') = Discovered /\ IsInjective(order')
    BY <1>1, <1>2, <2>1, <2>2
  <2> QED BY <1>1, <2>1, <2>2, <2>4, <2>5, <2>6 DEF Valid, Accepted, Datasets, ObjectsFit, TypeOK
<1>8. ReturnsValid'
  BY <1>2, <1>7 DEF ReturnsValid
<1>9. AddFits' /\ NamesFit' /\ NamesKept' /\ AppendFits'
  BY <1>1, <1>2 DEF AddFits, NamesFit, NamesKept, AppendFits
<1> QED BY <1>2, <1>4, <1>5, <1>6, <1>8, <1>9

\* The handler of create deletes the columns the call completed.
LEMMA RollbackColumnKeeps ==
  ASSUME SchemaInv, RollbackColumn
  PROVE  SchemaInv'
<1> USE DEF SchemaInv
<1> DEFINE c == Head(call.names)
<1>1. /\ pc = "rollback" /\ pc' = "rollback" /\ call.names # <<>> /\ call.kind = "create"
      /\ made' = [made EXCEPT ![c] = {}]
      /\ index' = [index EXCEPT !.refs =
                     [k \in DOMAIN index.refs |-> IF index.refs[k] = c THEN Gone ELSE index.refs[k]]]
      /\ call' = [call EXCEPT !.names = Tail(call.names)]
      /\ UNCHANGED <<attrs, nrows, order, ext, catGroup, cats>>
  BY DEF RollbackColumn, CallFits
<1>2. /\ c \in Names /\ Tail(call.names) \in Seq(Names)
      /\ Range(call.names) = {c} \cup Range(Tail(call.names))
      /\ IsInjective(call.names) => IsInjective(Tail(call.names))
  BY <1>1, RangeTail DEF TypeOK, Calls
<1>3. [k \in DOMAIN index.refs |-> IF index.refs[k] = c THEN Gone ELSE index.refs[k]]
        \in Seq(Names \cup {Gone})
  <2>1. index.refs \in Seq(Names \cup {Gone})
    BY DEF TypeOK
  <2>2. Len(index.refs) \in Nat /\ DOMAIN index.refs = 1..Len(index.refs)
        /\ \A k \in 1..Len(index.refs) : index.refs[k] \in Names \cup {Gone}
    BY <2>1
  <2> DEFINE r == [k \in DOMAIN index.refs |-> IF index.refs[k] = c THEN Gone ELSE index.refs[k]]
  <2>3. r \in [1..Len(index.refs) -> Names \cup {Gone}]
    BY <2>2
  <2> QED BY <2>2, <2>3, IsASeq
<1> HIDE DEF c
<1>4. /\ call'.kind = call.kind /\ call'.columns = call.columns
      /\ call'.names = Tail(call.names) /\ call'.written = call.written
      /\ call'.hadCategories = call.hadCategories /\ call'.sound = call.sound
  BY <1>1 DEF TypeOK, Calls
<1>5. TypeOK'
  <2>1. call' \in Calls
    BY <1>1, <1>2 DEF TypeOK, Calls
  <2>2. index' \in [refs : Seq(Names \cup {Gone}), name : Names \cup {Gone}]
    BY <1>1, <1>3 DEF TypeOK
  <2> QED BY <1>1, <1>2, <2>1, <2>2 DEF TypeOK
<1>6. CallFits' /\ ReturnsValid' /\ NoTableLeft' /\ CreateFits'
  BY <1>1, <1>4 DEF CallFits, ReturnsValid, NoTableLeft, CreateFits, Creating
<1>7. ObjectsFit'
  BY <1>1, <1>2 DEF ObjectsFit, TypeOK
<1>8. LayoutFits' /\ HandlerFits'
  BY <1>1, <1>2, <1>4 DEF LayoutFits, HandlerFits, Creating, Current, TypeOK
<1>9. AddFits' /\ NamesFit' /\ NamesKept' /\ AppendFits'
  BY <1>1, <1>4 DEF AddFits, NamesFit, NamesKept, AppendFits
<1> QED BY <1>5, <1>6, <1>7, <1>8, <1>9

\* Then the attributes the call wrote.
LEMMA RollbackAttrKeeps ==
  ASSUME SchemaInv, RollbackAttr
  PROVE  SchemaInv'
<1> USE DEF SchemaInv
<1>1. /\ pc = "rollback" /\ pc' = "rollback" /\ call.written # <<>> /\ call.kind = "create"
      /\ attrs' = attrs \ {Head(call.written)}
      /\ call' = [call EXCEPT !.written = Tail(call.written)]
      /\ UNCHANGED <<nrows, order, index, made, ext, catGroup, cats>>
  BY DEF RollbackAttr, CallFits
<1>2. /\ Head(call.written) \in Attributes /\ Tail(call.written) \in Seq(Attributes)
      /\ Range(call.written) = {Head(call.written)} \cup Range(Tail(call.written))
  BY <1>1, RangeTail DEF TypeOK, Calls
<1>3. /\ call'.kind = call.kind /\ call'.columns = call.columns /\ call'.names = call.names
      /\ call'.written = Tail(call.written)
      /\ call'.hadCategories = call.hadCategories /\ call'.sound = call.sound
  BY <1>1 DEF TypeOK, Calls
<1>4. TypeOK'
  <2>1. call' \in Calls
    BY <1>1, <1>2 DEF TypeOK, Calls
  <2> QED BY <1>1, <2>1 DEF TypeOK
<1>5. CallFits' /\ ObjectsFit' /\ ReturnsValid' /\ NoTableLeft' /\ CreateFits'
  BY <1>1, <1>3 DEF CallFits, ObjectsFit, ReturnsValid, NoTableLeft, CreateFits, Creating
<1>6. LayoutFits' /\ HandlerFits'
  BY <1>1, <1>2, <1>3 DEF LayoutFits, HandlerFits, Creating, Current
<1>7. AddFits' /\ NamesFit' /\ NamesKept' /\ AppendFits'
  BY <1>1, <1>3 DEF AddFits, NamesFit, NamesKept, AppendFits
<1> QED BY <1>4, <1>5, <1>6, <1>7

\* And the categories the call brought in: all that is left of a clean group is
\* the column it was making.
LEMMA RollbackCategoriesKeeps ==
  ASSUME SchemaInv, RollbackCategories
  PROVE  SchemaInv'
<1> USE DEF SchemaInv
<1>1. /\ pc = "rollback" /\ pc' = "raised" /\ call.names = <<>> /\ call.written = <<>>
      /\ call.kind = "create"
      /\ catGroup' = (catGroup /\ call.hadCategories)
      /\ cats' = IF call.hadCategories THEN cats ELSE {}
      /\ UNCHANGED <<attrs, nrows, order, index, made, ext, call>>
  BY DEF RollbackCategories, Leave, CallFits
<1>2. TypeOK'
  BY <1>1 DEF TypeOK, Calls
<1>3. CallFits' /\ ReturnsValid' /\ CreateFits' /\ LayoutFits'
  BY <1>1 DEF CallFits, ReturnsValid, CreateFits, LayoutFits, Creating
<1>4. ObjectsFit'
  BY <1>1 DEF ObjectsFit
<1>5. call.hadCategories => catGroup
  BY <1>1 DEF HandlerFits
<1>6. HandlerFits'
  BY <1>1, <1>5 DEF HandlerFits, Current
<1>7. NoTableLeft'
  <2>1. "CLASS" \notin attrs /\ (call.sound => attrs = {})
    BY <1>1, RangeEmpty DEF HandlerFits
  <2>2. catGroup' = call.hadCategories
    BY <1>1, <1>5 DEF TypeOK, Calls
  <2>3. call.sound => \A c \in Names : made[c] # {} => call.columns # <<>> /\ c = Current
    BY <1>1, RangeEmpty DEF HandlerFits
  <2> QED BY <1>1, <2>1, <2>2, <2>3 DEF NoTableLeft, Current
<1>8. AddFits' /\ NamesFit' /\ NamesKept' /\ AppendFits'
  BY <1>1 DEF AddFits, NamesFit, NamesKept, AppendFits
<1> QED BY <1>2, <1>3, <1>4, <1>6, <1>7, <1>8

-----------------------------------------------------------------------------
(* The columns create and add_column make.                                 *)

\* What comes before a part: the object before everything, the subgroup
\* before the categories in it.
LEMMA DueTypes ==
  ASSUME NEW c \in Names, NEW part \in Due(c)
  PROVE  /\ part \in PartNames
         /\ part # "object" => "object" \in call.grown
         /\ part = "labels" => "subgroup" \in call.grown
         /\ part \in {"subgroup", "labels", "ref"} => Kind[c] = "categorical"
<1>1. PICK i \in DOMAIN Parts(c) :
        part = Parts(c)[i] /\ \A j \in 1..(i - 1) : Parts(c)[j] \in call.grown
  BY DEF Due
<1>2. CASE Kind[c] = "categorical"
  <2>1. Parts(c) = <<"object", "subgroup", "labels", "ref", "notes">>
    BY <1>2 DEF Parts
  <2>2. i \in 1..5
    BY <1>1, <2>1
  <2> QED BY <1>1, <1>2, <2>1, <2>2 DEF PartNames
<1>3. CASE Kind[c] = "list"
  <2>1. Parts(c) = <<"object", "class", "members">>
    BY <1>3 DEF Parts
  <2>2. i \in 1..3
    BY <1>1, <2>1
  <2> QED BY <1>1, <1>3, <2>1, <2>2 DEF PartNames
<1>4. CASE Kind[c] \notin {"categorical", "list"}
  <2>1. Parts(c) = <<"object", "notes", "extra">>
    BY <1>4 DEF Parts
  <2>2. i \in 1..3
    BY <1>1, <2>1
  <2> QED BY <1>1, <1>4, <2>1, <2>2 DEF PartNames
<1> QED BY <1>2, <1>3, <1>4

\* A column no part of which is due has all its parts.
LEMMA DueEmpty ==
  ASSUME NEW c \in Names, Due(c) = {}
  PROVE  /\ "object" \in call.grown
         /\ Kind[c] = "categorical" => {"labels", "ref"} \subseteq call.grown
         /\ Kind[c] = "list" => {"class", "members"} \subseteq call.grown
<1>1. ASSUME NEW i \in DOMAIN Parts(c), \A j \in 1..(i - 1) : Parts(c)[j] \in call.grown
      PROVE  Parts(c)[i] \in call.grown
  BY <1>1 DEF Due
<1>2. CASE Kind[c] = "categorical"
  <2>1. Parts(c) = <<"object", "subgroup", "labels", "ref", "notes">> /\ DOMAIN Parts(c) = 1..5
    BY <1>2 DEF Parts
  <2>2. Parts(c)[1] \in call.grown
    BY <1>1, <2>1
  <2>3. Parts(c)[2] \in call.grown
    BY <1>1, <2>1, <2>2
  <2>4. Parts(c)[3] \in call.grown
    BY <1>1, <2>1, <2>2, <2>3
  <2>5. Parts(c)[4] \in call.grown
    BY <1>1, <2>1, <2>2, <2>3, <2>4
  <2> QED BY <1>2, <2>1, <2>2, <2>4, <2>5
<1>3. CASE Kind[c] = "list"
  <2>1. Parts(c) = <<"object", "class", "members">> /\ DOMAIN Parts(c) = 1..3
    BY <1>3 DEF Parts
  <2>2. Parts(c)[1] \in call.grown
    BY <1>1, <2>1
  <2>3. Parts(c)[2] \in call.grown
    BY <1>1, <2>1, <2>2
  <2>4. Parts(c)[3] \in call.grown
    BY <1>1, <2>1, <2>2, <2>3
  <2> QED BY <1>3, <2>1, <2>2, <2>3, <2>4
<1>4. CASE Kind[c] \notin {"categorical", "list"}
  <2>1. Parts(c)[1] = "object" /\ 1 \in DOMAIN Parts(c)
    BY <1>4 DEF Parts
  <2> QED BY <1>1, <1>4, <2>1
<1> QED BY <1>2, <1>3, <1>4

\* A part is made when all that comes before it is there.
LEMMA MakePartKeeps ==
  ASSUME SchemaInv, MakePart
  PROVE  SchemaInv'
<1> USE DEF SchemaInv
<1>1. PICK part \in Due(Current) :
        /\ ~Taken(part)
        /\ made' = [made EXCEPT ![Current] =
                      IF part \in {"subgroup", "labels"}
                         \/ (part = "extra" /\ Current \notin Annotated)
                      THEN @ ELSE @ \cup {part}]
        /\ catGroup' = (catGroup \/ part = "subgroup")
        /\ cats' = IF part = "labels" THEN cats \cup {Current} ELSE cats
        /\ ext' = IF part = "object" THEN [ext EXCEPT ![Current] = 0] ELSE ext
        /\ call' = [call EXCEPT !.grown = @ \cup {part}]
  BY DEF MakePart
<1>2. /\ pc = "columns" /\ pc' = "columns" /\ call.columns # <<>>
      /\ UNCHANGED <<attrs, nrows, order, index>>
      /\ call.kind \in {"create", "add"}
  BY DEF MakePart, CallFits
<1>3. /\ call'.kind = call.kind /\ call'.columns = call.columns /\ call'.names = call.names
      /\ call'.index = call.index /\ call'.sound = call.sound /\ call'.listed = call.listed
      /\ call'.grown = call.grown \cup {part} /\ call'.n = call.n
  BY <1>1 DEF TypeOK, Calls
<1>4. Current \in Names /\ Current \in Range(call.columns) /\ Current' = Current
  BY <1>2, <1>3, CurrentTypes DEF Current
<1>5. /\ part \in PartNames
      /\ part # "object" => "object" \in made[Current]
      /\ part = "labels" => catGroup
      /\ part \in {"subgroup", "labels", "ref"} => Kind[Current] = "categorical"
  BY <1>1, <1>2, <1>4, DueTypes DEF ObjectsFit
<1>6. /\ \A c \in Others : /\ made'[c] = made[c] /\ ext'[c] = ext[c]
                           /\ c \in cats' <=> c \in cats
                           /\ c \in Discovered' <=> c \in Discovered
                           /\ c \in Datasets' <=> c \in Datasets
      /\ made[Current] \subseteq made'[Current] /\ Discovered \subseteq Discovered'
  BY <1>1, <1>4 DEF TypeOK, Others, Discovered, Datasets, IsDataset
<1>7. /\ made'[Current] # {} => "object" \in made'[Current]
      /\ IsDataset(Current) /\ (made[Current] # {} => ext[Current] = 0)
           /\ made'[Current] # {} => ext'[Current] = 0
  BY <1>1, <1>4, <1>5, <1>6 DEF TypeOK
<1>8. TypeOK'
  BY <1>1, <1>2, <1>4, <1>5 DEF TypeOK, Calls
<1>9. CallFits' /\ ReturnsValid' /\ NoTableLeft'
  BY <1>2, <1>3 DEF CallFits, ReturnsValid, NoTableLeft, Creating
<1>10. LayoutFits' /\ HandlerFits'
  <2>1. LayoutFits'
    BY <1>2, <1>3 DEF LayoutFits, IsDataset, Creating
  <2>2. /\ call'.written = call.written /\ call'.hadCategories = call.hadCategories
        /\ catGroup => catGroup'
    BY <1>1 DEF TypeOK, Calls
  <2> QED BY <1>2, <1>3, <1>4, <1>6, <2>1, <2>2 DEF HandlerFits, Others
<1>11. ObjectsFit'
  <2>1. \A c \in Names : made'[c] # {} => "object" \in made'[c]
    BY <1>6, <1>7 DEF ObjectsFit, Others
  <2>2. \A c \in Names : "ref" \in made'[c] \/ c \in cats' => Kind[c] = "categorical"
    BY <1>1, <1>4, <1>5, <1>6 DEF ObjectsFit, Others, TypeOK
  <2>3. cats' # {} => catGroup'
    BY <1>1, <1>5 DEF ObjectsFit
  <2>4. /\ "subgroup" \in call'.grown => catGroup'
        /\ "labels" \in call'.grown => Current \in cats'
    BY <1>1, <1>2, <1>3 DEF ObjectsFit
  <2>5. call'.grown \cap {"object", "ref", "class", "members"} \subseteq made'[Current]
    BY <1>1, <1>2, <1>3, <1>4 DEF ObjectsFit, TypeOK
  <2> QED BY <1>2, <1>4, <2>1, <2>2, <2>3, <2>4, <2>5 DEF ObjectsFit
<1>12. CreateFits'
  <2>1. ASSUME call.kind = "create", call.sound, NEW c \in Range(call.names)
        PROVE  c \in Others /\ c \in Discovered' /\ Accepted(c)' /\ (IsDataset(c) => ext'[c] = 0)
    BY <1>2, <1>4, <1>6, <2>1 DEF CreateFits, LayoutFits, Accepted, Others, Discovered, Creating
  <2> QED BY <1>2, <1>3, <1>4, <1>6, <1>7, <2>1 DEF CreateFits, Creating, Others, IsDataset
<1>13. AddFits'
  <2>1. ASSUME ValidFor(Others) /\ OrderFits(Others)
        PROVE  (ValidFor(Others) /\ OrderFits(Others))'
    BY <1>2, <1>4, <1>6, <2>1 DEF ValidFor, IndexNames, OrderFits, Accepted, Others
  <2> QED BY <1>2, <1>3, <1>4, <1>7, <2>1 DEF AddFits, IsDataset
<1>14. NamesFit' /\ NamesKept'
  BY <1>2, <1>3, <1>4, <1>6 DEF NamesFit, NamesKept, column_names
<1>15. AppendFits'
  BY <1>2, <1>3 DEF AppendFits
<1> QED BY <1>8, <1>9, <1>10, <1>11, <1>12, <1>13, <1>14, <1>15

\* A column that is made: Table.validate accepts it.
LEMMA MadeAccepted ==
  ASSUME SchemaInv, pc = "columns", Due(Current) = {}
  PROVE  Current \in Names /\ Current \in Discovered /\ Accepted(Current)
<1> USE DEF SchemaInv
<1>1. Current \in Names
  BY CurrentTypes DEF CallFits
<1>2. /\ "object" \in call.grown
      /\ Kind[Current] = "categorical" => {"labels", "ref"} \subseteq call.grown
      /\ Kind[Current] = "list" => {"class", "members"} \subseteq call.grown
  BY <1>1, DueEmpty
<1>3. /\ "object" \in made[Current]
      /\ Kind[Current] = "categorical" => Current \in cats /\ "ref" \in made[Current]
      /\ Kind[Current] = "list" => {"class", "members"} \subseteq made[Current]
  BY <1>2 DEF ObjectsFit
<1>4. "ref" \in made[Current] \/ Current \in cats => Kind[Current] = "categorical"
  BY <1>1 DEF ObjectsFit
<1> QED BY <1>1, <1>3, <1>4 DEF Accepted, Discovered, Datasets, IsDataset

\* A column that is made follows the columns made before.
LEMMA ColumnMadeKeeps ==
  ASSUME SchemaInv, ColumnMade
  PROVE  SchemaInv'
<1> USE DEF SchemaInv
<1>1. /\ pc = "columns" /\ call.columns # <<>> /\ Due(Current) = {} /\ UNCHANGED file
      /\ call.kind \in {"create", "add"}
  BY DEF ColumnMade, CallFits
<1>2. Current \in Names /\ Current \in Discovered /\ Accepted(Current)
  BY <1>1, MadeAccepted
<1>3. UNCHANGED <<attrs, nrows, order, index, made, ext, catGroup, cats, Discovered, Datasets>>
  BY <1>1 DEF file, Discovered, Datasets, IsDataset
<1>4. Current = Head(call.columns) /\ call.columns \in Seq(Names) /\ call.names \in Seq(Names)
  BY DEF Current, TypeOK, Calls
<1>5. CASE call.kind = "create"
  <2>1. /\ call' = [call EXCEPT !.columns = Tail(@), !.names = Append(@, Current), !.grown = {}]
        /\ pc' = IF Len(call.columns) = 1 THEN "order" ELSE "columns"
    BY <1>5 DEF ColumnMade
  <2>2. /\ call'.kind = "create" /\ call'.grown = {} /\ call'.sound = call.sound
        /\ call'.index = call.index
        /\ call'.columns = Tail(call.columns) /\ call'.names = Append(call.names, Current)
    BY <1>5, <2>1 DEF TypeOK, Calls
  <2>3. /\ call'.columns \in Seq(Names)
        /\ Range(call.columns) = {Current} \cup Range(call'.columns)
        /\ IsInjective(call'.columns) /\ Current \notin Range(call'.columns)
        /\ Len(call.columns) = 1 <=> call'.columns = <<>>
    BY <1>1, <1>4, <1>5, <2>2, RangeTail DEF LayoutFits
  <2>4. /\ call'.names \in Seq(Names) /\ Range(call'.names) = Range(call.names) \cup {Current}
        /\ IsInjective(call'.names)
    BY <1>2, <1>4, <1>5, <2>2, <2>3, RangeAppend DEF LayoutFits
  <2>5. TypeOK'
    BY <1>3, <2>1, <2>3, <2>4 DEF TypeOK, Calls, Creating
  <2>6. CallFits' /\ ReturnsValid' /\ NoTableLeft'
    BY <2>1, <2>2, <2>3
       DEF CallFits, ReturnsValid, NoTableLeft, Creating
  <2>7. LayoutFits' /\ HandlerFits'
    <3>1. LayoutFits'
      BY <1>1, <1>5, <2>2, <2>3, <2>4 DEF LayoutFits, IsDataset, Creating
    <3>2. call'.written = call.written /\ call'.hadCategories = call.hadCategories
      BY <2>1 DEF TypeOK, Calls
    <3> QED BY <1>1, <1>3, <1>5, <2>1, <2>2, <2>4, <3>1, <3>2 DEF HandlerFits
  <2>8. ObjectsFit'
    BY <1>3, <2>2 DEF ObjectsFit
  <2>9. CreateFits'
    <3> SUFFICES ASSUME call.sound PROVE CreateFits'
      BY <2>2 DEF CreateFits
    <3>1. /\ nrows = 0 /\ Range(Marks) \subseteq attrs
          /\ "INDEX_COLUMNS" \notin attrs /\ "column-order" \notin attrs
          /\ \A c \in Range(call.names) :
               c \in Discovered /\ Accepted(c) /\ (IsDataset(c) => ext[c] = 0)
          /\ \A c \in Names : c \in Range(call.names) \/ c = Current
                                \/ (made[c] = {} /\ c \notin cats)
          /\ IsDataset(Current) /\ made[Current] # {} => ext[Current] = 0
      BY <1>1, <1>5 DEF CreateFits, Creating
    <3>2. \A c \in Range(call'.names) :
            c \in Discovered /\ Accepted(c) /\ (IsDataset(c) => ext[c] = 0)
      BY <1>2, <2>4, <3>1 DEF Discovered
    <3>3. pc' = "columns" => Current' \in Names /\ made[Current'] = {}
      <4>1. SUFFICES ASSUME pc' = "columns"
                     PROVE  Current' \in Names /\ Current' \in Range(call'.columns)
        BY <1>5, <2>3, <3>1 DEF LayoutFits
      <4>2. call'.columns # <<>>
        BY <2>1, <2>3, <4>1
      <4> QED BY <2>3, <4>2, RangeTail DEF Current
    <3> QED BY <1>3, <2>1, <2>2, <2>4, <3>1, <3>2, <3>3
            DEF CreateFits, Creating, Accepted, IsDataset
  <2>10. AddFits' /\ NamesFit' /\ NamesKept' /\ AppendFits'
    BY <2>2 DEF AddFits, NamesFit, NamesKept, AppendFits
  <2> QED BY <2>5, <2>6, <2>7, <2>8, <2>9, <2>10
<1>6. CASE call.kind = "add"
  <2>1. call' = [call EXCEPT !.grown = {}] /\ pc' = "grow"
    BY <1>6 DEF ColumnMade
  <2>2. /\ call'.kind = "add" /\ call'.columns = call.columns /\ call'.sound = call.sound
        /\ call'.listed = call.listed /\ Current' = Current
    BY <1>6, <2>1 DEF TypeOK, Calls, Current
  <2>3. TypeOK'
    BY <1>3, <2>1 DEF TypeOK, Calls
  <2>4. CallFits' /\ ObjectsFit' /\ ReturnsValid'
    BY <1>3, <1>6, <2>1, <2>2
       DEF CallFits, ObjectsFit, ReturnsValid, Creating
  <2>5. LayoutFits' /\ CreateFits' /\ HandlerFits' /\ NoTableLeft'
    BY <2>1, <2>2 DEF LayoutFits, CreateFits, HandlerFits, NoTableLeft
  <2>6. AddFits'
    BY <1>1, <1>2, <1>3, <1>6, <2>1, <2>2
       DEF AddFits, ValidFor, IndexNames, OrderFits, Accepted, Others, IsDataset
  <2>7. NamesFit' /\ NamesKept' /\ AppendFits'
    BY <1>3, <1>6, <2>1, <2>2 DEF NamesFit, NamesKept, column_names, AppendFits
  <2> QED BY <2>3, <2>4, <2>5, <2>6, <2>7
<1> QED BY <1>1, <1>5, <1>6

-----------------------------------------------------------------------------
(* Table.add_column.                                                       *)

\* The column a running add_column adds.
LEMMA AddedTypes ==
  ASSUME SchemaInv, call.kind = "add"
  PROVE  Current \in Names
<1>1. call.columns # <<>>
  BY RangeEmpty DEF SchemaInv, CallFits
<1> QED BY <1>1, CurrentTypes DEF SchemaInv

\* add_column starts from the names it finds.
LEMMA BeginAddColumnKeeps ==
  ASSUME SchemaInv, NEW c \in Names, BeginAddColumn(c)
  PROVE  SchemaInv'
<1> USE DEF SchemaInv
<1>1. /\ call' = [NoCall EXCEPT !.kind = "add", !.columns = <<c>>, !.sound = Valid,
                                !.listed = column_names]
      /\ pc' = "columns" /\ UNCHANGED file /\ c \notin Discovered
  BY DEF BeginAddColumn
<1>2. UNCHANGED <<attrs, nrows, order, index, made, ext, catGroup, cats, Discovered, Datasets>>
  BY <1>1 DEF file, Discovered, Datasets, IsDataset
<1>3. /\ call'.kind = "add" /\ call'.columns = <<c>> /\ call'.grown = {}
      /\ call'.sound = Valid /\ call'.listed = column_names /\ Current' = c
  BY <1>1 DEF NoCall, Current
<1>4. column_names \subseteq Discovered /\ Discovered \subseteq Names
  BY DEF column_names, Discovered
<1>5. TypeOK'
  <2>1. call' \in Calls
    <3>1. <<c>> \in Seq(Names) /\ Valid \in BOOLEAN
      BY DEF Valid
    <3> QED BY <1>1, <1>4, <3>1, RangeEmpty DEF Calls, NoCall
  <2> QED BY <1>1, <1>2, <2>1 DEF TypeOK, Creating
<1>6. CallFits' /\ ObjectsFit' /\ ReturnsValid'
  BY <1>1, <1>2, <1>3 DEF CallFits, ObjectsFit, ReturnsValid, Creating
<1>7. LayoutFits' /\ CreateFits' /\ HandlerFits' /\ NoTableLeft' /\ AppendFits'
  BY <1>1, <1>3 DEF LayoutFits, CreateFits, HandlerFits, NoTableLeft, AppendFits
<1>8. AddFits'
  <2> SUFFICES ASSUME Valid PROVE (ValidFor(Others) /\ OrderFits(Others)
                                     /\ (IsDataset(Current) /\ made[Current] # {} => ext[Current] = 0))'
    BY <1>1, <1>3 DEF AddFits
  <2>1. Others' = Names \ {c} /\ Discovered \cap Others' = Discovered
        /\ Datasets \cap Others' = Datasets
    BY <1>1, <1>3 DEF Others, Discovered, Datasets
  <2>2. \A d \in Names : Accepted(d)
    BY DEF Valid, Accepted, ObjectsFit
  <2>3. ValidFor(Others)' /\ OrderFits(Others)'
    BY <1>2, <2>1, <2>2 DEF Valid, ValidFor, IndexNames, OrderFits, Accepted, Others
  <2>4. IsDataset(c) => made[c] = {}
    BY <1>1 DEF Discovered, ObjectsFit
  <2> QED BY <1>2, <1>3, <2>3, <2>4 DEF IsDataset
<1>9. NamesFit' /\ NamesKept'
  BY <1>1, <1>2, <1>3, <1>4 DEF NamesFit, NamesKept, column_names
<1> QED BY <1>5, <1>6, <1>7, <1>8, <1>9

\* The new column is as long as the others before it is named.
LEMMA GrowAddedKeeps ==
  ASSUME SchemaInv, GrowAdded
  PROVE  SchemaInv'
<1> USE DEF SchemaInv
<1> DEFINE others == Datasets \ {Current}
           extents == IF others = {} THEN {nrows} ELSE {ext[d] : d \in others}
<1>1. /\ pc = "grow" /\ call.kind = "add" /\ pc' = "drop_order"
      /\ UNCHANGED <<attrs, nrows, order, index, made, catGroup, cats, call>>
  BY DEF GrowAdded, Goto
<1>2. UNCHANGED <<Discovered, Datasets, Current, Others, column_names>>
  BY <1>1 DEF Discovered, Datasets, IsDataset, Current, Others, column_names
<1>3. Current \in Names
  BY <1>1, AddedTypes
<1>4. CallFits' /\ ReturnsValid'
  BY <1>1, <1>2 DEF CallFits, ReturnsValid, Creating
<1>5. LayoutFits' /\ CreateFits' /\ HandlerFits' /\ NoTableLeft' /\ AppendFits'
  BY <1>1 DEF LayoutFits, CreateFits, HandlerFits, NoTableLeft, AppendFits
<1>6. CASE ~IsDataset(Current)
  <2>1. UNCHANGED ext
    BY <1>6 DEF GrowAdded
  <2>2. TypeOK' /\ ObjectsFit' /\ NamesFit' /\ NamesKept'
    BY <1>1, <1>2, <2>1 DEF TypeOK, ObjectsFit, NamesFit, NamesKept
  <2>3. AddFits'
    BY <1>1, <1>2, <1>6, <2>1
       DEF AddFits, ValidFor, IndexNames, OrderFits, Others, Datasets, Discovered, Accepted
  <2> QED BY <1>4, <1>5, <2>2, <2>3
<1>7. CASE IsDataset(Current)
  <2>1. PICK e \in extents : ext' = [ext EXCEPT ![Current] = IF @ < e THEN e ELSE @]
    BY <1>7 DEF GrowAdded
  <2>2. e \in Nat
    BY <2>1 DEF TypeOK, Datasets, Discovered
  <2>3. TypeOK' /\ ObjectsFit' /\ NamesFit' /\ NamesKept'
    BY <1>1, <1>2, <1>3, <2>1, <2>2 DEF TypeOK, ObjectsFit, NamesFit, NamesKept
  <2>4. AddFits'
    <3> SUFFICES ASSUME call.sound
                 PROVE  ValidFor(Names)' /\ Current \in Discovered /\ OrderFits(Others)'
      BY <1>1, <1>2 DEF AddFits
    <3>1. /\ ValidFor(Others) /\ OrderFits(Others) /\ Current \in Discovered
          /\ Accepted(Current) /\ ext[Current] = 0
      BY <1>1, <1>7 DEF AddFits, Discovered
    <3>2. e >= nrows /\ \A d \in others : ext[d] = e
      BY <2>1, <3>1 DEF ValidFor, Others, TypeOK, Datasets, Discovered
    <3>3. \A d \in Datasets : ext'[d] = e
      BY <1>3, <2>1, <2>2, <3>1, <3>2 DEF TypeOK, Datasets, Discovered
    <3>4. ValidFor(Names)'
      BY <1>1, <1>2, <3>1, <3>2, <3>3 DEF ValidFor, IndexNames, Others, Accepted, Datasets
    <3>5. OrderFits(Others)'
      BY <1>1, <1>2, <3>1 DEF OrderFits
    <3> QED BY <3>1, <3>4, <3>5
  <2> QED BY <1>4, <1>5, <2>3, <2>4
<1> QED BY <1>6, <1>7

\* While column-order is away, the names it had are kept by the call.
LEMMA DropOrderKeeps ==
  ASSUME SchemaInv, DropOrder
  PROVE  SchemaInv'
<1> USE DEF SchemaInv
<1> DEFINE names == IF "column-order" \in attrs /\ order # <<>> THEN order
                    ELSE Listing(Discovered \ {Current})
<1>1. /\ pc = "drop_order" /\ call.kind = "add" /\ pc' = "append_order"
      /\ attrs' = attrs \ {"column-order"} /\ call' = [call EXCEPT !.names = names]
      /\ UNCHANGED <<nrows, order, index, made, ext, catGroup, cats>>
  BY DEF DropOrder, CallFits
<1>2. /\ call'.kind = "add" /\ call'.columns = call.columns /\ call'.sound = call.sound
      /\ call'.listed = call.listed /\ call'.names = names
  BY <1>1 DEF TypeOK, Calls
<1>3. UNCHANGED <<Discovered, Datasets, Current, Others>>
  BY <1>1, <1>2 DEF Discovered, Datasets, IsDataset, Current, Others
<1>4. /\ Listing(Discovered \ {Current}) \in Seq(Names)
      /\ Range(Listing(Discovered \ {Current})) = Discovered \ {Current}
      /\ IsInjective(Listing(Discovered \ {Current}))
  <2>1. Discovered \ {Current} \in SUBSET Names
    BY DEF Discovered
  <2>2. IsFiniteSet(Discovered \ {Current})
    BY <2>1, SchemaAssumption, FS_Subset
  <2> QED BY <2>1, <2>2, ListingTypes, SeqMonotonic
<1>5. TypeOK'
  BY <1>1, <1>4 DEF TypeOK, Calls
<1>6. CallFits' /\ ObjectsFit' /\ ReturnsValid'
  BY <1>1, <1>2 DEF CallFits, ObjectsFit, ReturnsValid, Creating
<1>7. LayoutFits' /\ CreateFits' /\ HandlerFits' /\ NoTableLeft' /\ AppendFits'
  BY <1>1, <1>2 DEF LayoutFits, CreateFits, HandlerFits, NoTableLeft, AppendFits
<1>8. AddFits'
  <2> SUFFICES ASSUME call.sound
               PROVE  /\ ValidFor(Names)' /\ Current \in Discovered
                      /\ Range(names) = Discovered \cap Others /\ IsInjective(names)
    BY <1>1, <1>2, <1>3 DEF AddFits
  <2>1. ValidFor(Names) /\ Current \in Discovered /\ OrderFits(Others)
    BY <1>1 DEF AddFits
  <2>2. ValidFor(Names)'
    BY <1>1, <1>3, <2>1, MarksRange DEF ValidFor, IndexNames, Accepted
  <2>3. Range(names) = Discovered \cap Others /\ IsInjective(names)
    BY <1>4, <2>1 DEF OrderFits, Others, Discovered
  <2> QED BY <2>1, <2>2, <2>3
<1>9. NamesFit' /\ NamesKept'
  <2>1. call.listed \subseteq column_names /\ Current \notin call.listed
    BY <1>1 DEF NamesKept, NamesFit
  <2>2. call.listed \subseteq Range(names) /\ call.listed \subseteq Discovered
    BY <1>4, <2>1, RangeEmpty DEF column_names
  <2> QED BY <1>1, <1>2, <1>3, <2>1, <2>2 DEF NamesFit, NamesKept, column_names
<1> QED BY <1>5, <1>6, <1>7, <1>8, <1>9

\* column-order comes back with the new name.
LEMMA AppendOrderKeeps ==
  ASSUME SchemaInv, AppendOrder
  PROVE  SchemaInv'
<1> USE DEF SchemaInv
<1>1. /\ pc = "append_order" /\ call.kind = "add" /\ pc' = "return"
      /\ order' = Append(call.names, Current) /\ attrs' = attrs \cup {"column-order"}
      /\ UNCHANGED <<nrows, index, made, ext, catGroup, cats, call>>
  BY DEF AppendOrder, Leave, CallFits
<1>2. UNCHANGED <<Discovered, Datasets, Current, Others>>
  BY <1>1 DEF Discovered, Datasets, IsDataset, Current, Others
<1>3. Current \in Names /\ call.names \in Seq(Names)
  BY <1>1, AddedTypes DEF TypeOK, Calls
<1>4. /\ order' \in Seq(Names) /\ Range(order') = Range(call.names) \cup {Current}
      /\ IsInjective(call.names) /\ Current \notin Range(call.names) => IsInjective(order')
  BY <1>1, <1>3, RangeAppend
<1>5. TypeOK'
  BY <1>1, <1>4 DEF TypeOK, Attributes
<1>6. CallFits' /\ ObjectsFit'
  BY <1>1, <1>2 DEF CallFits, ObjectsFit, Creating
<1>7. LayoutFits' /\ CreateFits' /\ HandlerFits' /\ NoTableLeft' /\ AppendFits'
  BY <1>1 DEF LayoutFits, CreateFits, HandlerFits, NoTableLeft, AppendFits
<1>8. AddFits' /\ NamesFit'
  BY <1>1, <1>2 DEF AddFits, NamesFit
<1>9. NamesKept'
  BY <1>1, <1>2, <1>4 DEF NamesFit, NamesKept, column_names
<1>10. ReturnsValid'
  <2> SUFFICES ASSUME call.sound PROVE Valid'
    BY <1>1 DEF ReturnsValid
  <2>1. /\ ValidFor(Names) /\ Current \in Discovered
        /\ Range(call.names) = Discovered \cap Others /\ IsInjective(call.names)
    BY <1>1 DEF AddFits
  <2>2. Range(order') = Discovered /\ IsInjective(order')
    BY <1>4, <2>1 DEF Others, Discovered
  <2> QED BY <1>1, <1>2, <2>1, <2>2 
       DEF Valid, ValidFor, IndexNames, Accepted, Datasets, Discovered, ObjectsFit, TypeOK
<1> QED BY <1>5, <1>6, <1>7, <1>8, <1>9, <1>10

-----------------------------------------------------------------------------
(* Table.append and Table.truncate.                                        *)

\* append starts with columns that reach at least NROWS.
LEMMA BeginAppendKeeps ==
  ASSUME SchemaInv, NEW k \in 1..MaxRows, BeginAppend(k)
  PROVE  SchemaInv'
<1> USE DEF SchemaInv
<1>1. /\ call' = [NoCall EXCEPT !.kind = "append", !.n = nrows + k, !.sound = Valid]
      /\ pc' = "grow" /\ UNCHANGED file
  BY DEF BeginAppend
<1>2. UNCHANGED <<attrs, nrows, order, index, made, ext, catGroup, cats, Discovered, Datasets>>
  BY <1>1 DEF file, Discovered, Datasets, IsDataset
<1>3. /\ call'.kind = "append" /\ call'.n = nrows + k /\ call'.grown = {}
      /\ call'.sound = Valid /\ nrows + k \in Nat /\ nrows <= nrows + k
  BY <1>1, SchemaAssumption DEF NoCall, TypeOK
<1>4. TypeOK'
  <2>1. Valid \in BOOLEAN
    BY DEF Valid
  <2>2. call' \in Calls
    BY <1>1, <1>3, <2>1, RangeEmpty DEF Calls, NoCall
  <2> QED BY <1>1, <1>2, <2>2 DEF TypeOK
<1>5. CallFits' /\ ObjectsFit' /\ ReturnsValid'
  BY <1>1, <1>2, <1>3 DEF CallFits, ObjectsFit, ReturnsValid, Creating
<1>6. LayoutFits' /\ CreateFits' /\ HandlerFits' /\ NoTableLeft'
  BY <1>1, <1>3 DEF LayoutFits, CreateFits, HandlerFits, NoTableLeft
<1>7. AddFits' /\ NamesFit' /\ NamesKept'
  BY <1>3 DEF AddFits, NamesFit, NamesKept
<1>8. AppendFits'
  <2> SUFFICES ASSUME Valid PROVE AppendFits'
    BY <1>3 DEF AppendFits
  <2>1. (\A c \in Names : Accepted(c)) /\ OrderFits(Names)
    BY DEF Valid, Accepted, OrderFits, Discovered, ObjectsFit
  <2> QED BY <1>1, <1>2, <1>3, <2>1 DEF AppendFits, Valid, IndexNames, OrderFits, Accepted
<1> QED BY <1>4, <1>5, <1>6, <1>7, <1>8

\* append extends the columns one after another.
LEMMA GrowColumnKeeps ==
  ASSUME SchemaInv, NEW c \in Names, GrowColumn(c)
  PROVE  SchemaInv'
<1> USE DEF SchemaInv
<1>1. /\ pc = "grow" /\ pc' = "grow" /\ call.kind = "append" /\ c \in Datasets \ call.grown
      /\ ext' = [ext EXCEPT ![c] = Extended(ext[c])]
      /\ call' = [call EXCEPT !.grown = @ \cup {c}]
      /\ UNCHANGED <<attrs, nrows, order, index, made, catGroup, cats>>
  BY DEF GrowColumn, Extended
<1>2. UNCHANGED <<Discovered, Datasets>>
  BY <1>1 DEF Discovered, Datasets, IsDataset
<1>3. /\ call'.kind = "append" /\ call'.n = call.n /\ call'.sound = call.sound
      /\ call'.grown = call.grown \cup {c} /\ call'.columns = call.columns
  BY <1>1 DEF TypeOK, Calls
<1>4. TypeOK' /\ CallFits' /\ ObjectsFit' /\ ReturnsValid'
  BY <1>1, <1>2, <1>3
     DEF TypeOK, Calls, Extended, CallFits, ObjectsFit, ReturnsValid, Creating
<1>5. LayoutFits' /\ CreateFits' /\ HandlerFits' /\ NoTableLeft'
  BY <1>1, <1>3 DEF LayoutFits, CreateFits, HandlerFits, NoTableLeft
<1>6. AddFits' /\ NamesFit' /\ NamesKept'
  BY <1>3 DEF AddFits, NamesFit, NamesKept
<1>7. AppendFits'
  BY <1>1, <1>2, <1>3
     DEF AppendFits, Extended, TypeOK, Calls, CallFits, IndexNames, OrderFits, Accepted, Datasets,
         Discovered
<1> QED BY <1>4, <1>5, <1>6, <1>7

\* append commits a row count that every column has reached.
LEMMA CommitAppendKeeps ==
  ASSUME SchemaInv, CommitAppend
  PROVE  SchemaInv'
<1> USE DEF SchemaInv
<1>1. /\ pc = "grow" /\ pc' = "return" /\ call.kind = "append" /\ call.grown = Datasets
      /\ nrows' = call.n
      /\ UNCHANGED <<attrs, order, index, made, ext, catGroup, cats, call>>
  BY DEF CommitAppend, Leave
<1>2. UNCHANGED <<Discovered, Datasets>>
  BY <1>1 DEF Discovered, Datasets, IsDataset
<1>3. TypeOK' /\ CallFits' /\ ObjectsFit'
  BY <1>1, <1>2 DEF TypeOK, Calls, CallFits, ObjectsFit, Creating
<1>4. LayoutFits' /\ CreateFits' /\ HandlerFits' /\ NoTableLeft'
  BY <1>1 DEF LayoutFits, CreateFits, HandlerFits, NoTableLeft
<1>5. AddFits' /\ NamesFit' /\ NamesKept' /\ AppendFits'
  BY <1>1 DEF AddFits, NamesFit, NamesKept, AppendFits
<1>6. ReturnsValid'
  <2> SUFFICES ASSUME call.sound PROVE Valid'
    BY <1>1 DEF ReturnsValid
  <2> QED BY <1>1, <1>2 
       DEF AppendFits, Valid, IndexNames, OrderFits, Accepted, Datasets, Discovered, ObjectsFit,
           TypeOK
<1> QED BY <1>3, <1>4, <1>5, <1>6

\* truncate only lowers NROWS.
LEMMA TruncateKeeps ==
  ASSUME SchemaInv, NEW n \in 0..MaxRows, Truncate(n)
  PROVE  SchemaInv'
<1> USE DEF SchemaInv
<1>1. /\ n < nrows /\ nrows' = n /\ pc' = "return"
      /\ call' = [NoCall EXCEPT !.kind = "truncate", !.sound = Valid]
      /\ UNCHANGED <<attrs, order, index, made, ext, catGroup, cats>>
  BY DEF Truncate
<1>2. UNCHANGED <<Discovered, Datasets>> /\ call'.kind = "truncate" /\ call'.sound = Valid
  BY <1>1 DEF Discovered, Datasets, IsDataset, NoCall
<1>3. TypeOK'
  <2>1. Valid \in BOOLEAN /\ n \in Nat
    BY SchemaAssumption DEF Valid
  <2>2. call' \in Calls
    BY <1>1, <2>1, RangeEmpty DEF Calls, NoCall
  <2> QED BY <1>1, <2>1, <2>2 DEF TypeOK
<1>4. CallFits' /\ ObjectsFit'
  BY <1>1, <1>2 DEF CallFits, ObjectsFit, Creating
<1>5. LayoutFits' /\ CreateFits' /\ HandlerFits' /\ NoTableLeft'
  BY <1>1, <1>2 DEF LayoutFits, CreateFits, HandlerFits, NoTableLeft
<1>6. AddFits' /\ NamesFit' /\ NamesKept' /\ AppendFits'
  BY <1>2 DEF AddFits, NamesFit, NamesKept, AppendFits
<1>7. ReturnsValid'
  BY <1>1, <1>2, SchemaAssumption DEF ReturnsValid, Valid, IndexNames, TypeOK, Datasets, Discovered
<1> QED BY <1>3, <1>4, <1>5, <1>6, <1>7

-----------------------------------------------------------------------------
(* The ends of a call.                                                     *)

\* A step that fails sends create to its handler, ends the handler where it is,
\* and ends any other call.
LEMMA RaiseKeeps ==
  ASSUME SchemaInv, Raise
  PROVE  SchemaInv'
<1> USE DEF SchemaInv
<1>1. /\ UNCHANGED <<attrs, nrows, order, index, made, ext, catGroup, cats>>
      /\ pc \notin {"idle", "return", "raised"}
      /\ pc' = IF call.kind = "create" /\ pc # "rollback" THEN "rollback" ELSE "raised"
      /\ call' = [call EXCEPT !.stuck = (pc = "rollback")]
  BY DEF Raise, file, Working
<1>2. /\ call'.kind = call.kind /\ call'.columns = call.columns /\ call'.names = call.names
      /\ call'.index = call.index /\ call'.sound = call.sound /\ call'.listed = call.listed
      /\ call'.grown = call.grown /\ call'.n = call.n /\ call'.written = call.written
      /\ call'.hadCategories = call.hadCategories /\ call'.stuck = (pc = "rollback")
      /\ call' \in Calls
  BY <1>1 DEF TypeOK, Calls
<1>3. TypeOK' /\ CallFits' /\ ObjectsFit' /\ ReturnsValid'
  BY <1>1, <1>2
     DEF TypeOK, CallFits, ObjectsFit, ReturnsValid, Creating, Datasets, Discovered, IsDataset
<1>4. call.kind = "create" /\ pc' = "raised" => call'.stuck
  BY <1>1, <1>2
<1>5. NoTableLeft' /\ HandlerFits'
  BY <1>1, <1>2, <1>4 DEF NoTableLeft, HandlerFits, Current
<1>6. LayoutFits' /\ CreateFits' /\ AddFits' /\ AppendFits'
  BY <1>1, <1>2 DEF LayoutFits, CreateFits, AddFits, AppendFits, Creating, IsDataset
<1>7. NamesFit' /\ NamesKept'
  BY <1>1, <1>2 DEF NamesFit, NamesKept, Current, column_names, Discovered, IsDataset
<1> QED BY <1>3, <1>5, <1>6, <1>7

\* A call returns, or its process dies.
LEMMA EndKeeps ==
  ASSUME SchemaInv, Kill \/ Return
  PROVE  SchemaInv'
<1> USE DEF SchemaInv
<1>1. /\ UNCHANGED <<attrs, nrows, order, index, made, ext, catGroup, cats>>
      /\ pc' = "idle" /\ call' = NoCall /\ call'.kind = "none"
  BY DEF Kill, Return, file, NoCall
<1>2. TypeOK'
  <2>1. NoCall \in Calls
    BY RangeEmpty DEF NoCall, Calls
  <2> QED BY <1>1, <2>1 DEF TypeOK
<1>3. CallFits' /\ ObjectsFit' /\ ReturnsValid' /\ NoTableLeft' /\ HandlerFits'
  BY <1>1 DEF CallFits, ObjectsFit, ReturnsValid, NoTableLeft, HandlerFits, Creating
<1>4. LayoutFits' /\ CreateFits' /\ AddFits' /\ AppendFits' /\ NamesFit' /\ NamesKept'
  BY <1>1 DEF LayoutFits, CreateFits, AddFits, AppendFits, NamesFit, NamesKept
<1> QED BY <1>2, <1>3, <1>4

-----------------------------------------------------------------------------
(* The theorems.                                                           *)

\* The group is empty at first.
LEMMA SchemaInitial == Init => SchemaInv
<1> SUFFICES ASSUME Init PROVE SchemaInv
  OBVIOUS
<1>1. TypeOK
  <2>1. NoCall \in Calls
    BY RangeEmpty DEF NoCall, Calls
  <2> QED BY <2>1, RangeEmpty DEF Init, TypeOK
<1>2. CallFits /\ ObjectsFit /\ ReturnsValid /\ NoTableLeft /\ HandlerFits
  BY DEF Init, NoCall, CallFits, ObjectsFit, ReturnsValid, NoTableLeft, HandlerFits,
         Creating
<1>3. LayoutFits /\ CreateFits /\ AddFits /\ AppendFits /\ NamesFit /\ NamesKept
  BY DEF Init, NoCall, LayoutFits, CreateFits, AddFits, AppendFits, NamesFit, NamesKept
<1> QED BY <1>1, <1>2, <1>3 DEF SchemaInv

\* Every step of every call keeps the invariant.
LEMMA SchemaStep == SchemaInv /\ [Next]_vars => SchemaInv'
<1> SUFFICES ASSUME SchemaInv, [Next]_vars PROVE SchemaInv'
  OBVIOUS
<1>1. CASE BeginCreate \/ Mark \/ MakePart \/ ColumnMade \/ WriteOrder \/ WriteIndexColumns
           \/ WriteIndexName
  BY <1>1, BeginCreateKeeps, MarkKeeps, MakePartKeeps, ColumnMadeKeeps, WriteOrderKeeps,
     WriteIndexColumnsKeeps, WriteIndexNameKeeps
<1>2. CASE RollbackColumn \/ RollbackAttr \/ RollbackCategories
  BY <1>2, RollbackColumnKeeps, RollbackAttrKeeps, RollbackCategoriesKeeps
<1>3. CASE \E c \in Names : BeginAddColumn(c) \/ GrowColumn(c)
  BY <1>3, BeginAddColumnKeeps, GrowColumnKeeps
<1>4. CASE GrowAdded \/ DropOrder \/ AppendOrder
  BY <1>4, GrowAddedKeeps, DropOrderKeeps, AppendOrderKeeps
<1>5. CASE \/ \E k \in 1..MaxRows : BeginAppend(k)
           \/ \E n \in 0..MaxRows : Truncate(n)
           \/ CommitAppend
  BY <1>5, BeginAppendKeeps, TruncateKeeps, CommitAppendKeeps
<1>6. CASE Raise \/ Kill \/ Return
  BY <1>6, RaiseKeeps, EndKeeps
<1>7. CASE UNCHANGED vars
  <2>1. UNCHANGED <<attrs, nrows, order, index, made, ext, catGroup, cats, pc, call>>
    BY <1>7 DEF vars, file
  <2> QED
    BY <2>1 DEF SchemaInv, TypeOK, CallFits, LayoutFits, ObjectsFit, CreateFits, AddFits, NamesFit,
                AppendFits, HandlerFits, ReturnsValid, NoTableLeft, NamesKept, Current, Clean, IndexNames,
                ValidFor, OrderFits, Others, Accepted, Extended, Valid, column_names,
                Discovered, Datasets, IsDataset
<1> QED BY <1>1, <1>2, <1>3, <1>4, <1>5, <1>6, <1>7 DEF Next, Idle

\* The inductive invariant: what is in the group before each write, of the
\* table a call builds and of the one it found.
THEOREM SchemaInvariant == Spec => []SchemaInv
BY SchemaInitial, SchemaStep, PTL DEF Spec

\* Whatever failed or died before, and was healed or not, a call that returns
\* leaves a table Table.validate accepts if it found one (for create: a group
\* with nothing of a table in it).
THEOREM ValidTables == Spec => []ReturnsValid
BY SchemaInvariant, PTL DEF SchemaInv

\* Table.create: "a partially built table is never left behind", once the
\* handler's deletions are done; and of a group it found clean only the column
\* the call failed in cannot be made again.
THEOREM FailedCreateLeavesNoTable == Spec => []NoTableLeft
BY SchemaInvariant, PTL DEF SchemaInv

\* No step of add_column, nor its death at any point, takes a name out of the
\* column_names the call found.
THEOREM ColumnNamesKept == Spec => []NamesKept
BY SchemaInvariant, PTL DEF SchemaInv
=============================================================================
