-------------------------- MODULE TableStoreProofs --------------------------
(***************************************************************************)
(* Proofs about TableStore for every set of columns, values and indexes    *)
(* and every bound: the rows, whatever fails; what the validity tokens     *)
(* promise, for callers that heal what they interrupted; that the protocol *)
(* implements AbstractTable, when callers give every column; and, about    *)
(* DurableTable, what a power loss leaves of the rows, for any number of   *)
(* losses, and of the indexes, for one.                                    *)
(***************************************************************************)
EXTENDS DurableInvariant, TableRefinement, TLAPS

-----------------------------------------------------------------------------
(* The rows: types, locals of the running call, extents.                   *)

\* A prefix of a column is a possible index content.
LEMMA SnapshotType ==
  ASSUME TypeOK, NEW i \in Indexes, NEW n \in 0..MaxRows
  PROVE  Snapshot(i, n) \in Prefixes
<1>1. Owner[i] \in Columns
  BY ConstantsAssumption
<1>2. \A r \in 1..n : r \in Row
  BY ConstantsAssumption DEF Row
<1>3. Snapshot(i, n) \in [1..n -> Cell]
  BY <1>1, <1>2 DEF Snapshot, TypeOK
<1>4. QED
  BY <1>3 DEF Prefixes

\* The tokens ensure_generation can return are values of GENERATION or None.
LEMMA GensArithmetic ==
  /\ None \notin Gens /\ 0 \in Gens /\ Gens \subseteq Int
  /\ \A g \in Gens : g < MaxGen => g + 1 \in Gens
  /\ MaxGen \in Nat /\ MaxRows \in Nat
  BY ConstantsAssumption DEF None, Gens

\* What there is between calls is an operation, too.
LEMMA NoOpType == NoOp \in Op
  BY ConstantsAssumption DEF NoOp, Op, NoData, Cell, Row, Gens, None

\* What the locals of an operation can be.
LEMMA OpFields ==
  ASSUME TypeOK
  PROVE  /\ op.n \in 0..MaxRows /\ op.g \in Gens \cup {None}
         /\ op.maintain \in BOOLEAN /\ op.data \in [Columns -> [Row -> Cell]]
         /\ op.given \in SUBSET Columns
  BY DEF TypeOK, Op

\* GENERATION stays within its bound when a mutation bumps it.
LEMMA NextGeneration ==
  ASSUME TypeOK, LocalsFit, GenerationFits
  PROVE  /\ pc \in Mutating /\ op.g # None => op.g + 1 \in Gens
         /\ pc = "maintain" => op.g # None
  BY OpFields, GensArithmetic DEF LocalsFit, GenerationFits

\* The object in hand is a column while columns are written, else an index.
LEMMA CurType ==
  ASSUME TypeOK, LocalsFit
  PROVE  /\ pc = "write" => cur \in Columns
         /\ pc \in Rewriting \cup Building \cup (Refreshing \ {"refresh"}) => cur \in Indexes
  BY DEF TypeOK, LocalsFit, Linked, Extending, Rewriting, Building, Refreshing

\* ensure_generation returns a token, and a repaired one is above every token
\* an index of the table carries.
LEMMA EnsuredGeneration ==
  ASSUME TypeOK, NEW g \in Gens \cup {None}, ensure_generation(g)
  PROVE  /\ g \in Gens
         /\ form = "uint64" => g = gen
         /\ form # "uint64" => \A i \in Kinded : sg[i] < g
<1> USE GensArithmetic DEF TypeOK
<1> DEFINE floors == {IF form = "malformed" THEN gen ELSE 0} \cup {sg[i] : i \in Kinded}
<1>1. CASE form = "uint64"
  BY <1>1 DEF ensure_generation
<1>2. CASE form = "absent" /\ Kinded = {}
  BY <1>2 DEF ensure_generation, Kinded
<1>3. CASE form # "uint64" /\ ~(form = "absent" /\ Kinded = {})
  <2>1. \A f \in floors : f <= g - 1
    BY <1>3 DEF ensure_generation
  <2>2. PICK f \in floors : f \in Gens
    OBVIOUS
  <2> HIDE DEF floors
  <2>3. \A x \in Gens \cup {None} : x \in Int
    BY DEF None
  <2>4. ASSUME NEW i \in Kinded
        PROVE  sg[i] < g
    <3>1. sg[i] \in floors
      BY DEF floors
    <3>2. sg[i] \in Gens \cup {None}
      BY DEF Kinded
    <3>3. sg[i] <= g - 1
      BY <2>1, <3>1
    <3>4. sg[i] \in Int /\ g \in Int
      BY <2>3, <3>2
    <3>5. QED
      BY <3>3, <3>4
  <2>5. f <= g - 1 /\ f \in Nat
    BY <2>1, <2>2 DEF Gens
  <2>6. g \in Gens
    BY <2>3, <2>5 DEF Gens, None
  <2>7. QED
    BY <1>3, <2>4, <2>6
<1>4. QED
  BY <1>1, <1>2, <1>3

\* Every step keeps the types.
LEMMA TypeStep ==
  ASSUME TypeOK, LocalsFit, GenerationFits, [Next]_vars
  PROVE  TypeOK'
<1> USE ConstantsAssumption, GensArithmetic, NoOpType, OpFields, CurType, NextGeneration
<1>1. CASE Begin
  <2>1. PICK g \in Gens \cup {None} :
          \/ CallAppend(g)
          \/ \E n \in 0..MaxRows, m \in BOOLEAN : BeginTruncate(n, m, g)
          \/ \E i \in Indexes : BeginBuild(i, g)
          \/ BeginRefresh(g)
    BY <1>1 DEF Begin
  <2>2. CASE CallAppend(g)
    <3>1. PICK given \in SUBSET Columns, k \in 1..(MaxRows - nrows), m \in BOOLEAN :
            \E data \in Requests(given, k) : BeginAppend(given, k, data, m, g)
      BY <2>2 DEF CallAppend
    <3>2. PICK data \in Requests(given, k) : BeginAppend(given, k, data, m, g)
      BY <3>1
    <3>3. [c \in Columns |-> [r \in Row |->
             IF c \in given /\ r \in (nrows + 1)..(nrows + k)
             THEN data[c][r - nrows] ELSE Fill]] \in [Columns -> [Row -> Cell]]
      <4> SUFFICES ASSUME NEW c \in Columns, NEW r \in Row,
                          c \in given, r \in (nrows + 1)..(nrows + k)
                   PROVE  data[c][r - nrows] \in Cell
        BY DEF Cell
      <4>1. r - nrows \in 1..k
        BY DEF TypeOK, Row
      <4>2. QED
        BY <4>1 DEF Requests
    <3>4. nrows + k \in 0..MaxRows
      BY DEF TypeOK
    <3>5. op' \in Op
      BY <3>2, <3>3, <3>4 DEF BeginAppend, Op
    <3>6. QED
      BY <3>2, <3>5 DEF BeginAppend, TypeOK, SetGeneration, indexVars, Phase
  <2>3. ASSUME NEW n \in 0..MaxRows, NEW m \in BOOLEAN, BeginTruncate(n, m, g)
        PROVE  TypeOK'
    BY <2>3 DEF BeginTruncate, TypeOK, SetGeneration, indexVars, Phase, Op, NoOp
  <2>4. ASSUME NEW i \in Indexes, BeginBuild(i, g)
        PROVE  TypeOK'
    <3>1. CASE status[i] = "none"
      <4>1. op' = [NoOp EXCEPT !.kind = "build", !.n = nrows, !.g = g]
        BY <2>4, <3>1 DEF BeginBuild
      <4>2. op' \in Op
        BY <4>1 DEF TypeOK, Op, NoOp
      <4>3. QED
        BY <4>2, <2>4, <3>1 DEF BeginBuild, TypeOK, SetGeneration, indexVars, Phase
    <3>2. CASE status[i] # "none"
      BY <2>4, <3>2 DEF BeginBuild, TypeOK, SetGeneration, indexVars, localVars
    <3>3. QED
      BY <3>1, <3>2
  <2>5. CASE BeginRefresh(g)
    BY <2>5 DEF BeginRefresh, TypeOK, SetGeneration, indexVars, Phase, Op, NoOp, Linked
  <2>6. QED
    BY <2>1, <2>2, <2>3, <2>4, <2>5
<1>2. CASE Mutate
  <2>1. ASSUME NEW c \in Columns, extend_to(c)
        PROVE  TypeOK'
    BY <2>1 DEF extend_to, TypeOK, tableVars, indexVars, Goto, Phase
  <2>2. CASE WriteColumn
    BY <2>2 DEF WriteColumn, WriteRows, TypeOK, tableVars, indexVars, Goto, Phase
  <2>3. CASE FlushColumns
    BY <2>3 DEF FlushColumns, TypeOK, tableVars, indexVars, Goto, Phase
  <2>4. ASSUME NEW g \in Gens \cup {None}, StartStep4(g)
        PROVE  TypeOK'
    BY <2>4 DEF StartStep4, Op, SetGeneration, Linked, TypeOK, tableVars, indexVars, Goto, Phase
  <2>5. ASSUME NEW i \in Indexes, MaintainGeneration(i)
        PROVE  TypeOK'
    BY <2>5 DEF MaintainGeneration, Mutating, Maintaining, TypeOK, tableVars, indexVars, Goto, Phase
  <2>6. CASE MaintainNrows
    BY <2>6 DEF MaintainNrows, Rewriting, TypeOK, tableVars, indexVars, Goto, Phase
  <2>7. CASE MaintainTear
    BY <2>7 DEF MaintainTear, Rewriting, TypeOK, tableVars, indexVars, Goto, Phase
  <2>8. CASE MaintainContent
    BY <2>8, SnapshotType DEF MaintainContent, Rewriting, Building, Refreshing, TypeOK, tableVars, indexVars, Goto, Phase
  <2>9. CASE FlushIndexes
    BY <2>9 DEF FlushIndexes, TypeOK, tableVars, indexVars, Goto, Phase
  <2>10. CASE BumpGeneration
    BY <2>10 DEF BumpGeneration, Mutating, Maintaining, TypeOK, tableVars, indexVars, Goto, Phase
  <2>11. CASE CommitRows
    BY <2>11 DEF CommitRows, TypeOK, tableVars, indexVars, Goto, Phase
  <2>12. QED
    BY <1>2, <2>1, <2>2, <2>3, <2>4, <2>5, <2>6, <2>7, <2>8, <2>9, <2>10, <2>11 DEF Mutate
<1>3. CASE Build
  <2>1. CASE BuildCreate
    BY <2>1 DEF BuildCreate, Building, TypeOK, tableVars, indexVars, Goto, Phase
  <2>2. CASE BuildContent
    BY <2>2, SnapshotType DEF BuildContent, Rewriting, Building, Refreshing, TypeOK, tableVars, indexVars, Goto, Phase
  <2>3. CASE BuildKind
    BY <2>3 DEF BuildKind, Building, TypeOK, tableVars, indexVars, Goto, Phase
  <2>4. CASE BuildGeneration
    BY <2>4 DEF BuildGeneration, Building, TypeOK, tableVars, indexVars, Goto, Phase
  <2>5. CASE BuildNrows
    BY <2>5 DEF BuildNrows, Building, TypeOK, tableVars, indexVars, Goto, Phase
  <2>6. CASE BuildUnlink
    BY <2>6 DEF BuildUnlink, Linked, Building, TypeOK, tableVars, indexVars, Goto, Phase
  <2>7. CASE BuildLink
    BY <2>7 DEF BuildLink, TypeOK, tableVars, indexVars, Goto, Phase
  <2>8. QED
    BY <1>3, <2>1, <2>2, <2>3, <2>4, <2>5, <2>6, <2>7 DEF Build
<1>4. CASE Refresh
  <2>1. ASSUME NEW i \in Indexes, RefreshSkip(i)
        PROVE  TypeOK'
    BY <2>1 DEF RefreshSkip, TypeOK, tableVars, indexVars, Goto, Phase
  <2>2. ASSUME NEW i \in Indexes, RefreshTear(i)
        PROVE  TypeOK'
    BY <2>2 DEF RefreshTear, TypeOK, tableVars, indexVars, Goto, Phase
  <2>3. CASE RefreshContent
    BY <2>3, SnapshotType DEF RefreshContent, Rewriting, Building, Refreshing, TypeOK, tableVars, indexVars, Goto, Phase
  <2>4. CASE RefreshGeneration
    BY <2>4 DEF RefreshGeneration, TypeOK, tableVars, indexVars, Goto, Phase
  <2>5. CASE RefreshNrows
    BY <2>5 DEF RefreshNrows, TypeOK, tableVars, indexVars, Goto, Phase
  <2>6. CASE FinishRefresh
    BY <2>6 DEF FinishRefresh, Return, TypeOK, tableVars, indexVars, Goto, Phase
  <2>7. QED
    BY <1>4, <2>1, <2>2, <2>3, <2>4, <2>5, <2>6 DEF Refresh
<1>5. CASE FlushFile
  BY <1>5 DEF FlushFile, Return, TypeOK, tableVars, indexVars, Phase
<1>6. CASE Fault
  <2>1. ASSUME NEW rows \in SUBSET ((nrows + 1)..op.n), pc = "write", WriteRows(rows)
        PROVE  cell' \in [Columns -> [Row -> Cell]]
    BY <2>1 DEF WriteRows, TypeOK
  <2>2. CASE Kill
    BY <2>1, <2>2 DEF Kill, Stopped, PartialRows, Return, TypeOK, indexVars, Phase
  <2>3. CASE Raise
    <3>1. cell' \in [Columns -> [Row -> Cell]]
      BY <2>1, <2>3 DEF Raise, PartialRows, TypeOK
    <3>2. /\ status' \in [Indexes -> {"none", "bare", "kinded", "linked"}]
          /\ sg' \in [Indexes -> Gens \cup {None}]
          /\ sn' \in [Indexes -> 0..MaxRows \cup {None}]
          /\ content' \in [Indexes -> Prefixes \cup {Torn}]
      <4>1. CASE op.kind = "build" /\ pc # "flush"
        <5>1. BuildRollback
          BY <2>3, <4>1 DEF Raise
        <5>2. status' \in [Indexes -> {"none", "bare", "kinded", "linked"}]
          BY <5>1 DEF BuildRollback, TypeOK
        <5>3. sg' \in [Indexes -> Gens \cup {None}]
          BY <5>1 DEF BuildRollback, TypeOK
        <5>4. sn' \in [Indexes -> 0..MaxRows \cup {None}]
          BY <5>1 DEF BuildRollback, TypeOK
        <5>5. content' \in [Indexes -> Prefixes \cup {Torn}]
          BY <5>1 DEF BuildRollback, TypeOK
        <5>6. QED
          BY <5>2, <5>3, <5>4, <5>5
      <4>2. CASE ~(op.kind = "build" /\ pc # "flush")
        BY <2>3, <4>2 DEF Raise, TypeOK, indexVars
      <4>3. QED
        BY <4>1, <4>2
    <3>3. QED
      BY <3>1, <3>2, <2>3 DEF Raise, Stopped, Return, TypeOK, Phase
  <2>4. CASE RepairKilled
    BY <2>4 DEF RepairKilled, TypeOK, indexVars, localVars
  <2>5. QED
    BY <1>6, <2>2, <2>3, <2>4 DEF Fault
<1>7. CASE OtherTool
  <2>1. ASSUME NEW i \in Foreign, ForeignRebuild(i)
        PROVE  TypeOK'
    BY <2>1, SnapshotType DEF ForeignRebuild, TypeOK, tableVars, localVars
  <2>2. ASSUME NEW g \in Gens, ForeignRetype(g)
        PROVE  TypeOK'
    BY <2>2 DEF ForeignRetype, TypeOK, indexVars, localVars
  <2>3. QED
    BY <1>7, <2>1, <2>2 DEF OtherTool
<1>8. CASE Idle \/ UNCHANGED vars
  BY <1>8 DEF Idle, vars, tableVars, indexVars, localVars, TypeOK
<1>9. QED
  BY <1>1, <1>2, <1>3, <1>4, <1>5, <1>6, <1>7, <1>8 DEF Next, Step


\* Every step leaves the locals of the next one in order.
LEMMA LocalsStep ==
  ASSUME TypeOK, LocalsFit, GenerationFits, [Next]_vars
  PROVE  LocalsFit'
<1> USE ConstantsAssumption, GensArithmetic, OpFields, CurType, NextGeneration DEF Extending, Rewriting, Maintaining, Mutating, Building, Refreshing
<1>1. CASE Begin
  <2>1. PICK g \in Gens \cup {None} :
          \/ CallAppend(g)
          \/ \E n \in 0..MaxRows, m \in BOOLEAN : BeginTruncate(n, m, g)
          \/ \E i \in Indexes : BeginBuild(i, g)
          \/ BeginRefresh(g)
    BY <1>1 DEF Begin
  <2>2. ASSUME NEW given \in SUBSET Columns, NEW k \in 1..(MaxRows - nrows),
               NEW m \in BOOLEAN, NEW data \in Requests(given, k),
               BeginAppend(given, k, data, m, g)
        PROVE  LocalsFit'
    BY <2>2 DEF BeginAppend, SetGeneration, LocalsFit, Linked, Goto, TypeOK, tableVars, indexVars
  <2>3. ASSUME NEW n \in 0..MaxRows, NEW m \in BOOLEAN, BeginTruncate(n, m, g)
        PROVE  LocalsFit'
    BY <2>3 DEF BeginTruncate, SetGeneration, NoOp, LocalsFit, Linked, Goto, TypeOK, tableVars, indexVars
  <2>4. ASSUME NEW i \in Indexes, BeginBuild(i, g)
        PROVE  LocalsFit'
    <3>1. CASE status[i] = "none"
      BY <2>4, <3>1, EnsuredGeneration DEF BeginBuild, SetGeneration, NoOp, LocalsFit, tableVars, indexVars
    <3>2. CASE status[i] # "none"
      BY <2>4, <3>2 DEF BeginBuild, localVars, LocalsFit
    <3>3. QED
      BY <3>1, <3>2
  <2>5. CASE BeginRefresh(g)
    BY <2>5, EnsuredGeneration DEF BeginRefresh, SetGeneration, NoOp, LocalsFit, Linked, Goto, TypeOK, tableVars, indexVars
  <2>6. CASE CallAppend(g)
    <3>1. PICK given \in SUBSET Columns, k \in 1..(MaxRows - nrows), m \in BOOLEAN :
            \E data \in Requests(given, k) : BeginAppend(given, k, data, m, g)
      BY <2>6 DEF CallAppend
    <3>2. PICK data \in Requests(given, k) : BeginAppend(given, k, data, m, g)
      BY <3>1
    <3>3. QED
      BY <3>2, <2>2
  <2>7. QED
    BY <2>1, <2>3, <2>4, <2>5, <2>6
<1>2. CASE Mutate
  <2>1. ASSUME NEW c \in Columns, extend_to(c)
        PROVE  LocalsFit'
    BY <2>1 DEF extend_to, LocalsFit, Linked, Goto, TypeOK, tableVars, indexVars
  <2>2. CASE WriteColumn
    BY <2>2 DEF WriteColumn, WriteRows, LocalsFit, Linked, Goto, TypeOK, tableVars, indexVars
  <2>3. CASE FlushColumns
    BY <2>3 DEF FlushColumns, LocalsFit, Linked, Goto, TypeOK, tableVars, indexVars
  <2>4. ASSUME NEW g \in Gens \cup {None}, StartStep4(g)
        PROVE  LocalsFit'
    BY <2>4 DEF StartStep4, SetGeneration, LocalsFit, Linked, Goto, TypeOK, tableVars, indexVars
  <2>5. ASSUME NEW i \in Indexes, MaintainGeneration(i)
        PROVE  LocalsFit'
    BY <2>5 DEF MaintainGeneration, LocalsFit, Linked, Goto, TypeOK, tableVars, indexVars
  <2>6. CASE MaintainNrows
    BY <2>6 DEF MaintainNrows, LocalsFit, Linked, Goto, TypeOK, tableVars, indexVars
  <2>7. CASE MaintainTear
    BY <2>7 DEF MaintainTear, LocalsFit, Linked, Goto, TypeOK, tableVars, indexVars
  <2>8. CASE MaintainContent
    BY <2>8 DEF MaintainContent, LocalsFit, Linked, Goto, TypeOK, tableVars, indexVars
  <2>9. CASE FlushIndexes
    BY <2>9 DEF FlushIndexes, GenerationFits, LocalsFit, Linked, Goto, TypeOK, tableVars, indexVars
  <2>10. CASE BumpGeneration
    BY <2>10 DEF BumpGeneration, GenerationFits, LocalsFit, Linked, Goto, TypeOK, tableVars, indexVars
  <2>11. CASE CommitRows
    BY <2>11 DEF CommitRows, LocalsFit, Linked, Goto, TypeOK, tableVars, indexVars
  <2>12. QED
    BY <1>2, <2>1, <2>2, <2>3, <2>4, <2>5, <2>6, <2>7, <2>8, <2>9, <2>10, <2>11 DEF Mutate
<1>3. CASE Build
  <2>1. CASE BuildCreate
    BY <2>1 DEF BuildCreate, LocalsFit, Linked, Goto, TypeOK, tableVars, indexVars
  <2>2. CASE BuildContent
    BY <2>2 DEF BuildContent, LocalsFit, Linked, Goto, TypeOK, tableVars, indexVars
  <2>3. CASE BuildKind
    BY <2>3 DEF BuildKind, LocalsFit, Linked, Goto, TypeOK, tableVars, indexVars
  <2>4. CASE BuildGeneration
    BY <2>4 DEF BuildGeneration, LocalsFit, Linked, Goto, TypeOK, tableVars, indexVars
  <2>5. CASE BuildNrows
    BY <2>5 DEF BuildNrows, LocalsFit, Linked, Goto, TypeOK, tableVars, indexVars
  <2>6. CASE BuildUnlink
    BY <2>6 DEF BuildUnlink, LocalsFit, Linked, Goto, TypeOK, tableVars, indexVars
  <2>7. CASE BuildLink
    BY <2>7 DEF BuildLink, LocalsFit, Linked, Goto, TypeOK, tableVars, indexVars
  <2>8. QED
    BY <1>3, <2>1, <2>2, <2>3, <2>4, <2>5, <2>6, <2>7 DEF Build
<1>4. CASE Refresh
  <2>1. ASSUME NEW i \in Indexes, RefreshSkip(i)
        PROVE  LocalsFit'
    BY <2>1 DEF RefreshSkip, LocalsFit, Linked, Goto, TypeOK, tableVars, indexVars
  <2>2. ASSUME NEW i \in Indexes, RefreshTear(i)
        PROVE  LocalsFit'
    BY <2>2 DEF RefreshTear, LocalsFit, Linked, Goto, TypeOK, tableVars, indexVars
  <2>3. CASE RefreshContent
    BY <2>3 DEF RefreshContent, LocalsFit, Linked, Goto, TypeOK, tableVars, indexVars
  <2>4. CASE RefreshGeneration
    BY <2>4 DEF RefreshGeneration, LocalsFit, Linked, Goto, TypeOK, tableVars, indexVars
  <2>5. CASE RefreshNrows
    BY <2>5 DEF RefreshNrows, LocalsFit, Linked, Goto, TypeOK, tableVars, indexVars
  <2>6. CASE FinishRefresh
    BY <2>6 DEF FinishRefresh, Return, LocalsFit, Linked, Goto, TypeOK, tableVars, indexVars
  <2>7. QED
    BY <1>4, <2>1, <2>2, <2>3, <2>4, <2>5, <2>6 DEF Refresh
<1>5. CASE FlushFile
  BY <1>5 DEF FlushFile, Return, LocalsFit, Linked, Goto, TypeOK, tableVars, indexVars
<1>6. CASE Fault
  <2>1. CASE Kill
    BY <2>1 DEF Kill, Stopped, PartialRows, WriteRows, Return, LocalsFit, Linked, Goto, TypeOK, tableVars, indexVars
  <2>2. CASE Raise
    BY <2>2 DEF Raise, Stopped, PartialRows, WriteRows, Return, BuildRollback, LocalsFit, Linked, Goto, TypeOK, tableVars, indexVars
  <2>3. CASE RepairKilled
    BY <2>3 DEF RepairKilled, localVars, LocalsFit, Linked, Goto, TypeOK, tableVars, indexVars
  <2>4. QED
    BY <1>6, <2>1, <2>2, <2>3 DEF Fault
<1>7. CASE OtherTool
  <2>1. ASSUME NEW i \in Foreign, ForeignRebuild(i)
        PROVE  LocalsFit'
    BY <2>1 DEF ForeignRebuild, localVars, LocalsFit, Linked, Goto, TypeOK, tableVars, indexVars
  <2>2. ASSUME NEW g \in Gens, ForeignRetype(g)
        PROVE  LocalsFit'
    BY <2>2 DEF ForeignRetype, localVars, LocalsFit, Linked, Goto, TypeOK, tableVars, indexVars
  <2>3. QED
    BY <1>7, <2>1, <2>2 DEF OtherTool
<1>8. CASE Idle \/ UNCHANGED vars
  BY <1>8 DEF Idle, vars, localVars, LocalsFit, Linked, Goto, TypeOK, tableVars, indexVars
<1>9. QED
  BY <1>1, <1>2, <1>3, <1>4, <1>5, <1>6, <1>7, <1>8 DEF Next, Step

\* Every step keeps GENERATION where the running mutation expects it.
LEMMA GenerationStep ==
  ASSUME TypeOK, LocalsFit, GenerationFits, [Next]_vars
  PROVE  GenerationFits'
<1> USE GensArithmetic, OpFields DEF Extending, Rewriting, Maintaining, Mutating, Building, Refreshing
<1>1. CASE Begin
  <2>1. PICK g \in Gens \cup {None} :
          \/ CallAppend(g)
          \/ \E n \in 0..MaxRows, m \in BOOLEAN : BeginTruncate(n, m, g)
          \/ \E i \in Indexes : BeginBuild(i, g)
          \/ BeginRefresh(g)
    BY <1>1 DEF Begin
  <2>2. ASSUME NEW given \in SUBSET Columns, NEW k \in 1..(MaxRows - nrows),
               NEW m \in BOOLEAN, NEW data \in Requests(given, k),
               BeginAppend(given, k, data, m, g)
        PROVE  GenerationFits'
    BY <2>2, EnsuredGeneration DEF BeginAppend, SetGeneration, mutation_generation, GenerationFits, Goto, TypeOK, tableVars, indexVars
  <2>3. ASSUME NEW n \in 0..MaxRows, NEW m \in BOOLEAN, BeginTruncate(n, m, g)
        PROVE  GenerationFits'
    BY <2>3, EnsuredGeneration DEF BeginTruncate, SetGeneration, NoOp, mutation_generation, GenerationFits, Goto, TypeOK, tableVars, indexVars
  <2>4. ASSUME NEW i \in Indexes, BeginBuild(i, g)
        PROVE  GenerationFits'
    BY <2>4, EnsuredGeneration DEF BeginBuild, SetGeneration, NoOp, localVars, GenerationFits, Goto, TypeOK, tableVars, indexVars
  <2>5. CASE BeginRefresh(g)
    BY <2>5, EnsuredGeneration DEF BeginRefresh, SetGeneration, NoOp, GenerationFits, Goto, TypeOK, tableVars, indexVars
  <2>6. CASE CallAppend(g)
    <3>1. PICK given \in SUBSET Columns, k \in 1..(MaxRows - nrows), m \in BOOLEAN :
            \E data \in Requests(given, k) : BeginAppend(given, k, data, m, g)
      BY <2>6 DEF CallAppend
    <3>2. PICK data \in Requests(given, k) : BeginAppend(given, k, data, m, g)
      BY <3>1
    <3>3. QED
      BY <3>2, <2>2
  <2>7. QED
    BY <2>1, <2>3, <2>4, <2>5, <2>6
<1>2. CASE Mutate
  <2>1. ASSUME NEW c \in Columns, extend_to(c)
        PROVE  GenerationFits'
    BY <2>1 DEF extend_to, GenerationFits, Goto, TypeOK, tableVars, indexVars
  <2>2. CASE WriteColumn
    BY <2>2 DEF WriteColumn, WriteRows, GenerationFits, Goto, TypeOK, tableVars, indexVars
  <2>3. CASE FlushColumns
    BY <2>3 DEF FlushColumns, GenerationFits, Goto, TypeOK, tableVars, indexVars
  <2>4. ASSUME NEW g \in Gens \cup {None}, StartStep4(g)
        PROVE  GenerationFits'
    BY <2>4, EnsuredGeneration DEF StartStep4, SetGeneration, GenerationFits, Goto, TypeOK, tableVars, indexVars
  <2>5. ASSUME NEW i \in Indexes, MaintainGeneration(i)
        PROVE  GenerationFits'
    BY <2>5 DEF MaintainGeneration, GenerationFits, Goto, TypeOK, tableVars, indexVars
  <2>6. CASE MaintainNrows
    BY <2>6 DEF MaintainNrows, GenerationFits, Goto, TypeOK, tableVars, indexVars
  <2>7. CASE MaintainTear
    BY <2>7 DEF MaintainTear, GenerationFits, Goto, TypeOK, tableVars, indexVars
  <2>8. CASE MaintainContent
    BY <2>8 DEF MaintainContent, GenerationFits, Goto, TypeOK, tableVars, indexVars
  <2>9. CASE FlushIndexes
    BY <2>9 DEF FlushIndexes, GenerationFits, Goto, TypeOK, tableVars, indexVars
  <2>10. CASE BumpGeneration
    BY <2>10 DEF BumpGeneration, GenerationFits, Goto, TypeOK, tableVars, indexVars
  <2>11. CASE CommitRows
    BY <2>11 DEF CommitRows, GenerationFits, Goto, TypeOK, tableVars, indexVars
  <2>12. QED
    BY <1>2, <2>1, <2>2, <2>3, <2>4, <2>5, <2>6, <2>7, <2>8, <2>9, <2>10, <2>11 DEF Mutate
<1>3. CASE Build
  <2>1. CASE BuildCreate
    BY <2>1 DEF BuildCreate, GenerationFits, Goto, TypeOK, tableVars, indexVars
  <2>2. CASE BuildContent
    BY <2>2 DEF BuildContent, GenerationFits, Goto, TypeOK, tableVars, indexVars
  <2>3. CASE BuildKind
    BY <2>3 DEF BuildKind, GenerationFits, Goto, TypeOK, tableVars, indexVars
  <2>4. CASE BuildGeneration
    BY <2>4 DEF BuildGeneration, GenerationFits, Goto, TypeOK, tableVars, indexVars
  <2>5. CASE BuildNrows
    BY <2>5 DEF BuildNrows, GenerationFits, Goto, TypeOK, tableVars, indexVars
  <2>6. CASE BuildUnlink
    BY <2>6 DEF BuildUnlink, GenerationFits, Goto, TypeOK, tableVars, indexVars
  <2>7. CASE BuildLink
    BY <2>7 DEF BuildLink, GenerationFits, Goto, TypeOK, tableVars, indexVars
  <2>8. QED
    BY <1>3, <2>1, <2>2, <2>3, <2>4, <2>5, <2>6, <2>7 DEF Build
<1>4. CASE Refresh
  <2>1. ASSUME NEW i \in Indexes, RefreshSkip(i)
        PROVE  GenerationFits'
    BY <2>1 DEF RefreshSkip, GenerationFits, Goto, TypeOK, tableVars, indexVars
  <2>2. ASSUME NEW i \in Indexes, RefreshTear(i)
        PROVE  GenerationFits'
    BY <2>2 DEF RefreshTear, GenerationFits, Goto, TypeOK, tableVars, indexVars
  <2>3. CASE RefreshContent
    BY <2>3 DEF RefreshContent, GenerationFits, Goto, TypeOK, tableVars, indexVars
  <2>4. CASE RefreshGeneration
    BY <2>4 DEF RefreshGeneration, GenerationFits, Goto, TypeOK, tableVars, indexVars
  <2>5. CASE RefreshNrows
    BY <2>5 DEF RefreshNrows, GenerationFits, Goto, TypeOK, tableVars, indexVars
  <2>6. CASE FinishRefresh
    BY <2>6 DEF FinishRefresh, Return, GenerationFits, Goto, TypeOK, tableVars, indexVars
  <2>7. QED
    BY <1>4, <2>1, <2>2, <2>3, <2>4, <2>5, <2>6 DEF Refresh
<1>5. CASE FlushFile
  BY <1>5 DEF FlushFile, Return, GenerationFits, Goto, TypeOK, tableVars, indexVars
<1>6. CASE Fault
  <2>1. CASE Kill
    BY <2>1 DEF Kill, Stopped, PartialRows, WriteRows, Return, GenerationFits, Goto, TypeOK, tableVars, indexVars
  <2>2. CASE Raise
    BY <2>2 DEF Raise, Stopped, PartialRows, WriteRows, Return, BuildRollback, GenerationFits, Goto, TypeOK, tableVars, indexVars
  <2>3. CASE RepairKilled
    BY <2>3 DEF RepairKilled, localVars, GenerationFits, Goto, TypeOK, tableVars, indexVars
  <2>4. QED
    BY <1>6, <2>1, <2>2, <2>3 DEF Fault
<1>7. CASE OtherTool
  <2>1. ASSUME NEW i \in Foreign, ForeignRebuild(i)
        PROVE  GenerationFits'
    BY <2>1 DEF ForeignRebuild, localVars, GenerationFits, Goto, TypeOK, tableVars, indexVars
  <2>2. ASSUME NEW g \in Gens, ForeignRetype(g)
        PROVE  GenerationFits'
    BY <2>2 DEF ForeignRetype, localVars, GenerationFits, Goto, TypeOK, tableVars, indexVars
  <2>3. QED
    BY <1>7, <2>1, <2>2 DEF OtherTool
<1>8. CASE Idle \/ UNCHANGED vars
  BY <1>8 DEF Idle, vars, localVars, GenerationFits, Goto, TypeOK, tableVars, indexVars
<1>9. QED
  BY <1>1, <1>2, <1>3, <1>4, <1>5, <1>6, <1>7, <1>8 DEF Next, Step

\* Every step keeps the columns at least as long as NROWS says.
LEMMA ExtentsStep ==
  ASSUME TypeOK, LocalsFit, GenerationFits, ExtentsFit, [Next]_vars
  PROVE  ExtentsFit'
<1> USE GensArithmetic, OpFields, CurType DEF Extending, Rewriting, Maintaining, Mutating, Building, Refreshing
<1>1. CASE Begin
  <2>1. PICK g \in Gens \cup {None} :
          \/ CallAppend(g)
          \/ \E n \in 0..MaxRows, m \in BOOLEAN : BeginTruncate(n, m, g)
          \/ \E i \in Indexes : BeginBuild(i, g)
          \/ BeginRefresh(g)
    BY <1>1 DEF Begin
  <2>2. ASSUME NEW given \in SUBSET Columns, NEW k \in 1..(MaxRows - nrows),
               NEW m \in BOOLEAN, NEW data \in Requests(given, k),
               BeginAppend(given, k, data, m, g)
        PROVE  ExtentsFit'
    BY <2>2 DEF BeginAppend, SetGeneration, ExtentsFit, RowsCovered, LocalsFit, Goto, TypeOK, tableVars, indexVars
  <2>3. ASSUME NEW n \in 0..MaxRows, NEW m \in BOOLEAN, BeginTruncate(n, m, g)
        PROVE  ExtentsFit'
    BY <2>3 DEF BeginTruncate, SetGeneration, NoOp, ExtentsFit, RowsCovered, LocalsFit, Goto, TypeOK, tableVars, indexVars
  <2>4. ASSUME NEW i \in Indexes, BeginBuild(i, g)
        PROVE  ExtentsFit'
    BY <2>4 DEF BeginBuild, SetGeneration, NoOp, localVars, ExtentsFit, RowsCovered, LocalsFit, Goto, TypeOK, tableVars, indexVars
  <2>5. CASE BeginRefresh(g)
    BY <2>5 DEF BeginRefresh, SetGeneration, NoOp, ExtentsFit, RowsCovered, LocalsFit, Goto, TypeOK, tableVars, indexVars
  <2>6. CASE CallAppend(g)
    <3>1. PICK given \in SUBSET Columns, k \in 1..(MaxRows - nrows), m \in BOOLEAN :
            \E data \in Requests(given, k) : BeginAppend(given, k, data, m, g)
      BY <2>6 DEF CallAppend
    <3>2. PICK data \in Requests(given, k) : BeginAppend(given, k, data, m, g)
      BY <3>1
    <3>3. QED
      BY <3>2, <2>2
  <2>7. QED
    BY <2>1, <2>3, <2>4, <2>5, <2>6
<1>2. CASE Mutate
  <2>1. ASSUME NEW c \in Columns, extend_to(c)
        PROVE  ExtentsFit'
    BY <2>1 DEF extend_to, ExtentsFit, RowsCovered, LocalsFit, Goto, TypeOK, tableVars, indexVars
  <2>2. CASE WriteColumn
    BY <2>2 DEF WriteColumn, WriteRows, ExtentsFit, RowsCovered, LocalsFit, Goto, TypeOK, tableVars, indexVars
  <2>3. CASE FlushColumns
    BY <2>3 DEF FlushColumns, ExtentsFit, RowsCovered, LocalsFit, Goto, TypeOK, tableVars, indexVars
  <2>4. ASSUME NEW g \in Gens \cup {None}, StartStep4(g)
        PROVE  ExtentsFit'
    BY <2>4 DEF StartStep4, SetGeneration, ExtentsFit, RowsCovered, LocalsFit, Goto, TypeOK, tableVars, indexVars
  <2>5. ASSUME NEW i \in Indexes, MaintainGeneration(i)
        PROVE  ExtentsFit'
    BY <2>5 DEF MaintainGeneration, ExtentsFit, RowsCovered, LocalsFit, Goto, TypeOK, tableVars, indexVars
  <2>6. CASE MaintainNrows
    BY <2>6 DEF MaintainNrows, ExtentsFit, RowsCovered, LocalsFit, Goto, TypeOK, tableVars, indexVars
  <2>7. CASE MaintainTear
    BY <2>7 DEF MaintainTear, ExtentsFit, RowsCovered, LocalsFit, Goto, TypeOK, tableVars, indexVars
  <2>8. CASE MaintainContent
    BY <2>8 DEF MaintainContent, ExtentsFit, RowsCovered, LocalsFit, Goto, TypeOK, tableVars, indexVars
  <2>9. CASE FlushIndexes
    BY <2>9 DEF FlushIndexes, ExtentsFit, RowsCovered, LocalsFit, Goto, TypeOK, tableVars, indexVars
  <2>10. CASE BumpGeneration
    BY <2>10 DEF BumpGeneration, ExtentsFit, RowsCovered, LocalsFit, Goto, TypeOK, tableVars, indexVars
  <2>11. CASE CommitRows
    BY <2>11 DEF CommitRows, ExtentsFit, RowsCovered, LocalsFit, Goto, TypeOK, tableVars, indexVars
  <2>12. QED
    BY <1>2, <2>1, <2>2, <2>3, <2>4, <2>5, <2>6, <2>7, <2>8, <2>9, <2>10, <2>11 DEF Mutate
<1>3. CASE Build
  <2>1. CASE BuildCreate
    BY <2>1 DEF BuildCreate, ExtentsFit, RowsCovered, LocalsFit, Goto, TypeOK, tableVars, indexVars
  <2>2. CASE BuildContent
    BY <2>2 DEF BuildContent, ExtentsFit, RowsCovered, LocalsFit, Goto, TypeOK, tableVars, indexVars
  <2>3. CASE BuildKind
    BY <2>3 DEF BuildKind, ExtentsFit, RowsCovered, LocalsFit, Goto, TypeOK, tableVars, indexVars
  <2>4. CASE BuildGeneration
    BY <2>4 DEF BuildGeneration, ExtentsFit, RowsCovered, LocalsFit, Goto, TypeOK, tableVars, indexVars
  <2>5. CASE BuildNrows
    BY <2>5 DEF BuildNrows, ExtentsFit, RowsCovered, LocalsFit, Goto, TypeOK, tableVars, indexVars
  <2>6. CASE BuildUnlink
    BY <2>6 DEF BuildUnlink, ExtentsFit, RowsCovered, LocalsFit, Goto, TypeOK, tableVars, indexVars
  <2>7. CASE BuildLink
    BY <2>7 DEF BuildLink, ExtentsFit, RowsCovered, LocalsFit, Goto, TypeOK, tableVars, indexVars
  <2>8. QED
    BY <1>3, <2>1, <2>2, <2>3, <2>4, <2>5, <2>6, <2>7 DEF Build
<1>4. CASE Refresh
  <2>1. ASSUME NEW i \in Indexes, RefreshSkip(i)
        PROVE  ExtentsFit'
    BY <2>1 DEF RefreshSkip, ExtentsFit, RowsCovered, LocalsFit, Goto, TypeOK, tableVars, indexVars
  <2>2. ASSUME NEW i \in Indexes, RefreshTear(i)
        PROVE  ExtentsFit'
    BY <2>2 DEF RefreshTear, ExtentsFit, RowsCovered, LocalsFit, Goto, TypeOK, tableVars, indexVars
  <2>3. CASE RefreshContent
    BY <2>3 DEF RefreshContent, ExtentsFit, RowsCovered, LocalsFit, Goto, TypeOK, tableVars, indexVars
  <2>4. CASE RefreshGeneration
    BY <2>4 DEF RefreshGeneration, ExtentsFit, RowsCovered, LocalsFit, Goto, TypeOK, tableVars, indexVars
  <2>5. CASE RefreshNrows
    BY <2>5 DEF RefreshNrows, ExtentsFit, RowsCovered, LocalsFit, Goto, TypeOK, tableVars, indexVars
  <2>6. CASE FinishRefresh
    BY <2>6 DEF FinishRefresh, Return, ExtentsFit, RowsCovered, LocalsFit, Goto, TypeOK, tableVars, indexVars
  <2>7. QED
    BY <1>4, <2>1, <2>2, <2>3, <2>4, <2>5, <2>6 DEF Refresh
<1>5. CASE FlushFile
  BY <1>5 DEF FlushFile, Return, ExtentsFit, RowsCovered, LocalsFit, Goto, TypeOK, tableVars, indexVars
<1>6. CASE Fault
  <2>1. CASE Kill
    BY <2>1 DEF Kill, Stopped, PartialRows, WriteRows, Return, ExtentsFit, RowsCovered, LocalsFit, Goto, TypeOK, tableVars, indexVars
  <2>2. CASE Raise
    BY <2>2 DEF Raise, Stopped, PartialRows, WriteRows, Return, BuildRollback, ExtentsFit, RowsCovered, LocalsFit, Goto, TypeOK, tableVars, indexVars
  <2>3. CASE RepairKilled
    BY <2>3 DEF RepairKilled, localVars, ExtentsFit, RowsCovered, LocalsFit, Goto, TypeOK, tableVars, indexVars
  <2>4. QED
    BY <1>6, <2>1, <2>2, <2>3 DEF Fault
<1>7. CASE OtherTool
  <2>1. ASSUME NEW i \in Foreign, ForeignRebuild(i)
        PROVE  ExtentsFit'
    BY <2>1 DEF ForeignRebuild, localVars, ExtentsFit, RowsCovered, LocalsFit, Goto, TypeOK, tableVars, indexVars
  <2>2. ASSUME NEW g \in Gens, ForeignRetype(g)
        PROVE  ExtentsFit'
    BY <2>2 DEF ForeignRetype, localVars, ExtentsFit, RowsCovered, LocalsFit, Goto, TypeOK, tableVars, indexVars
  <2>3. QED
    BY <1>7, <2>1, <2>2 DEF OtherTool
<1>8. CASE Idle \/ UNCHANGED vars
  BY <1>8 DEF Idle, vars, localVars, ExtentsFit, RowsCovered, LocalsFit, Goto, TypeOK, tableVars, indexVars
<1>9. QED
  BY <1>1, <1>2, <1>3, <1>4, <1>5, <1>6, <1>7, <1>8 DEF Next, Step

\* No step rewrites an element of a row that stays committed.
LEMMA CommittedStep ==
  ASSUME TypeOK, LocalsFit, [Next]_vars
  PROVE  \A c \in Columns, r \in Row : r <= nrows /\ r <= nrows' => cell'[c][r] = cell[c][r]
<1> USE CurType, OpFields, GensArithmetic DEF Extending, Rewriting, Maintaining, Mutating, Building, Refreshing
<1>1. CASE Begin
  <2>1. PICK g \in Gens \cup {None} :
          \/ CallAppend(g)
          \/ \E n \in 0..MaxRows, m \in BOOLEAN : BeginTruncate(n, m, g)
          \/ \E i \in Indexes : BeginBuild(i, g)
          \/ BeginRefresh(g)
    BY <1>1 DEF Begin
  <2>2. ASSUME NEW given \in SUBSET Columns, NEW k \in 1..(MaxRows - nrows),
               NEW m \in BOOLEAN, NEW data \in Requests(given, k),
               BeginAppend(given, k, data, m, g)
        PROVE  \A c \in Columns, r \in Row : r <= nrows /\ r <= nrows' => cell'[c][r] = cell[c][r]
    BY <2>2 DEF BeginAppend, SetGeneration, tableVars, indexVars, Goto, TypeOK, Row
  <2>3. ASSUME NEW n \in 0..MaxRows, NEW m \in BOOLEAN, BeginTruncate(n, m, g)
        PROVE  \A c \in Columns, r \in Row : r <= nrows /\ r <= nrows' => cell'[c][r] = cell[c][r]
    BY <2>3 DEF BeginTruncate, SetGeneration, NoOp, tableVars, indexVars, Goto, TypeOK, Row
  <2>4. ASSUME NEW i \in Indexes, BeginBuild(i, g)
        PROVE  \A c \in Columns, r \in Row : r <= nrows /\ r <= nrows' => cell'[c][r] = cell[c][r]
    BY <2>4 DEF BeginBuild, SetGeneration, NoOp, localVars, tableVars, indexVars, Goto, TypeOK, Row
  <2>5. CASE BeginRefresh(g)
    BY <2>5 DEF BeginRefresh, SetGeneration, NoOp, tableVars, indexVars, Goto, TypeOK, Row
  <2>6. CASE CallAppend(g)
    <3>1. PICK given \in SUBSET Columns, k \in 1..(MaxRows - nrows), m \in BOOLEAN :
            \E data \in Requests(given, k) : BeginAppend(given, k, data, m, g)
      BY <2>6 DEF CallAppend
    <3>2. PICK data \in Requests(given, k) : BeginAppend(given, k, data, m, g)
      BY <3>1
    <3>3. QED
      BY <3>2, <2>2
  <2>7. QED
    BY <2>1, <2>3, <2>4, <2>5, <2>6
<1>2. CASE Mutate
  <2>1. ASSUME NEW c \in Columns, extend_to(c)
        PROVE  \A d \in Columns, r \in Row : r <= nrows /\ r <= nrows' => cell'[d][r] = cell[d][r]
    BY <2>1 DEF extend_to, tableVars, indexVars, Goto, TypeOK, Row
  <2>2. CASE WriteColumn
    BY <2>2 DEF WriteColumn, WriteRows, tableVars, indexVars, Goto, TypeOK, Row
  <2>3. CASE FlushColumns
    BY <2>3 DEF FlushColumns, tableVars, indexVars, Goto, TypeOK, Row
  <2>4. ASSUME NEW g \in Gens \cup {None}, StartStep4(g)
        PROVE  \A c \in Columns, r \in Row : r <= nrows /\ r <= nrows' => cell'[c][r] = cell[c][r]
    BY <2>4 DEF StartStep4, SetGeneration, tableVars, indexVars, Goto, TypeOK, Row
  <2>5. ASSUME NEW i \in Indexes, MaintainGeneration(i)
        PROVE  \A c \in Columns, r \in Row : r <= nrows /\ r <= nrows' => cell'[c][r] = cell[c][r]
    BY <2>5 DEF MaintainGeneration, tableVars, indexVars, Goto, TypeOK, Row
  <2>6. CASE MaintainNrows
    BY <2>6 DEF MaintainNrows, tableVars, indexVars, Goto, TypeOK, Row
  <2>7. CASE MaintainTear
    BY <2>7 DEF MaintainTear, tableVars, indexVars, Goto, TypeOK, Row
  <2>8. CASE MaintainContent
    BY <2>8 DEF MaintainContent, tableVars, indexVars, Goto, TypeOK, Row
  <2>9. CASE FlushIndexes
    BY <2>9 DEF FlushIndexes, tableVars, indexVars, Goto, TypeOK, Row
  <2>10. CASE BumpGeneration
    BY <2>10 DEF BumpGeneration, tableVars, indexVars, Goto, TypeOK, Row
  <2>11. CASE CommitRows
    BY <2>11 DEF CommitRows, tableVars, indexVars, Goto, TypeOK, Row
  <2>12. QED
    BY <1>2, <2>1, <2>2, <2>3, <2>4, <2>5, <2>6, <2>7, <2>8, <2>9, <2>10, <2>11 DEF Mutate
<1>3. CASE Build
  <2>1. CASE BuildCreate
    BY <2>1 DEF BuildCreate, tableVars, indexVars, Goto, TypeOK, Row
  <2>2. CASE BuildContent
    BY <2>2 DEF BuildContent, tableVars, indexVars, Goto, TypeOK, Row
  <2>3. CASE BuildKind
    BY <2>3 DEF BuildKind, tableVars, indexVars, Goto, TypeOK, Row
  <2>4. CASE BuildGeneration
    BY <2>4 DEF BuildGeneration, tableVars, indexVars, Goto, TypeOK, Row
  <2>5. CASE BuildNrows
    BY <2>5 DEF BuildNrows, tableVars, indexVars, Goto, TypeOK, Row
  <2>6. CASE BuildUnlink
    BY <2>6 DEF BuildUnlink, tableVars, indexVars, Goto, TypeOK, Row
  <2>7. CASE BuildLink
    BY <2>7 DEF BuildLink, tableVars, indexVars, Goto, TypeOK, Row
  <2>8. QED
    BY <1>3, <2>1, <2>2, <2>3, <2>4, <2>5, <2>6, <2>7 DEF Build
<1>4. CASE Refresh
  <2>1. ASSUME NEW i \in Indexes, RefreshSkip(i)
        PROVE  \A c \in Columns, r \in Row : r <= nrows /\ r <= nrows' => cell'[c][r] = cell[c][r]
    BY <2>1 DEF RefreshSkip, tableVars, indexVars, Goto, TypeOK, Row
  <2>2. ASSUME NEW i \in Indexes, RefreshTear(i)
        PROVE  \A c \in Columns, r \in Row : r <= nrows /\ r <= nrows' => cell'[c][r] = cell[c][r]
    BY <2>2 DEF RefreshTear, tableVars, indexVars, Goto, TypeOK, Row
  <2>3. CASE RefreshContent
    BY <2>3 DEF RefreshContent, tableVars, indexVars, Goto, TypeOK, Row
  <2>4. CASE RefreshGeneration
    BY <2>4 DEF RefreshGeneration, tableVars, indexVars, Goto, TypeOK, Row
  <2>5. CASE RefreshNrows
    BY <2>5 DEF RefreshNrows, tableVars, indexVars, Goto, TypeOK, Row
  <2>6. CASE FinishRefresh
    BY <2>6 DEF FinishRefresh, Return, tableVars, indexVars, Goto, TypeOK, Row
  <2>7. QED
    BY <1>4, <2>1, <2>2, <2>3, <2>4, <2>5, <2>6 DEF Refresh
<1>5. CASE FlushFile
  BY <1>5 DEF FlushFile, Return, tableVars, indexVars, Goto, TypeOK, Row
<1>6. CASE Fault
  <2>1. CASE Kill
    <3>1. CASE pc = "write"
      <4>1. PICK rows \in SUBSET ((nrows + 1)..op.n) : WriteRows(rows)
        BY <2>1, <3>1 DEF Kill, PartialRows
      <4>2. QED
        BY <4>1 DEF WriteRows, TypeOK, Row
    <3>2. CASE pc # "write"
      BY <2>1, <3>2 DEF Kill, PartialRows
    <3>3. QED
      BY <3>1, <3>2
  <2>2. CASE Raise
    <3>1. CASE pc = "write"
      <4>1. PICK rows \in SUBSET ((nrows + 1)..op.n) : WriteRows(rows)
        BY <2>2, <3>1 DEF Raise, PartialRows
      <4>2. QED
        BY <4>1 DEF WriteRows, TypeOK, Row
    <3>2. CASE pc # "write"
      BY <2>2, <3>2 DEF Raise, PartialRows
    <3>3. QED
      BY <3>1, <3>2
  <2>3. CASE RepairKilled
    BY <2>3 DEF RepairKilled, localVars, tableVars, indexVars, Goto, TypeOK, Row
  <2>4. QED
    BY <1>6, <2>1, <2>2, <2>3 DEF Fault
<1>7. CASE OtherTool
  <2>1. ASSUME NEW i \in Foreign, ForeignRebuild(i)
        PROVE  \A c \in Columns, r \in Row : r <= nrows /\ r <= nrows' => cell'[c][r] = cell[c][r]
    BY <2>1 DEF ForeignRebuild, localVars, tableVars, indexVars, Goto, TypeOK, Row
  <2>2. ASSUME NEW g \in Gens, ForeignRetype(g)
        PROVE  \A c \in Columns, r \in Row : r <= nrows /\ r <= nrows' => cell'[c][r] = cell[c][r]
    BY <2>2 DEF ForeignRetype, localVars, tableVars, indexVars, Goto, TypeOK, Row
  <2>3. QED
    BY <1>7, <2>1, <2>2 DEF OtherTool
<1>8. CASE Idle \/ UNCHANGED vars
  BY <1>8 DEF Idle, vars, localVars, tableVars, indexVars, Goto, TypeOK, Row
<1>9. QED
  BY <1>1, <1>2, <1>3, <1>4, <1>5, <1>6, <1>7, <1>8 DEF Next, Step

\* An empty table gives every index an empty prefix.
LEMMA EmptySnapshot == \A i \in Indexes : Snapshot(i, 0) \in Prefixes
<1> TAKE i \in Indexes
<1>1. Snapshot(i, 0) \in [1..0 -> Cell]
  BY DEF Snapshot
<1>2. 0 \in 0..MaxRows
  BY ConstantsAssumption
<1>3. QED
  BY <1>1, <1>2 DEF Prefixes

\* The constructors leave a table that satisfies every part of the invariant.
LEMMA InitBase ==
  Init => TypeOK /\ LocalsFit /\ GenerationFits /\ ExtentsFit
<1> SUFFICES ASSUME Init
             PROVE  TypeOK /\ LocalsFit /\ GenerationFits /\ ExtentsFit
  OBVIOUS
<1> USE ConstantsAssumption, GensArithmetic, NoOpType DEF Init
<1>2. TypeOK
  <2>1. cell \in [Columns -> [Row -> Cell]]
    BY DEF NoData, Cell
  <2>2. content \in [Indexes -> Prefixes \cup {Torn}]
    BY EmptySnapshot
  <2>3. /\ nrows \in 0..MaxRows /\ gen \in Gens /\ form \in {"absent", "uint64", "malformed"}
        /\ ext \in [Columns -> 0..MaxRows] /\ interrupted \in BOOLEAN
    <3>1. 0 \in 0..MaxRows /\ 0 \in Gens
      OBVIOUS
    <3>2. form \in {"absent", "uint64", "malformed"} /\ interrupted \in BOOLEAN
      OBVIOUS
    <3>3. ext \in [Columns -> 0..MaxRows]
      BY <3>1
    <3>4. QED
      BY <3>1, <3>2, <3>3
  <2>4. /\ status \in [Indexes -> {"none", "bare", "kinded", "linked"}]
        /\ sg \in [Indexes -> Gens \cup {None}] /\ sn \in [Indexes -> 0..MaxRows \cup {None}]
    OBVIOUS
  <2>5. /\ pc \in Phase /\ op \in Op /\ todo \in SUBSET (Columns \cup Indexes)
        /\ cur \in Columns \cup Indexes \cup {NoName}
    BY DEF Phase
  <2>6. QED
    BY <2>1, <2>2, <2>3, <2>4, <2>5 DEF TypeOK
<1>3. LocalsFit
  BY DEF LocalsFit, Mutating, Extending, Maintaining, Rewriting, Building, Refreshing
<1>4. GenerationFits
  BY DEF GenerationFits, Mutating, Extending, Maintaining, Rewriting
<1>5. ExtentsFit
  BY DEF ExtentsFit, RowsCovered, NoOp
<1>6. QED
  BY <1>2, <1>3, <1>4, <1>5

\* Types, locals, GENERATION and extents are what the next step expects, in
\* every reachable state and whatever failed before.
THEOREM BaseInvariant == Spec => []Base
<1>1. Init => Base
  BY InitBase DEF Base
<1>2. Base /\ [Next]_vars => Base'
  BY TypeStep, LocalsStep, GenerationStep, ExtentsStep DEF Base
<1>3. QED
  BY <1>1, <1>2, PTL DEF Spec

\* Type correctness, for every table, every schema and every bound.
THEOREM TypeCorrect == Spec => []TypeOK
<1>1. Base => TypeOK
  BY DEF Base
<1>2. QED
  BY <1>1, BaseInvariant, PTL

\* NROWS never points beyond a column: a reader that trusts it finds every row.
THEOREM RowsAlwaysCovered == Spec => []RowsCovered
<1>1. Base => RowsCovered
  BY DEF Base, ExtentsFit
<1>2. QED
  BY <1>1, BaseInvariant, PTL

\* No operation, completed or interrupted, rewrites a row that stays committed.
THEOREM CommittedRowsStable == Spec => CommittedStable
<1>1. Base /\ [Next]_vars =>
        [\A c \in Columns, r \in Row :
           r <= nrows /\ r <= nrows' => cell'[c][r] = cell[c][r]]_vars
  BY CommittedStep DEF Base
<1>2. QED
  BY <1>1, BaseInvariant, PTL DEF Spec, CommittedStable

-----------------------------------------------------------------------------
(* The validity tokens, from the inductive invariant of TableInvariant.    *)

\* Tokens are integers, None included.
LEMMA TokenInt ==
  /\ \A g \in Gens \cup {None} : g \in Int
  /\ TypeOK => \A i \in Indexes : sg[i] \in Int
<1>1. \A g \in Gens \cup {None} : g \in Int
  BY GensArithmetic DEF None
<1>2. TypeOK => \A i \in Indexes : sg[i] \in Gens \cup {None}
  BY DEF TypeOK
<1>3. QED
  BY <1>1, <1>2

\* At the start of a call GENERATION, once it is well formed, has reached every
\* token but those of an interrupted mutation.
LEMMA EnsuredTokens ==
  ASSUME TypeOK, TokensFit, pc = "idle", NEW g \in Gens \cup {None},
         ensure_generation(g), NEW i \in Indexes
  PROVE  /\ g \in Int /\ sg[i] \in Int /\ sg[i] <= g + 1
         /\ Attached(i) /\ (i \in Foreign \/ ~interrupted) => sg[i] <= g
<1> USE GensArithmetic, EnsuredGeneration DEF TypeOK, TokensFit, TokenFits, None
<1>1. g \in Int /\ sg[i] \in Int /\ g >= 0
  BY DEF Gens
<1>2. CASE form = "uint64"
  BY <1>1, <1>2 DEF Maintaining, Rewriting
<1>3. CASE form # "uint64"
  BY <1>1, <1>3 DEF Kinded
<1>4. QED
  BY <1>2, <1>3

\* Every step keeps the tokens within reach of GENERATION.
LEMMA TokensStep ==
  ASSUME Careful, TypeOK, LocalsFit, GenerationFits, TokensFit, BuiltFit, [Next]_vars
  PROVE  TokensFit'
<1> USE ConstantsAssumption, GensArithmetic, OpFields, CurType DEF Extending, Rewriting, Maintaining, Mutating, Building, Refreshing, None
<1>1. CASE Begin
  <2>1. PICK g \in Gens \cup {None} :
          \/ CallAppend(g)
          \/ \E n \in 0..MaxRows, m \in BOOLEAN : BeginTruncate(n, m, g)
          \/ \E i \in Indexes : BeginBuild(i, g)
          \/ BeginRefresh(g)
    BY <1>1 DEF Begin
  <2>2. ASSUME NEW given \in SUBSET Columns, NEW k \in 1..(MaxRows - nrows),
               NEW m \in BOOLEAN, NEW data \in Requests(given, k),
               BeginAppend(given, k, data, m, g)
        PROVE  TokensFit'
    <3>1. \A j \in Indexes : status'[j] \in {"none", "bare"} => sg'[j] = None
      BY <2>2, EnsuredTokens, EnsuredGeneration DEF BeginAppend, SetGeneration, mutation_generation, MayMutate, TokensFit, Goto, TypeOK, indexVars
    <3>2. ASSUME NEW j \in Indexes, form' = "uint64"
          PROVE  TokenFits(j)'
      BY <2>2, EnsuredTokens, EnsuredGeneration, <3>2 DEF BeginAppend, SetGeneration, mutation_generation, MayMutate, TokensFit, TokenFits, LocalsFit, GenerationFits, Attached, Linked, Goto, TypeOK, tableVars, indexVars
    <3>3. pc' \in Refreshing => \A j \in Linked' \ todo' : sg'[j] <= gen'
      BY <2>2, EnsuredTokens, EnsuredGeneration DEF BeginAppend, SetGeneration, mutation_generation, MayMutate, TokensFit, TokenFits, LocalsFit, GenerationFits, Attached, Linked, Goto, TypeOK, tableVars, indexVars
    <3>4. pc' \in Mutating /\ ~op'.maintain => ~interrupted'
      BY <2>2, EnsuredTokens, EnsuredGeneration DEF BeginAppend, SetGeneration, mutation_generation, MayMutate, TokensFit, TokenFits, LocalsFit, GenerationFits, Attached, Linked, Goto, TypeOK, tableVars, indexVars
    <3>5. QED
      BY <3>1, <3>2, <3>3, <3>4 DEF TokensFit
  <2>3. ASSUME NEW n \in 0..MaxRows, NEW m \in BOOLEAN, BeginTruncate(n, m, g)
        PROVE  TokensFit'
    <3>1. \A j \in Indexes : status'[j] \in {"none", "bare"} => sg'[j] = None
      BY <2>3, EnsuredTokens, EnsuredGeneration DEF BeginTruncate, SetGeneration, NoOp, mutation_generation, MayMutate, TokensFit, Goto, TypeOK, indexVars
    <3>2. ASSUME NEW j \in Indexes, form' = "uint64"
          PROVE  TokenFits(j)'
      BY <2>3, EnsuredTokens, EnsuredGeneration, <3>2 DEF BeginTruncate, SetGeneration, NoOp, mutation_generation, MayMutate, TokensFit, TokenFits, LocalsFit, GenerationFits, Attached, Linked, Goto, TypeOK, tableVars, indexVars
    <3>3. pc' \in Refreshing => \A j \in Linked' \ todo' : sg'[j] <= gen'
      BY <2>3, EnsuredTokens, EnsuredGeneration DEF BeginTruncate, SetGeneration, NoOp, mutation_generation, MayMutate, TokensFit, TokenFits, LocalsFit, GenerationFits, Attached, Linked, Goto, TypeOK, tableVars, indexVars
    <3>4. pc' \in Mutating /\ ~op'.maintain => ~interrupted'
      BY <2>3, EnsuredTokens, EnsuredGeneration DEF BeginTruncate, SetGeneration, NoOp, mutation_generation, MayMutate, TokensFit, TokenFits, LocalsFit, GenerationFits, Attached, Linked, Goto, TypeOK, tableVars, indexVars
    <3>5. QED
      BY <3>1, <3>2, <3>3, <3>4 DEF TokensFit
  <2>4. ASSUME NEW i \in Indexes, BeginBuild(i, g)
        PROVE  TokensFit'
    <3>1. \A j \in Indexes : status'[j] \in {"none", "bare"} => sg'[j] = None
      BY <2>4, EnsuredTokens, EnsuredGeneration DEF BeginBuild, SetGeneration, NoOp, localVars, TokensFit, Goto, TypeOK, indexVars
    <3>2. ASSUME NEW j \in Indexes, form' = "uint64"
          PROVE  TokenFits(j)'
      BY <2>4, EnsuredTokens, EnsuredGeneration, <3>2 DEF BeginBuild, SetGeneration, NoOp, localVars, TokensFit, TokenFits, LocalsFit, GenerationFits, Attached, Linked, Goto, TypeOK, tableVars, indexVars
    <3>3. pc' \in Refreshing => \A j \in Linked' \ todo' : sg'[j] <= gen'
      BY <2>4, EnsuredTokens, EnsuredGeneration DEF BeginBuild, SetGeneration, NoOp, localVars, TokensFit, TokenFits, LocalsFit, GenerationFits, Attached, Linked, Goto, TypeOK, tableVars, indexVars
    <3>4. pc' \in Mutating /\ ~op'.maintain => ~interrupted'
      BY <2>4, EnsuredTokens, EnsuredGeneration DEF BeginBuild, SetGeneration, NoOp, localVars, TokensFit, TokenFits, LocalsFit, GenerationFits, Attached, Linked, Goto, TypeOK, tableVars, indexVars
    <3>5. QED
      BY <3>1, <3>2, <3>3, <3>4 DEF TokensFit
  <2>5. CASE BeginRefresh(g)
    <3>1. \A j \in Indexes : status'[j] \in {"none", "bare"} => sg'[j] = None
      BY <2>5, EnsuredTokens, EnsuredGeneration DEF BeginRefresh, SetGeneration, NoOp, TokensFit, Goto, TypeOK, indexVars
    <3>2. ASSUME NEW j \in Indexes, form' = "uint64"
          PROVE  TokenFits(j)'
      BY <2>5, EnsuredTokens, EnsuredGeneration, <3>2 DEF BeginRefresh, SetGeneration, NoOp, TokensFit, TokenFits, LocalsFit, GenerationFits, Attached, Linked, Goto, TypeOK, tableVars, indexVars
    <3>3. pc' \in Refreshing => \A j \in Linked' \ todo' : sg'[j] <= gen'
      BY <2>5, EnsuredTokens, EnsuredGeneration DEF BeginRefresh, SetGeneration, NoOp, TokensFit, TokenFits, LocalsFit, GenerationFits, Attached, Linked, Goto, TypeOK, tableVars, indexVars
    <3>4. pc' \in Mutating /\ ~op'.maintain => ~interrupted'
      BY <2>5, EnsuredTokens, EnsuredGeneration DEF BeginRefresh, SetGeneration, NoOp, TokensFit, TokenFits, LocalsFit, GenerationFits, Attached, Linked, Goto, TypeOK, tableVars, indexVars
    <3>5. QED
      BY <3>1, <3>2, <3>3, <3>4 DEF TokensFit
  <2>6. CASE CallAppend(g)
    <3>1. PICK given \in SUBSET Columns, k \in 1..(MaxRows - nrows), m \in BOOLEAN :
            \E data \in Requests(given, k) : BeginAppend(given, k, data, m, g)
      BY <2>6 DEF CallAppend
    <3>2. PICK data \in Requests(given, k) : BeginAppend(given, k, data, m, g)
      BY <3>1
    <3>3. QED
      BY <3>2, <2>2
  <2>7. QED
    BY <2>1, <2>3, <2>4, <2>5, <2>6
<1>2. CASE Mutate
  <2>1. ASSUME NEW c \in Columns, extend_to(c)
        PROVE  TokensFit'
    BY <2>1 DEF extend_to, TokensFit, TokenFits, LocalsFit, GenerationFits, Attached, Linked, Goto, TypeOK, tableVars, indexVars
  <2>2. CASE WriteColumn
    BY <2>2 DEF WriteColumn, WriteRows, TokensFit, TokenFits, LocalsFit, GenerationFits, Attached, Linked, Goto, TypeOK, tableVars, indexVars
  <2>3. CASE FlushColumns
    BY <2>3 DEF FlushColumns, TokensFit, TokenFits, LocalsFit, GenerationFits, Attached, Linked, Goto, TypeOK, tableVars, indexVars
  <2>4. ASSUME NEW g \in Gens \cup {None}, StartStep4(g)
        PROVE  TokensFit'
    <3>1. \A j \in Indexes : status'[j] \in {"none", "bare"} => sg'[j] = None
      BY <2>4, EnsuredGeneration DEF StartStep4, SetGeneration, Kinded, TokensFit, Goto, TypeOK, indexVars
    <3>2. ASSUME NEW j \in Indexes, form' = "uint64"
          PROVE  TokenFits(j)'
      <4>1. pc = "step4" /\ pc' \in {"bump", "maintain"} /\ op'.maintain = op.maintain
        BY <2>4 DEF StartStep4, TypeOK, Op
      <4>2. UNCHANGED <<sg, status, interrupted>>
        BY <2>4 DEF StartStep4, indexVars
      <4>3. CASE op.g = None
        <5>1. ensure_generation(g) /\ form # "uint64" /\ gen' = g
          BY <2>4, <4>1, <4>3, <3>2 DEF StartStep4, SetGeneration, GenerationFits
        <5>2. sg[j] < g
          <6>1. g \in Gens /\ \A i \in Kinded : sg[i] < g
            BY <5>1, EnsuredGeneration
          <6>2. CASE j \in Kinded
            BY <6>1, <6>2
          <6>3. CASE j \notin Kinded
            <7>1. sg[j] = None
              BY <6>3 DEF Kinded, TokensFit, TypeOK
            <7>2. QED
              BY <6>1, <7>1 DEF Gens
          <6>4. QED
            BY <6>2, <6>3
        <5>3. QED
          <6>1. sg[j] \in Int /\ g \in Int
            BY TokenInt
          <6>2. sg[j] <= g + 1 /\ sg[j] <= g
            BY <5>2, <6>1
          <6>3. QED
            BY <4>1, <4>2, <5>1, <6>2 DEF TokenFits
      <4>4. CASE op.g # None
        <5>1. gen' = gen /\ form = "uint64"
          BY <2>4, <4>1, <4>4 DEF StartStep4, SetGeneration, GenerationFits
        <5>2. QED
          BY <4>1, <4>2, <5>1 DEF TokensFit, TokenFits, Attached
      <4>5. QED
        BY <4>3, <4>4
    <3>3. pc' \in Refreshing => \A j \in Linked' \ todo' : sg'[j] <= gen'
      BY <2>4, EnsuredGeneration DEF StartStep4, SetGeneration, Kinded, TokensFit, TokenFits, LocalsFit, GenerationFits, Attached, Linked, Goto, TypeOK, tableVars, indexVars
    <3>4. pc' \in Mutating /\ ~op'.maintain => ~interrupted'
      BY <2>4, EnsuredGeneration DEF StartStep4, SetGeneration, Kinded, TokensFit, TokenFits, LocalsFit, GenerationFits, Attached, Linked, Goto, TypeOK, tableVars, indexVars
    <3>5. QED
      BY <3>1, <3>2, <3>3, <3>4 DEF TokensFit
  <2>5. ASSUME NEW i \in Indexes, MaintainGeneration(i)
        PROVE  TokensFit'
    BY <2>5 DEF MaintainGeneration, TokensFit, TokenFits, LocalsFit, GenerationFits, Attached, Linked, Goto, TypeOK, tableVars, indexVars
  <2>6. CASE MaintainNrows
    BY <2>6 DEF MaintainNrows, TokensFit, TokenFits, LocalsFit, GenerationFits, Attached, Linked, Goto, TypeOK, tableVars, indexVars
  <2>7. CASE MaintainTear
    BY <2>7 DEF MaintainTear, TokensFit, TokenFits, LocalsFit, GenerationFits, Attached, Linked, Goto, TypeOK, tableVars, indexVars
  <2>8. CASE MaintainContent
    BY <2>8 DEF MaintainContent, TokensFit, TokenFits, LocalsFit, GenerationFits, Attached, Linked, Goto, TypeOK, tableVars, indexVars
  <2>9. CASE FlushIndexes
    BY <2>9 DEF FlushIndexes, TokensFit, TokenFits, LocalsFit, GenerationFits, Attached, Linked, Goto, TypeOK, tableVars, indexVars
  <2>10. CASE BumpGeneration
    <3>1. \A j \in Indexes : status'[j] \in {"none", "bare"} => sg'[j] = None
      BY <2>10 DEF BumpGeneration, TokensFit, Goto, TypeOK, indexVars
    <3>2. ASSUME NEW j \in Indexes, form' = "uint64"
          PROVE  TokenFits(j)'
      <4>1. form = "uint64" /\ gen = op.g /\ gen' = gen + 1 /\ UNCHANGED <<sg, op>> /\ pc' = "rows"
        BY <2>10, <3>2 DEF BumpGeneration, GenerationFits, indexVars, Goto
      <4>2. sg[j] <= gen + 1 /\ sg[j] \in Int /\ gen \in Int
        BY <4>1, TokenInt DEF TokensFit, TokenFits, TypeOK
      <4>3. QED
        BY <4>1, <4>2 DEF TokenFits
    <3>3. pc' \in Refreshing => \A j \in Linked' \ todo' : sg'[j] <= gen'
      BY <2>10 DEF BumpGeneration, TokensFit, TokenFits, LocalsFit, GenerationFits, Attached, Linked, Goto, TypeOK, tableVars, indexVars
    <3>4. pc' \in Mutating /\ ~op'.maintain => ~interrupted'
      BY <2>10 DEF BumpGeneration, TokensFit, TokenFits, LocalsFit, GenerationFits, Attached, Linked, Goto, TypeOK, tableVars, indexVars
    <3>5. QED
      BY <3>1, <3>2, <3>3, <3>4 DEF TokensFit
  <2>11. CASE CommitRows
    BY <2>11 DEF CommitRows, TokensFit, TokenFits, LocalsFit, GenerationFits, Attached, Linked, Goto, TypeOK, tableVars, indexVars
  <2>12. QED
    BY <1>2, <2>1, <2>2, <2>3, <2>4, <2>5, <2>6, <2>7, <2>8, <2>9, <2>10, <2>11 DEF Mutate
<1>3. CASE Build
  <2>1. CASE BuildCreate
    BY <2>1 DEF BuildCreate, TokensFit, TokenFits, LocalsFit, GenerationFits, Attached, Linked, Goto, TypeOK, tableVars, indexVars
  <2>2. CASE BuildContent
    BY <2>2 DEF BuildContent, TokensFit, TokenFits, LocalsFit, GenerationFits, Attached, Linked, Goto, TypeOK, tableVars, indexVars
  <2>3. CASE BuildKind
    BY <2>3 DEF BuildKind, TokensFit, TokenFits, LocalsFit, GenerationFits, Attached, Linked, Goto, TypeOK, tableVars, indexVars
  <2>4. CASE BuildGeneration
    BY <2>4 DEF BuildGeneration, TokensFit, TokenFits, LocalsFit, GenerationFits, Attached, Linked, Goto, TypeOK, tableVars, indexVars
  <2>5. CASE BuildNrows
    BY <2>5 DEF BuildNrows, TokensFit, TokenFits, LocalsFit, GenerationFits, Attached, Linked, Goto, TypeOK, tableVars, indexVars
  <2>6. CASE BuildUnlink
    BY <2>6 DEF BuildUnlink, TokensFit, TokenFits, LocalsFit, GenerationFits, Attached, Linked, Goto, TypeOK, tableVars, indexVars
  <2>7. CASE BuildLink
    <3>1. \A j \in Indexes : status'[j] \in {"none", "bare"} => sg'[j] = None
      BY <2>7 DEF BuildLink, BuiltFit, TokensFit, Goto, TypeOK, indexVars
    <3>2. ASSUME NEW j \in Indexes, form' = "uint64"
          PROVE  TokenFits(j)'
      BY <2>7, <3>2 DEF BuildLink, BuiltFit, TokensFit, TokenFits, LocalsFit, GenerationFits, Attached, Linked, Goto, TypeOK, tableVars, indexVars
    <3>3. pc' \in Refreshing => \A j \in Linked' \ todo' : sg'[j] <= gen'
      BY <2>7 DEF BuildLink, BuiltFit, TokensFit, TokenFits, LocalsFit, GenerationFits, Attached, Linked, Goto, TypeOK, tableVars, indexVars
    <3>4. pc' \in Mutating /\ ~op'.maintain => ~interrupted'
      BY <2>7 DEF BuildLink, BuiltFit, TokensFit, TokenFits, LocalsFit, GenerationFits, Attached, Linked, Goto, TypeOK, tableVars, indexVars
    <3>5. QED
      BY <3>1, <3>2, <3>3, <3>4 DEF TokensFit
  <2>8. QED
    BY <1>3, <2>1, <2>2, <2>3, <2>4, <2>5, <2>6, <2>7 DEF Build
<1>4. CASE Refresh
  <2>1. ASSUME NEW i \in Indexes, RefreshSkip(i)
        PROVE  TokensFit'
    BY <2>1 DEF RefreshSkip, index_is_valid, TokensFit, TokenFits, LocalsFit, GenerationFits, Attached, Linked, Goto, TypeOK, tableVars, indexVars
  <2>2. ASSUME NEW i \in Indexes, RefreshTear(i)
        PROVE  TokensFit'
    BY <2>2 DEF RefreshTear, index_is_valid, TokensFit, TokenFits, LocalsFit, GenerationFits, Attached, Linked, Goto, TypeOK, tableVars, indexVars
  <2>3. CASE RefreshContent
    BY <2>3 DEF RefreshContent, TokensFit, TokenFits, LocalsFit, GenerationFits, Attached, Linked, Goto, TypeOK, tableVars, indexVars
  <2>4. CASE RefreshGeneration
    BY <2>4 DEF RefreshGeneration, TokensFit, TokenFits, LocalsFit, GenerationFits, Attached, Linked, Goto, TypeOK, tableVars, indexVars
  <2>5. CASE RefreshNrows
    <3>1. \A j \in Indexes : status'[j] \in {"none", "bare"} => sg'[j] = None
      BY <2>5 DEF RefreshNrows, BuiltFit, TokensFit, Goto, TypeOK, indexVars
    <3>2. ASSUME NEW j \in Indexes, form' = "uint64"
          PROVE  TokenFits(j)'
      BY <2>5, <3>2 DEF RefreshNrows, BuiltFit, TokensFit, TokenFits, LocalsFit, GenerationFits, Attached, Linked, Goto, TypeOK, tableVars, indexVars
    <3>3. pc' \in Refreshing => \A j \in Linked' \ todo' : sg'[j] <= gen'
      BY <2>5 DEF RefreshNrows, BuiltFit, TokensFit, TokenFits, LocalsFit, GenerationFits, Attached, Linked, Goto, TypeOK, tableVars, indexVars
    <3>4. pc' \in Mutating /\ ~op'.maintain => ~interrupted'
      BY <2>5 DEF RefreshNrows, BuiltFit, TokensFit, TokenFits, LocalsFit, GenerationFits, Attached, Linked, Goto, TypeOK, tableVars, indexVars
    <3>5. QED
      BY <3>1, <3>2, <3>3, <3>4 DEF TokensFit
  <2>6. CASE FinishRefresh
    BY <2>6 DEF FinishRefresh, Return, NoOp, TokensFit, TokenFits, LocalsFit, GenerationFits, Attached, Linked, Goto, TypeOK, tableVars, indexVars
  <2>7. QED
    BY <1>4, <2>1, <2>2, <2>3, <2>4, <2>5, <2>6 DEF Refresh
<1>5. CASE FlushFile
  BY <1>5 DEF FlushFile, Return, NoOp, TokensFit, TokenFits, LocalsFit, GenerationFits, Attached, Linked, Goto, TypeOK, tableVars, indexVars
<1>6. CASE Fault
  <2>1. CASE Kill
    <3>1. \A j \in Indexes : status'[j] \in {"none", "bare"} => sg'[j] = None
      BY <2>1 DEF Kill, Stopped, Return, NoOp, TokensFit, Goto, TypeOK, indexVars
    <3>2. ASSUME NEW j \in Indexes, form' = "uint64"
          PROVE  TokenFits(j)'
      BY <2>1, <3>2 DEF Kill, Stopped, Return, NoOp, TokensFit, TokenFits, LocalsFit, GenerationFits, Attached, Linked, Goto, TypeOK, tableVars, indexVars
    <3>3. pc' \in Refreshing => \A j \in Linked' \ todo' : sg'[j] <= gen'
      BY <2>1 DEF Kill, Stopped, Return, NoOp, TokensFit, TokenFits, LocalsFit, GenerationFits, Attached, Linked, Goto, TypeOK, tableVars, indexVars
    <3>4. pc' \in Mutating /\ ~op'.maintain => ~interrupted'
      BY <2>1 DEF Kill, Stopped, Return, NoOp, TokensFit, TokenFits, LocalsFit, GenerationFits, Attached, Linked, Goto, TypeOK, tableVars, indexVars
    <3>5. QED
      BY <3>1, <3>2, <3>3, <3>4 DEF TokensFit
  <2>2. CASE Raise
    <3>1. CASE op.kind = "build" /\ pc # "flush"
      <4>1. Stopped /\ BuildRollback
        BY <2>2, <3>1 DEF Raise
      <4>2. pc \in Building /\ cur \in Indexes
        BY <3>1, <4>1 DEF Stopped, LocalsFit, TypeOK, Phase
      <4>3. \A j \in Indexes : j = cur \/ (sg'[j] = sg[j] /\ (status'[j] = status[j] \/ Attached(j)))
        BY <4>1, <4>2 DEF BuildRollback, Attached, LocalsFit, TypeOK
      <4>4. status'[cur] = "none" /\ sg'[cur] = None
        BY <4>1, <4>2 DEF BuildRollback, TypeOK
      <4>5. pc' = "idle" /\ interrupted' = (interrupted \/ op.maintain) /\ UNCHANGED <<gen, form>>
        BY <4>1 DEF Stopped, Return
      <4>6. \A j \in Indexes : status'[j] \in {"none", "bare"} => sg'[j] = None
        <5>1. ASSUME NEW j \in Indexes, j # cur
              PROVE  status'[j] \in {"none", "bare"} => sg'[j] = None
          BY <4>2, <4>1, <5>1 DEF BuildRollback, TokensFit, TypeOK
        <5>2. QED
          BY <5>1, <4>4
      <4>7. ASSUME NEW j \in Indexes, form' = "uint64"
            PROVE  TokenFits(j)'
        BY <4>2, <4>3, <4>4, <4>5, <4>7 DEF TokensFit, TokenFits, Attached, TypeOK, Gens
      <4>8. QED
        BY <4>5, <4>6, <4>7 DEF TokensFit
    <3>2. CASE ~(op.kind = "build" /\ pc # "flush")
      BY <2>2, <3>2 DEF Raise, Stopped, Return, NoOp, TokensFit, TokenFits, LocalsFit, GenerationFits, Attached, Linked, Goto, TypeOK, tableVars, indexVars
    <3>3. QED
      BY <3>1, <3>2
  <2>3. CASE RepairKilled
    BY <2>3 DEF RepairKilled, localVars, TokensFit, TokenFits, LocalsFit, GenerationFits, Attached, Linked, Goto, TypeOK, tableVars, indexVars
  <2>4. QED
    BY <1>6, <2>1, <2>2, <2>3 DEF Fault
<1>7. CASE OtherTool
  <2>1. ASSUME NEW i \in Foreign, ForeignRebuild(i)
        PROVE  TokensFit'
    BY <2>1 DEF ForeignRebuild, localVars, TokensFit, TokenFits, LocalsFit, GenerationFits, Attached, Linked, Goto, TypeOK, tableVars, indexVars
  <2>2. ASSUME NEW g \in Gens, ForeignRetype(g)
        PROVE  TokensFit'
    BY <2>2 DEF ForeignRetype, localVars, TokensFit, TokenFits, LocalsFit, GenerationFits, Attached, Linked, Goto, TypeOK, tableVars, indexVars
  <2>3. QED
    BY <1>7, <2>1, <2>2 DEF OtherTool
<1>8. CASE Idle \/ UNCHANGED vars
  BY <1>8 DEF Idle, vars, localVars, TokensFit, TokenFits, LocalsFit, GenerationFits, Attached, Linked, Goto, TypeOK, tableVars, indexVars
<1>9. QED
  BY <1>1, <1>2, <1>3, <1>4, <1>5, <1>6, <1>7, <1>8 DEF Next, Step

\* What an index of the committed rows has to hold changes only when the row
\* count does.
LEMMA SnapshotStable ==
  ASSUME TypeOK, LocalsFit, [Next]_vars, nrows' = nrows, NEW i \in Indexes
  PROVE  Snapshot(i, nrows)' = Snapshot(i, nrows)
<1>1. Owner[i] \in Columns
  BY ConstantsAssumption
<1>2. \A r \in 1..nrows : r \in Row /\ r <= nrows
  BY ConstantsAssumption DEF Row, TypeOK
<1>3. QED
  BY <1>1, <1>2, CommittedStep DEF Snapshot

\* Every step keeps what a builder or a refresher has already written.
LEMMA BuiltStep ==
  ASSUME TypeOK, LocalsFit, BuiltFit, [Next]_vars
  PROVE  BuiltFit'
<1> USE ConstantsAssumption, CurType, OpFields, SnapshotStable DEF Extending, Rewriting, Maintaining, Mutating, Building, Refreshing
<1>1. CASE Begin
  <2>1. PICK g \in Gens \cup {None} :
          \/ CallAppend(g)
          \/ \E n \in 0..MaxRows, m \in BOOLEAN : BeginTruncate(n, m, g)
          \/ \E i \in Indexes : BeginBuild(i, g)
          \/ BeginRefresh(g)
    BY <1>1 DEF Begin
  <2>2. ASSUME NEW given \in SUBSET Columns, NEW k \in 1..(MaxRows - nrows),
               NEW m \in BOOLEAN, NEW data \in Requests(given, k),
               BeginAppend(given, k, data, m, g)
        PROVE  BuiltFit'
    BY <2>2 DEF BeginAppend, SetGeneration, BuiltFit, LocalsFit, tableVars, indexVars, Goto, TypeOK, index_is_valid
  <2>3. ASSUME NEW n \in 0..MaxRows, NEW m \in BOOLEAN, BeginTruncate(n, m, g)
        PROVE  BuiltFit'
    BY <2>3 DEF BeginTruncate, SetGeneration, NoOp, BuiltFit, LocalsFit, tableVars, indexVars, Goto, TypeOK, index_is_valid
  <2>4. ASSUME NEW i \in Indexes, BeginBuild(i, g)
        PROVE  BuiltFit'
    BY <2>4 DEF BeginBuild, SetGeneration, NoOp, localVars, BuiltFit, LocalsFit, tableVars, indexVars, Goto, TypeOK, index_is_valid
  <2>5. CASE BeginRefresh(g)
    BY <2>5 DEF BeginRefresh, SetGeneration, NoOp, BuiltFit, LocalsFit, tableVars, indexVars, Goto, TypeOK, index_is_valid
  <2>6. CASE CallAppend(g)
    <3>1. PICK given \in SUBSET Columns, k \in 1..(MaxRows - nrows), m \in BOOLEAN :
            \E data \in Requests(given, k) : BeginAppend(given, k, data, m, g)
      BY <2>6 DEF CallAppend
    <3>2. PICK data \in Requests(given, k) : BeginAppend(given, k, data, m, g)
      BY <3>1
    <3>3. QED
      BY <3>2, <2>2
  <2>7. QED
    BY <2>1, <2>3, <2>4, <2>5, <2>6
<1>2. CASE Mutate
  <2>1. ASSUME NEW c \in Columns, extend_to(c)
        PROVE  BuiltFit'
    BY <2>1 DEF extend_to, BuiltFit, LocalsFit, tableVars, indexVars, Goto, TypeOK, index_is_valid
  <2>2. CASE WriteColumn
    BY <2>2 DEF WriteColumn, WriteRows, BuiltFit, LocalsFit, tableVars, indexVars, Goto, TypeOK, index_is_valid
  <2>3. CASE FlushColumns
    BY <2>3 DEF FlushColumns, BuiltFit, LocalsFit, tableVars, indexVars, Goto, TypeOK, index_is_valid
  <2>4. ASSUME NEW g \in Gens \cup {None}, StartStep4(g)
        PROVE  BuiltFit'
    BY <2>4 DEF StartStep4, SetGeneration, BuiltFit, LocalsFit, tableVars, indexVars, Goto, TypeOK, index_is_valid
  <2>5. ASSUME NEW i \in Indexes, MaintainGeneration(i)
        PROVE  BuiltFit'
    BY <2>5 DEF MaintainGeneration, BuiltFit, LocalsFit, tableVars, indexVars, Goto, TypeOK, index_is_valid
  <2>6. CASE MaintainNrows
    BY <2>6 DEF MaintainNrows, BuiltFit, LocalsFit, tableVars, indexVars, Goto, TypeOK, index_is_valid
  <2>7. CASE MaintainTear
    BY <2>7 DEF MaintainTear, BuiltFit, LocalsFit, tableVars, indexVars, Goto, TypeOK, index_is_valid
  <2>8. CASE MaintainContent
    BY <2>8 DEF MaintainContent, BuiltFit, LocalsFit, tableVars, indexVars, Goto, TypeOK, index_is_valid
  <2>9. CASE FlushIndexes
    BY <2>9 DEF FlushIndexes, BuiltFit, LocalsFit, tableVars, indexVars, Goto, TypeOK, index_is_valid
  <2>10. CASE BumpGeneration
    BY <2>10 DEF BumpGeneration, BuiltFit, LocalsFit, tableVars, indexVars, Goto, TypeOK, index_is_valid
  <2>11. CASE CommitRows
    BY <2>11 DEF CommitRows, BuiltFit, LocalsFit, tableVars, indexVars, Goto, TypeOK, index_is_valid
  <2>12. QED
    BY <1>2, <2>1, <2>2, <2>3, <2>4, <2>5, <2>6, <2>7, <2>8, <2>9, <2>10, <2>11 DEF Mutate
<1>3. CASE Build
  <2>1. CASE BuildCreate
    BY <2>1 DEF BuildCreate, BuiltFit, LocalsFit, tableVars, indexVars, Goto, TypeOK, index_is_valid
  <2>2. CASE BuildContent
    BY <2>2 DEF BuildContent, BuiltFit, LocalsFit, tableVars, indexVars, Goto, TypeOK, index_is_valid
  <2>3. CASE BuildKind
    BY <2>3 DEF BuildKind, BuiltFit, LocalsFit, tableVars, indexVars, Goto, TypeOK, index_is_valid
  <2>4. CASE BuildGeneration
    BY <2>4 DEF BuildGeneration, BuiltFit, LocalsFit, tableVars, indexVars, Goto, TypeOK, index_is_valid
  <2>5. CASE BuildNrows
    BY <2>5 DEF BuildNrows, BuiltFit, LocalsFit, tableVars, indexVars, Goto, TypeOK, index_is_valid
  <2>6. CASE BuildUnlink
    BY <2>6 DEF BuildUnlink, BuiltFit, LocalsFit, tableVars, indexVars, Goto, TypeOK, index_is_valid
  <2>7. CASE BuildLink
    BY <2>7 DEF BuildLink, BuiltFit, LocalsFit, tableVars, indexVars, Goto, TypeOK, index_is_valid
  <2>8. QED
    BY <1>3, <2>1, <2>2, <2>3, <2>4, <2>5, <2>6, <2>7 DEF Build
<1>4. CASE Refresh
  <2>1. ASSUME NEW i \in Indexes, RefreshSkip(i)
        PROVE  BuiltFit'
    BY <2>1 DEF RefreshSkip, BuiltFit, LocalsFit, tableVars, indexVars, Goto, TypeOK, index_is_valid
  <2>2. ASSUME NEW i \in Indexes, RefreshTear(i)
        PROVE  BuiltFit'
    BY <2>2 DEF RefreshTear, BuiltFit, LocalsFit, tableVars, indexVars, Goto, TypeOK, index_is_valid
  <2>3. CASE RefreshContent
    BY <2>3 DEF RefreshContent, BuiltFit, LocalsFit, tableVars, indexVars, Goto, TypeOK, index_is_valid
  <2>4. CASE RefreshGeneration
    BY <2>4 DEF RefreshGeneration, BuiltFit, LocalsFit, tableVars, indexVars, Goto, TypeOK, index_is_valid
  <2>5. CASE RefreshNrows
    BY <2>5 DEF RefreshNrows, BuiltFit, LocalsFit, tableVars, indexVars, Goto, TypeOK, index_is_valid
  <2>6. CASE FinishRefresh
    BY <2>6 DEF FinishRefresh, Return, BuiltFit, LocalsFit, tableVars, indexVars, Goto, TypeOK, index_is_valid
  <2>7. QED
    BY <1>4, <2>1, <2>2, <2>3, <2>4, <2>5, <2>6 DEF Refresh
<1>5. CASE FlushFile
  BY <1>5 DEF FlushFile, Return, BuiltFit, LocalsFit, tableVars, indexVars, Goto, TypeOK, index_is_valid
<1>6. CASE Fault
  <2>1. CASE Kill
    BY <2>1 DEF Kill, Stopped, PartialRows, WriteRows, Return, BuiltFit, LocalsFit, tableVars, indexVars, Goto, TypeOK, index_is_valid
  <2>2. CASE Raise
    BY <2>2 DEF Raise, Stopped, PartialRows, WriteRows, Return, BuildRollback, BuiltFit, LocalsFit, tableVars, indexVars, Goto, TypeOK, index_is_valid
  <2>3. CASE RepairKilled
    BY <2>3 DEF RepairKilled, localVars, BuiltFit, LocalsFit, tableVars, indexVars, Goto, TypeOK, index_is_valid
  <2>4. QED
    BY <1>6, <2>1, <2>2, <2>3 DEF Fault
<1>7. CASE OtherTool
  <2>1. ASSUME NEW i \in Foreign, ForeignRebuild(i)
        PROVE  BuiltFit'
    BY <2>1 DEF ForeignRebuild, localVars, BuiltFit, LocalsFit, tableVars, indexVars, Goto, TypeOK, index_is_valid
  <2>2. ASSUME NEW g \in Gens, ForeignRetype(g)
        PROVE  BuiltFit'
    BY <2>2 DEF ForeignRetype, localVars, BuiltFit, LocalsFit, tableVars, indexVars, Goto, TypeOK, index_is_valid
  <2>3. QED
    BY <1>7, <2>1, <2>2 DEF OtherTool
<1>8. CASE Idle \/ UNCHANGED vars
  BY <1>8 DEF Idle, vars, localVars, BuiltFit, LocalsFit, tableVars, indexVars, Goto, TypeOK, index_is_valid
<1>9. QED
  BY <1>1, <1>2, <1>3, <1>4, <1>5, <1>6, <1>7, <1>8 DEF Next, Step

\* Every step keeps the maintained indexes ahead and the others behind.
LEMMA MaintainedStep ==
  ASSUME Careful, TypeOK, LocalsFit, GenerationFits, TokensFit, MaintainedFit, [Next]_vars
  PROVE  MaintainedFit'
<1> USE ConstantsAssumption, CurType, OpFields, GensArithmetic, TokenInt DEF Extending, Rewriting, Maintaining, Mutating, Building, Refreshing
<1>1. CASE Begin
  <2>1. PICK g \in Gens \cup {None} :
          \/ CallAppend(g)
          \/ \E n \in 0..MaxRows, m \in BOOLEAN : BeginTruncate(n, m, g)
          \/ \E i \in Indexes : BeginBuild(i, g)
          \/ BeginRefresh(g)
    BY <1>1 DEF Begin
  <2>2. ASSUME NEW given \in SUBSET Columns, NEW k \in 1..(MaxRows - nrows),
               NEW m \in BOOLEAN, NEW data \in Requests(given, k),
               BeginAppend(given, k, data, m, g)
        PROVE  MaintainedFit'
    BY <2>2 DEF BeginAppend, SetGeneration, MaintainedFit, LocalsFit, tableVars, indexVars, Goto, Linked, TypeOK, Snapshot
  <2>3. ASSUME NEW n \in 0..MaxRows, NEW m \in BOOLEAN, BeginTruncate(n, m, g)
        PROVE  MaintainedFit'
    BY <2>3 DEF BeginTruncate, SetGeneration, NoOp, MaintainedFit, LocalsFit, tableVars, indexVars, Goto, Linked, TypeOK, Snapshot
  <2>4. ASSUME NEW i \in Indexes, BeginBuild(i, g)
        PROVE  MaintainedFit'
    BY <2>4 DEF BeginBuild, SetGeneration, NoOp, localVars, MaintainedFit, LocalsFit, tableVars, indexVars, Goto, Linked, TypeOK, Snapshot
  <2>5. CASE BeginRefresh(g)
    BY <2>5 DEF BeginRefresh, SetGeneration, NoOp, MaintainedFit, LocalsFit, tableVars, indexVars, Goto, Linked, TypeOK, Snapshot
  <2>6. CASE CallAppend(g)
    <3>1. PICK given \in SUBSET Columns, k \in 1..(MaxRows - nrows), m \in BOOLEAN :
            \E data \in Requests(given, k) : BeginAppend(given, k, data, m, g)
      BY <2>6 DEF CallAppend
    <3>2. PICK data \in Requests(given, k) : BeginAppend(given, k, data, m, g)
      BY <3>1
    <3>3. QED
      BY <3>2, <2>2
  <2>7. QED
    BY <2>1, <2>3, <2>4, <2>5, <2>6
<1>2. CASE Mutate
  <2>1. ASSUME NEW c \in Columns, extend_to(c)
        PROVE  MaintainedFit'
    BY <2>1 DEF extend_to, MaintainedFit, LocalsFit, tableVars, indexVars, Goto, Linked, TypeOK, Snapshot
  <2>2. CASE WriteColumn
    BY <2>2 DEF WriteColumn, WriteRows, MaintainedFit, LocalsFit, tableVars, indexVars, Goto, Linked, TypeOK, Snapshot
  <2>3. CASE FlushColumns
    BY <2>3 DEF FlushColumns, MaintainedFit, LocalsFit, tableVars, indexVars, Goto, Linked, TypeOK, Snapshot
  <2>4. ASSUME NEW g \in Gens \cup {None}, StartStep4(g)
        PROVE  MaintainedFit'
    BY <2>4 DEF StartStep4, SetGeneration, MaintainedFit, LocalsFit, tableVars, indexVars, Goto, Linked, TypeOK, Snapshot
  <2>5. ASSUME NEW i \in Indexes, MaintainGeneration(i)
        PROVE  MaintainedFit'
    BY <2>5 DEF MaintainGeneration, MaintainedFit, LocalsFit, tableVars, indexVars, Goto, Linked, TypeOK, Snapshot
  <2>6. CASE MaintainNrows
    BY <2>6 DEF MaintainNrows, MaintainedFit, LocalsFit, tableVars, indexVars, Goto, Linked, TypeOK, Snapshot
  <2>7. CASE MaintainTear
    <3>1. \A i \in Indexes : Snapshot(i, op.n)' = Snapshot(i, op.n)
      BY <2>7 DEF MaintainTear, Goto, tableVars, Snapshot
    <3>2. \A i \in Indexes : i # cur => content'[i] = content[i]
      BY <2>7 DEF MaintainTear, TypeOK
    <3>3. sg' = sg /\ sn' = sn /\ status' = status /\ op' = op /\ pc' = "mcontent"
      BY <2>7 DEF MaintainTear, Goto
    <3>4. cur \in todo /\ sg[cur] = op.g + 1 /\ sn[cur] = op.n
      BY <2>7 DEF MaintainTear, LocalsFit, MaintainedFit
    <3>5. ASSUME NEW i \in Linked \ Foreign, i \notin todo'
          PROVE  sg[i] = op.g + 1 /\ sn[i] = op.n /\ content'[i] = Snapshot(i, op.n)
      BY <2>7, <3>2, <3>4, <3>5 DEF MaintainTear, MaintainedFit, LocalsFit, Linked
    <3>6. cur' = cur
      BY <2>7 DEF MaintainTear, Goto
    <3>7. QED
      BY <3>1, <3>3, <3>4, <3>5, <3>6 DEF MaintainedFit, Linked
  <2>8. CASE MaintainContent
    <3>1. \A i \in Indexes : Snapshot(i, op.n)' = Snapshot(i, op.n)
      BY <2>8 DEF MaintainContent, Goto, tableVars, Snapshot
    <3>2. \A i \in Indexes : i # cur => content'[i] = content[i]
      BY <2>8 DEF MaintainContent, TypeOK
    <3>3. sg' = sg /\ sn' = sn /\ status' = status /\ op' = op /\ pc' = "maintain"
      BY <2>8 DEF MaintainContent, Goto
    <3>4. cur \in todo /\ sg[cur] = op.g + 1 /\ sn[cur] = op.n
      BY <2>8 DEF MaintainContent, LocalsFit, MaintainedFit
    <3>5. ASSUME NEW i \in Linked \ Foreign, i \notin todo'
          PROVE  sg[i] = op.g + 1 /\ sn[i] = op.n /\ content'[i] = Snapshot(i, op.n)
      <4>1. CASE i = cur
        BY <2>8, <3>4, <4>1 DEF MaintainContent, TypeOK, Linked
      <4>2. CASE i # cur
        BY <2>8, <3>2, <3>5, <4>2 DEF MaintainContent, MaintainedFit, LocalsFit, Linked
      <4>3. QED
        BY <4>1, <4>2
    <3>6. QED
      BY <3>1, <3>3, <3>5 DEF MaintainedFit, Linked
  <2>9. CASE FlushIndexes
    BY <2>9 DEF FlushIndexes, MaintainedFit, LocalsFit, tableVars, indexVars, Goto, Linked, TypeOK, Snapshot
  <2>10. CASE BumpGeneration
    BY <2>10 DEF BumpGeneration, TokensFit, TokenFits, GenerationFits, Attached, MaintainedFit, LocalsFit, tableVars, indexVars, Goto, Linked, TypeOK, Snapshot
  <2>11. CASE CommitRows
    BY <2>11 DEF CommitRows, GenerationFits, MaintainedFit, LocalsFit, tableVars, indexVars, Goto, Linked, TypeOK, Snapshot
  <2>12. QED
    BY <1>2, <2>1, <2>2, <2>3, <2>4, <2>5, <2>6, <2>7, <2>8, <2>9, <2>10, <2>11 DEF Mutate
<1>3. CASE Build
  <2>1. CASE BuildCreate
    BY <2>1 DEF BuildCreate, MaintainedFit, LocalsFit, tableVars, indexVars, Goto, Linked, TypeOK, Snapshot
  <2>2. CASE BuildContent
    BY <2>2 DEF BuildContent, MaintainedFit, LocalsFit, tableVars, indexVars, Goto, Linked, TypeOK, Snapshot
  <2>3. CASE BuildKind
    BY <2>3 DEF BuildKind, MaintainedFit, LocalsFit, tableVars, indexVars, Goto, Linked, TypeOK, Snapshot
  <2>4. CASE BuildGeneration
    BY <2>4 DEF BuildGeneration, MaintainedFit, LocalsFit, tableVars, indexVars, Goto, Linked, TypeOK, Snapshot
  <2>5. CASE BuildNrows
    BY <2>5 DEF BuildNrows, MaintainedFit, LocalsFit, tableVars, indexVars, Goto, Linked, TypeOK, Snapshot
  <2>6. CASE BuildUnlink
    BY <2>6 DEF BuildUnlink, MaintainedFit, LocalsFit, tableVars, indexVars, Goto, Linked, TypeOK, Snapshot
  <2>7. CASE BuildLink
    BY <2>7 DEF BuildLink, MaintainedFit, LocalsFit, tableVars, indexVars, Goto, Linked, TypeOK, Snapshot
  <2>8. QED
    BY <1>3, <2>1, <2>2, <2>3, <2>4, <2>5, <2>6, <2>7 DEF Build
<1>4. CASE Refresh
  <2>1. ASSUME NEW i \in Indexes, RefreshSkip(i)
        PROVE  MaintainedFit'
    BY <2>1 DEF RefreshSkip, MaintainedFit, LocalsFit, tableVars, indexVars, Goto, Linked, TypeOK, Snapshot
  <2>2. ASSUME NEW i \in Indexes, RefreshTear(i)
        PROVE  MaintainedFit'
    BY <2>2 DEF RefreshTear, MaintainedFit, LocalsFit, tableVars, indexVars, Goto, Linked, TypeOK, Snapshot
  <2>3. CASE RefreshContent
    BY <2>3 DEF RefreshContent, MaintainedFit, LocalsFit, tableVars, indexVars, Goto, Linked, TypeOK, Snapshot
  <2>4. CASE RefreshGeneration
    BY <2>4 DEF RefreshGeneration, MaintainedFit, LocalsFit, tableVars, indexVars, Goto, Linked, TypeOK, Snapshot
  <2>5. CASE RefreshNrows
    BY <2>5 DEF RefreshNrows, MaintainedFit, LocalsFit, tableVars, indexVars, Goto, Linked, TypeOK, Snapshot
  <2>6. CASE FinishRefresh
    BY <2>6 DEF FinishRefresh, Return, MaintainedFit, LocalsFit, tableVars, indexVars, Goto, Linked, TypeOK, Snapshot
  <2>7. QED
    BY <1>4, <2>1, <2>2, <2>3, <2>4, <2>5, <2>6 DEF Refresh
<1>5. CASE FlushFile
  BY <1>5 DEF FlushFile, Return, MaintainedFit, LocalsFit, tableVars, indexVars, Goto, Linked, TypeOK, Snapshot
<1>6. CASE Fault
  <2>1. CASE Kill
    BY <2>1 DEF Kill, Stopped, PartialRows, WriteRows, Return, MaintainedFit, LocalsFit, tableVars, indexVars, Goto, Linked, TypeOK, Snapshot
  <2>2. CASE Raise
    BY <2>2 DEF Raise, Stopped, PartialRows, WriteRows, Return, BuildRollback, MaintainedFit, LocalsFit, tableVars, indexVars, Goto, Linked, TypeOK, Snapshot
  <2>3. CASE RepairKilled
    BY <2>3 DEF RepairKilled, localVars, MaintainedFit, LocalsFit, tableVars, indexVars, Goto, Linked, TypeOK, Snapshot
  <2>4. QED
    BY <1>6, <2>1, <2>2, <2>3 DEF Fault
<1>7. CASE OtherTool
  <2>1. ASSUME NEW i \in Foreign, ForeignRebuild(i)
        PROVE  MaintainedFit'
    BY <2>1 DEF ForeignRebuild, localVars, MaintainedFit, LocalsFit, tableVars, indexVars, Goto, Linked, TypeOK, Snapshot
  <2>2. ASSUME NEW g \in Gens, ForeignRetype(g)
        PROVE  MaintainedFit'
    BY <2>2 DEF ForeignRetype, localVars, MaintainedFit, LocalsFit, tableVars, indexVars, Goto, Linked, TypeOK, Snapshot
  <2>3. QED
    BY <1>7, <2>1, <2>2 DEF OtherTool
<1>8. CASE Idle \/ UNCHANGED vars
  <2>1. UNCHANGED vars
    BY <1>8 DEF Idle
  <2>2. QED
    BY <2>1 DEF MaintainedFit, vars, tableVars, indexVars, localVars, Linked, Snapshot
<1>9. QED
  BY <1>1, <1>2, <1>3, <1>4, <1>5, <1>6, <1>7, <1>8 DEF Next, Step

\* Every step leaves each linked index that passes the check true.
LEMMA TruthStep ==
  ASSUME Careful, IInv, [Next]_vars
  PROVE  AttachedTruth'
<1> USE ConstantsAssumption, CurType, OpFields, GensArithmetic, TokenInt, SnapshotStable DEF IInv, Extending, Rewriting, Maintaining, Mutating, Building, Refreshing
<1>1. CASE Begin
  <2>1. PICK g \in Gens \cup {None} :
          \/ CallAppend(g)
          \/ \E n \in 0..MaxRows, m \in BOOLEAN : BeginTruncate(n, m, g)
          \/ \E i \in Indexes : BeginBuild(i, g)
          \/ BeginRefresh(g)
    BY <1>1 DEF Begin
  <2>2. ASSUME NEW given \in SUBSET Columns, NEW k \in 1..(MaxRows - nrows),
               NEW m \in BOOLEAN, NEW data \in Requests(given, k),
               BeginAppend(given, k, data, m, g)
        PROVE  AttachedTruth'
    BY <2>2, EnsuredGeneration DEF BeginAppend, SetGeneration, Kinded, mutation_generation, AttachedTruth, Attached, index_is_valid, LocalsFit, tableVars, indexVars, Goto, TypeOK
  <2>3. ASSUME NEW n \in 0..MaxRows, NEW m \in BOOLEAN, BeginTruncate(n, m, g)
        PROVE  AttachedTruth'
    BY <2>3, EnsuredGeneration DEF BeginTruncate, SetGeneration, NoOp, Kinded, mutation_generation, AttachedTruth, Attached, index_is_valid, LocalsFit, tableVars, indexVars, Goto, TypeOK
  <2>4. ASSUME NEW i \in Indexes, BeginBuild(i, g)
        PROVE  AttachedTruth'
    BY <2>4, EnsuredGeneration DEF BeginBuild, SetGeneration, NoOp, localVars, Kinded, AttachedTruth, Attached, index_is_valid, LocalsFit, tableVars, indexVars, Goto, TypeOK
  <2>5. CASE BeginRefresh(g)
    BY <2>5, EnsuredGeneration DEF BeginRefresh, SetGeneration, NoOp, Kinded, AttachedTruth, Attached, index_is_valid, LocalsFit, tableVars, indexVars, Goto, TypeOK
  <2>6. CASE CallAppend(g)
    <3>1. PICK given \in SUBSET Columns, k \in 1..(MaxRows - nrows), m \in BOOLEAN :
            \E data \in Requests(given, k) : BeginAppend(given, k, data, m, g)
      BY <2>6 DEF CallAppend
    <3>2. PICK data \in Requests(given, k) : BeginAppend(given, k, data, m, g)
      BY <3>1
    <3>3. QED
      BY <3>2, <2>2
  <2>7. QED
    BY <2>1, <2>3, <2>4, <2>5, <2>6
<1>2. CASE Mutate
  <2>1. ASSUME NEW c \in Columns, extend_to(c)
        PROVE  AttachedTruth'
    BY <2>1 DEF extend_to, AttachedTruth, Attached, index_is_valid, LocalsFit, tableVars, indexVars, Goto, TypeOK
  <2>2. CASE WriteColumn
    BY <2>2 DEF WriteColumn, WriteRows, AttachedTruth, Attached, index_is_valid, LocalsFit, tableVars, indexVars, Goto, TypeOK
  <2>3. CASE FlushColumns
    BY <2>3 DEF FlushColumns, AttachedTruth, Attached, index_is_valid, LocalsFit, tableVars, indexVars, Goto, TypeOK
  <2>4. ASSUME NEW g \in Gens \cup {None}, StartStep4(g)
        PROVE  AttachedTruth'
    BY <2>4, EnsuredGeneration DEF StartStep4, SetGeneration, GenerationFits, Kinded, AttachedTruth, Attached, index_is_valid, LocalsFit, tableVars, indexVars, Goto, TypeOK
  <2>5. ASSUME NEW i \in Indexes, MaintainGeneration(i)
        PROVE  AttachedTruth'
    BY <2>5 DEF MaintainGeneration, GenerationFits, AttachedTruth, Attached, index_is_valid, LocalsFit, tableVars, indexVars, Goto, TypeOK
  <2>6. CASE MaintainNrows
    BY <2>6 DEF MaintainNrows, GenerationFits, MaintainedFit, AttachedTruth, Attached, index_is_valid, LocalsFit, tableVars, indexVars, Goto, TypeOK
  <2>7. CASE MaintainTear
    BY <2>7 DEF MaintainTear, GenerationFits, MaintainedFit, AttachedTruth, Attached, index_is_valid, LocalsFit, tableVars, indexVars, Goto, TypeOK
  <2>8. CASE MaintainContent
    BY <2>8 DEF MaintainContent, GenerationFits, MaintainedFit, AttachedTruth, Attached, index_is_valid, LocalsFit, tableVars, indexVars, Goto, TypeOK
  <2>9. CASE FlushIndexes
    BY <2>9 DEF FlushIndexes, AttachedTruth, Attached, index_is_valid, LocalsFit, tableVars, indexVars, Goto, TypeOK
  <2>10. CASE BumpGeneration
    BY <2>10 DEF BumpGeneration, TokensFit, TokenFits, GenerationFits, MaintainedFit, Linked, AttachedTruth, Attached, index_is_valid, LocalsFit, tableVars, indexVars, Goto, TypeOK
  <2>11. CASE CommitRows
    BY <2>11 DEF CommitRows, GenerationFits, MaintainedFit, Linked, Snapshot, AttachedTruth, Attached, index_is_valid, LocalsFit, tableVars, indexVars, Goto, TypeOK
  <2>12. QED
    BY <1>2, <2>1, <2>2, <2>3, <2>4, <2>5, <2>6, <2>7, <2>8, <2>9, <2>10, <2>11 DEF Mutate
<1>3. CASE Build
  <2>1. CASE BuildCreate
    BY <2>1 DEF BuildCreate, AttachedTruth, Attached, index_is_valid, LocalsFit, tableVars, indexVars, Goto, TypeOK
  <2>2. CASE BuildContent
    BY <2>2 DEF BuildContent, AttachedTruth, Attached, index_is_valid, LocalsFit, tableVars, indexVars, Goto, TypeOK
  <2>3. CASE BuildKind
    BY <2>3 DEF BuildKind, AttachedTruth, Attached, index_is_valid, LocalsFit, tableVars, indexVars, Goto, TypeOK
  <2>4. CASE BuildGeneration
    BY <2>4 DEF BuildGeneration, AttachedTruth, Attached, index_is_valid, LocalsFit, tableVars, indexVars, Goto, TypeOK
  <2>5. CASE BuildNrows
    BY <2>5 DEF BuildNrows, AttachedTruth, Attached, index_is_valid, LocalsFit, tableVars, indexVars, Goto, TypeOK
  <2>6. CASE BuildUnlink
    BY <2>6 DEF BuildUnlink, Linked, AttachedTruth, Attached, index_is_valid, LocalsFit, tableVars, indexVars, Goto, TypeOK
  <2>7. CASE BuildLink
    BY <2>7 DEF BuildLink, BuiltFit, AttachedTruth, Attached, index_is_valid, LocalsFit, tableVars, indexVars, Goto, TypeOK
  <2>8. QED
    BY <1>3, <2>1, <2>2, <2>3, <2>4, <2>5, <2>6, <2>7 DEF Build
<1>4. CASE Refresh
  <2>1. ASSUME NEW i \in Indexes, RefreshSkip(i)
        PROVE  AttachedTruth'
    BY <2>1 DEF RefreshSkip, AttachedTruth, Attached, index_is_valid, LocalsFit, tableVars, indexVars, Goto, TypeOK
  <2>2. ASSUME NEW i \in Indexes, RefreshTear(i)
        PROVE  AttachedTruth'
    BY <2>2 DEF RefreshTear, AttachedTruth, Attached, index_is_valid, LocalsFit, tableVars, indexVars, Goto, TypeOK
  <2>3. CASE RefreshContent
    BY <2>3 DEF RefreshContent, BuiltFit, AttachedTruth, Attached, index_is_valid, LocalsFit, tableVars, indexVars, Goto, TypeOK
  <2>4. CASE RefreshGeneration
    BY <2>4 DEF RefreshGeneration, BuiltFit, AttachedTruth, Attached, index_is_valid, LocalsFit, tableVars, indexVars, Goto, TypeOK
  <2>5. CASE RefreshNrows
    BY <2>5 DEF RefreshNrows, BuiltFit, AttachedTruth, Attached, index_is_valid, LocalsFit, tableVars, indexVars, Goto, TypeOK
  <2>6. CASE FinishRefresh
    BY <2>6 DEF FinishRefresh, Return, AttachedTruth, Attached, index_is_valid, LocalsFit, tableVars, indexVars, Goto, TypeOK
  <2>7. QED
    BY <1>4, <2>1, <2>2, <2>3, <2>4, <2>5, <2>6 DEF Refresh
<1>5. CASE FlushFile
  BY <1>5 DEF FlushFile, Return, AttachedTruth, Attached, index_is_valid, LocalsFit, tableVars, indexVars, Goto, TypeOK
<1>6. CASE Fault
  <2>1. CASE Kill
    BY <2>1 DEF Kill, Stopped, PartialRows, WriteRows, Return, AttachedTruth, Attached, index_is_valid, LocalsFit, tableVars, indexVars, Goto, TypeOK
  <2>2. CASE Raise
    <3>1. CASE op.kind = "build" /\ pc # "flush"
      <4>1. Stopped /\ BuildRollback
        BY <2>2, <3>1 DEF Raise
      <4>2. pc \in Building /\ cur \in Indexes
        BY <3>1, <4>1 DEF Stopped, LocalsFit, TypeOK, Phase
      <4>3. pc' = "idle" /\ UNCHANGED <<nrows, gen, form>>
        BY <4>1 DEF Stopped, Return
      <4>4. status'[cur] = "none"
        BY <4>1, <4>2 DEF BuildRollback, TypeOK
      <4>5. ASSUME NEW j \in Indexes, j # cur
            PROVE  /\ sg'[j] = sg[j] /\ sn'[j] = sn[j] /\ content'[j] = content[j]
                   /\ status'[j] = status[j] \/ Attached(j)
        BY <4>1, <4>2, <4>5 DEF BuildRollback, Attached, LocalsFit, TypeOK
      <4>6. QED
        BY <4>3, <4>4, <4>5 DEF AttachedTruth, Attached, index_is_valid
    <3>2. CASE ~(op.kind = "build" /\ pc # "flush")
      BY <2>2, <3>2 DEF Raise, Stopped, Return, AttachedTruth, Attached, index_is_valid, indexVars
    <3>3. QED
      BY <3>1, <3>2
  <2>3. CASE RepairKilled
    BY <2>3 DEF RepairKilled, localVars, AttachedTruth, Attached, index_is_valid, LocalsFit, tableVars, indexVars, Goto, TypeOK
  <2>4. QED
    BY <1>6, <2>1, <2>2, <2>3 DEF Fault
<1>7. CASE OtherTool
  <2>1. ASSUME NEW i \in Foreign, ForeignRebuild(i)
        PROVE  AttachedTruth'
    BY <2>1 DEF ForeignRebuild, localVars, AttachedTruth, Attached, index_is_valid, LocalsFit, tableVars, indexVars, Goto, TypeOK
  <2>2. ASSUME NEW g \in Gens, ForeignRetype(g)
        PROVE  AttachedTruth'
    BY <2>2 DEF ForeignRetype, localVars, AttachedTruth, Attached, index_is_valid, LocalsFit, tableVars, indexVars, Goto, TypeOK
  <2>3. QED
    BY <1>7, <2>1, <2>2 DEF OtherTool
<1>8. CASE Idle \/ UNCHANGED vars
  BY <1>8 DEF Idle, vars, localVars, AttachedTruth, Attached, index_is_valid, LocalsFit, tableVars, indexVars, Goto, TypeOK
<1>9. QED
  BY <1>1, <1>2, <1>3, <1>4, <1>5, <1>6, <1>7, <1>8 DEF Next, Step

\* Every step builds up what the operation publishes with its last flush.
LEMMA PublishedStep ==
  ASSUME Careful, IInv, [Next]_vars
  PROVE  PublishedFit'
<1> USE ConstantsAssumption, CurType, OpFields, GensArithmetic, TokenInt DEF IInv, Extending, Rewriting, Maintaining, Mutating, Building, Refreshing
<1>1. CASE Begin
  <2>1. PICK g \in Gens \cup {None} :
          \/ CallAppend(g)
          \/ \E n \in 0..MaxRows, m \in BOOLEAN : BeginTruncate(n, m, g)
          \/ \E i \in Indexes : BeginBuild(i, g)
          \/ BeginRefresh(g)
    BY <1>1 DEF Begin
  <2>2. ASSUME NEW given \in SUBSET Columns, NEW k \in 1..(MaxRows - nrows),
               NEW m \in BOOLEAN, NEW data \in Requests(given, k),
               BeginAppend(given, k, data, m, g)
        PROVE  PublishedFit'
    BY <2>2 DEF BeginAppend, SetGeneration, PublishedFit, Restored, Disabled, Believed, index_is_valid, LocalsFit, tableVars, indexVars, Goto, Linked, TypeOK
  <2>3. ASSUME NEW n \in 0..MaxRows, NEW m \in BOOLEAN, BeginTruncate(n, m, g)
        PROVE  PublishedFit'
    BY <2>3 DEF BeginTruncate, SetGeneration, NoOp, PublishedFit, Restored, Disabled, Believed, index_is_valid, LocalsFit, tableVars, indexVars, Goto, Linked, TypeOK
  <2>4. ASSUME NEW i \in Indexes, BeginBuild(i, g)
        PROVE  PublishedFit'
    BY <2>4 DEF BeginBuild, SetGeneration, NoOp, localVars, PublishedFit, Restored, Disabled, Believed, index_is_valid, LocalsFit, tableVars, indexVars, Goto, Linked, TypeOK
  <2>5. CASE BeginRefresh(g)
    BY <2>5 DEF BeginRefresh, SetGeneration, NoOp, PublishedFit, Restored, Disabled, Believed, index_is_valid, LocalsFit, tableVars, indexVars, Goto, Linked, TypeOK
  <2>6. CASE CallAppend(g)
    <3>1. PICK given \in SUBSET Columns, k \in 1..(MaxRows - nrows), m \in BOOLEAN :
            \E data \in Requests(given, k) : BeginAppend(given, k, data, m, g)
      BY <2>6 DEF CallAppend
    <3>2. PICK data \in Requests(given, k) : BeginAppend(given, k, data, m, g)
      BY <3>1
    <3>3. QED
      BY <3>2, <2>2
  <2>7. QED
    BY <2>1, <2>3, <2>4, <2>5, <2>6
<1>2. CASE Mutate
  <2>1. ASSUME NEW c \in Columns, extend_to(c)
        PROVE  PublishedFit'
    BY <2>1 DEF extend_to, PublishedFit, Restored, Disabled, Believed, index_is_valid, LocalsFit, tableVars, indexVars, Goto, Linked, TypeOK
  <2>2. CASE WriteColumn
    BY <2>2 DEF WriteColumn, WriteRows, PublishedFit, Restored, Disabled, Believed, index_is_valid, LocalsFit, tableVars, indexVars, Goto, Linked, TypeOK
  <2>3. CASE FlushColumns
    BY <2>3 DEF FlushColumns, PublishedFit, Restored, Disabled, Believed, index_is_valid, LocalsFit, tableVars, indexVars, Goto, Linked, TypeOK
  <2>4. ASSUME NEW g \in Gens \cup {None}, StartStep4(g)
        PROVE  PublishedFit'
    <3>1. pc = "step4" /\ pc' \in {"bump", "maintain"} /\ op'.maintain = op.maintain /\ op'.g = g
      BY <2>4 DEF StartStep4, TypeOK, Op
    <3>2. Linked' = Linked
      BY <2>4 DEF StartStep4, indexVars, Linked
    <3>3. op.maintain /\ g = None => Kinded = {}
      BY <2>4, EnsuredGeneration DEF StartStep4
    <3>4. Kinded = {} => Linked = {}
      BY DEF Kinded, Linked
    <3>5. QED
      BY <3>1, <3>2, <3>3, <3>4 DEF PublishedFit, Restored, Disabled
  <2>5. ASSUME NEW i \in Indexes, MaintainGeneration(i)
        PROVE  PublishedFit'
    BY <2>5 DEF MaintainGeneration, PublishedFit, Restored, Disabled, Believed, index_is_valid, LocalsFit, tableVars, indexVars, Goto, Linked, TypeOK
  <2>6. CASE MaintainNrows
    BY <2>6 DEF MaintainNrows, PublishedFit, Restored, Disabled, Believed, index_is_valid, LocalsFit, tableVars, indexVars, Goto, Linked, TypeOK
  <2>7. CASE MaintainTear
    BY <2>7 DEF MaintainTear, PublishedFit, Restored, Disabled, Believed, index_is_valid, LocalsFit, tableVars, indexVars, Goto, Linked, TypeOK
  <2>8. CASE MaintainContent
    BY <2>8 DEF MaintainContent, PublishedFit, Restored, Disabled, Believed, index_is_valid, LocalsFit, tableVars, indexVars, Goto, Linked, TypeOK
  <2>9. CASE FlushIndexes
    BY <2>9 DEF FlushIndexes, PublishedFit, Restored, Disabled, Believed, index_is_valid, LocalsFit, tableVars, indexVars, Goto, Linked, TypeOK
  <2>10. CASE BumpGeneration
    BY <2>10 DEF BumpGeneration, PublishedFit, Restored, Disabled, Believed, index_is_valid, LocalsFit, tableVars, indexVars, Goto, Linked, TypeOK
  <2>11. CASE CommitRows
    BY <2>11 DEF CommitRows, MaintainedFit, GenerationFits, PublishedFit, Restored, Disabled, Believed, index_is_valid, LocalsFit, tableVars, indexVars, Goto, Linked, TypeOK
  <2>12. QED
    BY <1>2, <2>1, <2>2, <2>3, <2>4, <2>5, <2>6, <2>7, <2>8, <2>9, <2>10, <2>11 DEF Mutate
<1>3. CASE Build
  <2>1. CASE BuildCreate
    BY <2>1 DEF BuildCreate, PublishedFit, Restored, Disabled, Believed, index_is_valid, LocalsFit, tableVars, indexVars, Goto, Linked, TypeOK
  <2>2. CASE BuildContent
    BY <2>2 DEF BuildContent, PublishedFit, Restored, Disabled, Believed, index_is_valid, LocalsFit, tableVars, indexVars, Goto, Linked, TypeOK
  <2>3. CASE BuildKind
    BY <2>3 DEF BuildKind, PublishedFit, Restored, Disabled, Believed, index_is_valid, LocalsFit, tableVars, indexVars, Goto, Linked, TypeOK
  <2>4. CASE BuildGeneration
    BY <2>4 DEF BuildGeneration, PublishedFit, Restored, Disabled, Believed, index_is_valid, LocalsFit, tableVars, indexVars, Goto, Linked, TypeOK
  <2>5. CASE BuildNrows
    BY <2>5 DEF BuildNrows, PublishedFit, Restored, Disabled, Believed, index_is_valid, LocalsFit, tableVars, indexVars, Goto, Linked, TypeOK
  <2>6. CASE BuildUnlink
    BY <2>6 DEF BuildUnlink, PublishedFit, Restored, Disabled, Believed, index_is_valid, LocalsFit, tableVars, indexVars, Goto, Linked, TypeOK
  <2>7. CASE BuildLink
    BY <2>7 DEF BuildLink, NoOp, PublishedFit, Restored, Disabled, Believed, index_is_valid, LocalsFit, tableVars, indexVars, Goto, Linked, TypeOK
  <2>8. QED
    BY <1>3, <2>1, <2>2, <2>3, <2>4, <2>5, <2>6, <2>7 DEF Build
<1>4. CASE Refresh
  <2>1. ASSUME NEW i \in Indexes, RefreshSkip(i)
        PROVE  PublishedFit'
    BY <2>1 DEF RefreshSkip, PublishedFit, Restored, Disabled, Believed, index_is_valid, LocalsFit, tableVars, indexVars, Goto, Linked, TypeOK
  <2>2. ASSUME NEW i \in Indexes, RefreshTear(i)
        PROVE  PublishedFit'
    BY <2>2 DEF RefreshTear, PublishedFit, Restored, Disabled, Believed, index_is_valid, LocalsFit, tableVars, indexVars, Goto, Linked, TypeOK
  <2>3. CASE RefreshContent
    BY <2>3 DEF RefreshContent, PublishedFit, Restored, Disabled, Believed, index_is_valid, LocalsFit, tableVars, indexVars, Goto, Linked, TypeOK
  <2>4. CASE RefreshGeneration
    BY <2>4 DEF RefreshGeneration, PublishedFit, Restored, Disabled, Believed, index_is_valid, LocalsFit, tableVars, indexVars, Goto, Linked, TypeOK
  <2>5. CASE RefreshNrows
    BY <2>5 DEF RefreshNrows, BuiltFit, PublishedFit, Restored, Disabled, Believed, index_is_valid, LocalsFit, tableVars, indexVars, Goto, Linked, TypeOK
  <2>6. CASE FinishRefresh
    BY <2>6 DEF FinishRefresh, Return, NoOp, PublishedFit, Restored, Disabled, Believed, index_is_valid, LocalsFit, tableVars, indexVars, Goto, Linked, TypeOK
  <2>7. QED
    BY <1>4, <2>1, <2>2, <2>3, <2>4, <2>5, <2>6 DEF Refresh
<1>5. CASE FlushFile
  BY <1>5 DEF FlushFile, Return, PublishedFit, Restored, Disabled, Believed, index_is_valid, LocalsFit, tableVars, indexVars, Goto, Linked, TypeOK
<1>6. CASE Fault
  <2>1. CASE Kill
    BY <2>1 DEF Kill, Stopped, PartialRows, WriteRows, Return, PublishedFit, Restored, Disabled, Believed, index_is_valid, LocalsFit, tableVars, indexVars, Goto, Linked, TypeOK
  <2>2. CASE Raise
    BY <2>2 DEF Raise, Stopped, PartialRows, WriteRows, Return, BuildRollback, PublishedFit, Restored, Disabled, Believed, index_is_valid, LocalsFit, tableVars, indexVars, Goto, Linked, TypeOK
  <2>3. CASE RepairKilled
    BY <2>3 DEF RepairKilled, localVars, PublishedFit, Restored, Disabled, Believed, index_is_valid, LocalsFit, tableVars, indexVars, Goto, Linked, TypeOK
  <2>4. QED
    BY <1>6, <2>1, <2>2, <2>3 DEF Fault
<1>7. CASE OtherTool
  <2>1. ASSUME NEW i \in Foreign, ForeignRebuild(i)
        PROVE  PublishedFit'
    BY <2>1 DEF ForeignRebuild, localVars, PublishedFit, Restored, Disabled, Believed, index_is_valid, LocalsFit, tableVars, indexVars, Goto, Linked, TypeOK
  <2>2. ASSUME NEW g \in Gens, ForeignRetype(g)
        PROVE  PublishedFit'
    BY <2>2 DEF ForeignRetype, localVars, PublishedFit, Restored, Disabled, Believed, index_is_valid, LocalsFit, tableVars, indexVars, Goto, Linked, TypeOK
  <2>3. QED
    BY <1>7, <2>1, <2>2 DEF OtherTool
<1>8. CASE Idle \/ UNCHANGED vars
  BY <1>8 DEF Idle, vars, localVars, PublishedFit, Restored, Disabled, Believed, index_is_valid, LocalsFit, tableVars, indexVars, Goto, Linked, TypeOK
<1>9. QED
  BY <1>1, <1>2, <1>3, <1>4, <1>5, <1>6, <1>7, <1>8 DEF Next, Step

\* The whole invariant holds at the start.
LEMMA InitWhole == Init => IInv
<1> SUFFICES ASSUME Init PROVE IInv
  OBVIOUS
<1> USE ConstantsAssumption, GensArithmetic, InitBase DEF Init
<1>1. TokensFit
  <2>1. \A i \in Indexes : sg[i] = (IF i \in Foreign THEN 0 ELSE None)
    OBVIOUS
  <2>2. \A i \in Indexes : status[i] \in {"none", "bare"} => i \notin Foreign
    OBVIOUS
  <2>3. \A i \in Indexes : TokenFits(i)
    BY <2>1 DEF TokenFits, None
  <2>4. QED
    BY <2>1, <2>2, <2>3 DEF TokensFit, Mutating, Extending, Maintaining, Rewriting, Refreshing
<1>2. MaintainedFit
  BY DEF MaintainedFit, Maintaining, Rewriting
<1>3. BuiltFit
  BY DEF BuiltFit
<1>4. AttachedTruth
  BY DEF AttachedTruth, Attached, index_is_valid, Snapshot, None
<1>5. PublishedFit
  BY DEF PublishedFit, Restored, Disabled, Refreshing, Maintaining, Rewriting
<1>6. QED
  BY <1>1, <1>2, <1>3, <1>4, <1>5 DEF IInv

\* Every step of the code keeps the parts of the invariant together.
LEMMA WholeStep ==
  ASSUME Careful, IInv, [Next]_vars
  PROVE  IInv'
BY TypeStep, LocalsStep, GenerationStep, ExtentsStep, TokensStep, MaintainedStep,
   BuiltStep, TruthStep, PublishedStep DEF IInv

\* The invariant is inductive when callers heal an interrupted maintained
\* mutation before they mutate without maintenance.
THEOREM WholeInvariant ==
  ASSUME Careful
  PROVE  Spec => []IInv
<1>1. IInv /\ [Next]_vars => IInv'
  BY WholeStep
<1>2. QED
  BY InitWhole, <1>1, PTL DEF Spec

\* The promise of the validity tokens: whatever is interrupted and wherever, an
\* index that a query acts on describes exactly the committed rows.
THEOREM IndexesTruthful ==
  ASSUME Careful
  PROVE  Spec => []IndexTruth
<1>1. IInv => IndexTruth
  BY DEF IInv, AttachedTruth, Attached, IndexTruth, Believed, Linked
<1>2. QED
  BY <1>1, WholeInvariant, PTL

\* A refresh or a maintained mutation that reaches its last flush has put every
\* index it can rebuild back in use.
THEOREM MaintenanceRestores ==
  ASSUME Careful
  PROVE  Spec => []Restored
<1>1. IInv => Restored
  BY DEF IInv, PublishedFit
<1>2. QED
  BY <1>1, WholeInvariant, PTL

\* A plain mutation that reaches its last flush has left no index in use.
THEOREM MutationDisables ==
  ASSUME Careful
  PROVE  Spec => []Disabled
<1>1. IInv => Disabled
  BY DEF IInv, PublishedFit
<1>2. QED
  BY <1>1, WholeInvariant, PTL

\* A token on file is never more than one mutation ahead of GENERATION.
THEOREM TokensStayBounded ==
  ASSUME Careful
  PROVE  Spec => []TokensBounded
<1>1. IInv => TokensBounded
  BY DEF IInv, TokensFit, TokenFits, TokensBounded
<1>2. QED
  BY <1>1, WholeInvariant, PTL

-----------------------------------------------------------------------------
(* The refinement of AbstractTable.                                        *)

Working == Phase \ {"idle", "flush"}

\* What an append has written so far is what it was given.
DataFits ==
  pc \in Mutating /\ op.kind = "append" =>
    /\ op.given = Columns
    /\ \A c \in Columns : c \notin todo \/ pc \notin Extending =>
         \A r \in (nrows + 1)..op.n : cell[c][r] = op.data[c][r]

\* The rows a reader sees are the same after the step.
SameRows ==
  /\ nrows' = nrows
  /\ \A c \in Columns : \A r \in 1..nrows : cell'[c][r] = cell[c][r]

-----------------------------------------------------------------------------
(* How a step is seen by the abstract table, by its effect on the rows and *)
(* on the step the running call is at.                                     *)

\* What a reader finds depends on the committed rows only.
LEMMA SameCommitted ==
  ASSUME SameRows
  PROVE  Committed' = Committed
  BY DEF SameRows, Committed

\* Nothing a reader or the caller can tell: the call goes on, or none runs.
LEMMA QuietStep ==
  ASSUME SameRows, op'.n = op.n, op'.data = op.data, pc \in Working, pc' \in Working
  PROVE  UNCHANGED Abstract!vars
<1>1. Committed' = Committed
  BY SameCommitted
<1>2. Promised' = Promised
  <2> DEFINE P(c, r) == IF r <= nrows THEN cell[c][r] ELSE op.data[c][r]
  <2>1. \A c \in Columns : \A r \in 1..op.n : r <= nrows => cell'[c][r] = cell[c][r]
    BY DEF SameRows
  <2>2. QED
    BY <2>1 DEF Promised, SameRows
<1>3. QED
  BY <1>1, <1>2 DEF Abstract!vars, Progress, Goal, Working

\* A step between calls that changes no row is not seen.
LEMMA RestStep ==
  ASSUME SameRows, pc = "idle", pc' = "idle"
  PROVE  UNCHANGED Abstract!vars
  BY SameCommitted DEF Abstract!vars, Progress, Goal

\* A call that returns, fails or dies.
LEMMA ReturnStep ==
  ASSUME SameRows, pc # "idle", pc' = "idle"
  PROVE  Abstract!Return
  BY SameCommitted DEF Abstract!Return, Progress, Goal

\* The committed rows are a table of AbstractTable.
LEMMA CommittedType ==
  ASSUME TypeOK
  PROVE  Committed \in Abstract!Tables(nrows)
<1>1. \A r \in 1..nrows : r \in Row
  BY GensArithmetic DEF TypeOK, Row
<1>2. QED
  BY <1>1 DEF TypeOK, Committed, Abstract!Tables

\* The rows a call promises are a table.
LEMMA PromisedType ==
  ASSUME TypeOK
  PROVE  Promised \in Abstract!Tables(op.n)
<1>1. \A r \in 1..op.n : r \in Row
  BY OpFields, GensArithmetic DEF Row
<1>2. QED
  BY <1>1, OpFields DEF TypeOK, Promised, Abstract!Tables

\* A call that begins.
LEMMA CallStep ==
  ASSUME TypeOK, TypeOK', nrows' = nrows, cell' = cell, pc = "idle", pc' \in Working
  PROVE  Abstract!Next
<1>1. Committed' = Committed
  BY SameCommitted DEF SameRows
<1>2. Committed \in Abstract!Tables(nrows)
  BY CommittedType
<1>3. Promised' \in Abstract!Tables(op'.n)
  <2>1. \A r \in 1..op'.n : r \in Row
    BY OpFields, GensArithmetic DEF Row, TypeOK, Op
  <2>2. QED
    BY <2>1 DEF TypeOK, Op, Promised, Abstract!Tables
<1>4. nrows \in 0..MaxRows /\ op'.n \in 0..MaxRows
  BY DEF TypeOK, Op
<1>5. \A c \in Columns, r \in 1..(IF op'.n < nrows THEN op'.n ELSE nrows) :
        Promised'[c][r] = Committed[c][r]
  BY <1>4 DEF Promised, Committed
<1>6. Abstract!Call(nrows, op'.n)
  BY <1>1, <1>2, <1>3, <1>5 DEF Abstract!Call, Abstract!Agrees, Progress, Goal, Working
<1>7. QED
  BY <1>4, <1>6 DEF Abstract!Next

\* The rows of the table are those promised, and become visible.
LEMMA CommitStep ==
  ASSUME TypeOK, pc \in Working, pc' = "flush", nrows' = op.n, cell' = cell,
         op'.n = op.n, op'.data = op.data,
         \A c \in Columns : \A r \in 1..op.n : r <= nrows \/ cell[c][r] = op.data[c][r]
  PROVE  Abstract!Next
<1>1. Committed' = Promised
  BY DEF Committed, Promised
<1>2. Promised' = Promised
  BY OpFields DEF Promised
<1>3. QED
  BY <1>1, <1>2 DEF Abstract!Next, Abstract!Commit, Progress, Goal, Working

-----------------------------------------------------------------------------
(* Every step keeps what has been written, and is a step of the abstract    *)
(* table.                                                                   *)

\* Before the first call no column was given data.
LEMMA DataInit == Init => DataFits
  BY DEF Init, DataFits, Mutating, Extending, Maintaining, Rewriting

\* A call names its rows and enters its first step without touching a column.
LEMMA BeginCases ==
  ASSUME TypeOK, TypeOK', ~Omission, Begin
  PROVE  DataFits' /\ (Abstract!Next \/ UNCHANGED Abstract!vars)
<1> USE DEF Extending, Rewriting, Maintaining, Mutating, Working, Phase
<1>1. PICK g \in Gens \cup {None} :
        \/ CallAppend(g)
        \/ \E n \in 0..MaxRows, m \in BOOLEAN : BeginTruncate(n, m, g)
        \/ \E i \in Indexes : BeginBuild(i, g)
        \/ BeginRefresh(g)
  BY DEF Begin
<1>2. CASE CallAppend(g)
  <2>1. PICK given \in SUBSET Columns, k \in 1..(MaxRows - nrows), m \in BOOLEAN :
          /\ given = Columns
          /\ \E data \in Requests(given, k) : BeginAppend(given, k, data, m, g)
    BY <1>2 DEF CallAppend
  <2>2. PICK data \in Requests(given, k) : BeginAppend(given, k, data, m, g)
    BY <2>1
  <2>3. DataFits'
    BY <2>1, <2>2 DEF BeginAppend, DataFits
  <2>4. Abstract!Next
    BY <2>2, CallStep DEF BeginAppend
  <2>5. QED
    BY <2>3, <2>4
<1>3. ASSUME NEW n \in 0..MaxRows, NEW m \in BOOLEAN, BeginTruncate(n, m, g)
      PROVE  DataFits' /\ Abstract!Next
  <2>1. DataFits'
    BY <1>3 DEF BeginTruncate, DataFits
  <2>2. Abstract!Next
    BY <1>3, CallStep DEF BeginTruncate
  <2>3. QED
    BY <2>1, <2>2
<1>4. ASSUME NEW i \in Indexes, BeginBuild(i, g)
      PROVE  DataFits' /\ (Abstract!Next \/ UNCHANGED Abstract!vars)
  <2>1. DataFits'
    BY <1>4 DEF BeginBuild, localVars, DataFits
  <2>2. CASE status[i] = "none"
    BY <1>4, <2>1, <2>2, CallStep DEF BeginBuild
  <2>3. CASE status[i] # "none"
    BY <1>4, <2>1, <2>3, RestStep DEF BeginBuild, localVars, SameRows
  <2>4. QED
    BY <2>1, <2>2, <2>3
<1>5. CASE BeginRefresh(g)
  <2>1. DataFits'
    BY <1>5 DEF BeginRefresh, DataFits
  <2>2. Abstract!Next
    BY <1>5, CallStep DEF BeginRefresh
  <2>3. QED
    BY <2>1, <2>2
<1>6. QED
  BY <1>1, <1>2, <1>3, <1>4, <1>5

\* The steps of append and truncate: only the commit is seen.
LEMMA MutateCases ==
  ASSUME Base, DataFits, Mutate
  PROVE  DataFits' /\ (Abstract!Next \/ UNCHANGED Abstract!vars)
<1> USE CurType, OpFields, GensArithmetic
    DEF Base, Extending, Rewriting, Maintaining, Mutating, Working, Phase
<1>1. ASSUME NEW c \in Columns, extend_to(c)
      PROVE  DataFits' /\ UNCHANGED Abstract!vars
  <2>1. pc' \in Working /\ op' = op
    BY <1>1 DEF extend_to, DataFits, LocalsFit
  <2>2. DataFits'
    BY <1>1 DEF extend_to, DataFits, LocalsFit
  <2>3. UNCHANGED Abstract!vars
    BY <1>1, <2>1, QuietStep DEF extend_to, SameRows
  <2>4. QED
    BY <2>2, <2>3
<1>2. CASE WriteColumn
  <2>1. \A c \in Columns, r \in Row :
          cell'[c][r] = IF c = cur /\ r \in (nrows + 1)..op.n THEN op.data[c][r] ELSE cell[c][r]
    BY <1>2 DEF WriteColumn, WriteRows, TypeOK
  <2>2. \A r \in 1..MaxRows : r \in Row
    BY DEF Row
  <2>3. DataFits'
    BY <1>2, <2>1, <2>2 DEF WriteColumn, DataFits, TypeOK
  <2>4. SameRows
    BY <1>2, <2>1, <2>2 DEF WriteColumn, SameRows, TypeOK
  <2>5. UNCHANGED Abstract!vars
    BY <1>2, <2>4, QuietStep DEF WriteColumn
  <2>6. QED
    BY <2>3, <2>5
<1>3. CASE FlushColumns
  <2>1. DataFits'
    BY <1>3 DEF FlushColumns, Goto, tableVars, DataFits
  <2>2. UNCHANGED Abstract!vars
    BY <1>3, QuietStep DEF FlushColumns, Goto, tableVars, SameRows
  <2>3. QED
    BY <2>1, <2>2
<1>4. ASSUME NEW g \in Gens \cup {None}, StartStep4(g)
      PROVE  DataFits' /\ UNCHANGED Abstract!vars
  <2>1. op'.n = op.n /\ op'.data = op.data /\ op'.kind = op.kind /\ op'.given = op.given
    BY <1>4 DEF StartStep4, TypeOK, Op
  <2>2. DataFits'
    BY <1>4, <2>1 DEF StartStep4, DataFits
  <2>3. UNCHANGED Abstract!vars
    BY <1>4, <2>1, QuietStep DEF StartStep4, SameRows
  <2>4. QED
    BY <2>2, <2>3
<1>5. ASSUME NEW i \in Indexes, MaintainGeneration(i)
      PROVE  DataFits' /\ UNCHANGED Abstract!vars
  <2>1. DataFits'
    BY <1>5 DEF MaintainGeneration, Goto, tableVars, DataFits
  <2>2. UNCHANGED Abstract!vars
    BY <1>5, QuietStep DEF MaintainGeneration, Goto, tableVars, SameRows
  <2>3. QED
    BY <2>1, <2>2
<1>6. CASE MaintainNrows
  <2>1. DataFits'
    BY <1>6 DEF MaintainNrows, Goto, tableVars, DataFits
  <2>2. UNCHANGED Abstract!vars
    BY <1>6, QuietStep DEF MaintainNrows, Goto, tableVars, SameRows
  <2>3. QED
    BY <2>1, <2>2
<1>7. CASE MaintainTear
  <2>1. DataFits'
    BY <1>7 DEF MaintainTear, Goto, tableVars, DataFits
  <2>2. UNCHANGED Abstract!vars
    BY <1>7, QuietStep DEF MaintainTear, Goto, tableVars, SameRows
  <2>3. QED
    BY <2>1, <2>2
<1>8. CASE MaintainContent
  <2>1. DataFits'
    BY <1>8 DEF MaintainContent, Goto, tableVars, DataFits
  <2>2. UNCHANGED Abstract!vars
    BY <1>8, QuietStep DEF MaintainContent, Goto, tableVars, SameRows
  <2>3. QED
    BY <2>1, <2>2
<1>9. CASE FlushIndexes
  <2>1. DataFits'
    BY <1>9 DEF FlushIndexes, Goto, tableVars, DataFits
  <2>2. UNCHANGED Abstract!vars
    BY <1>9, QuietStep DEF FlushIndexes, Goto, tableVars, SameRows
  <2>3. QED
    BY <2>1, <2>2
<1>10. CASE BumpGeneration
  <2>1. DataFits'
    BY <1>10 DEF BumpGeneration, Goto, tableVars, DataFits
  <2>2. UNCHANGED Abstract!vars
    BY <1>10, QuietStep DEF BumpGeneration, Goto, tableVars, SameRows
  <2>3. QED
    BY <2>1, <2>2
<1>11. CASE CommitRows
  <2>1. \A c \in Columns : \A r \in 1..op.n : r <= nrows \/ cell[c][r] = op.data[c][r]
    BY <1>11 DEF CommitRows, DataFits, LocalsFit, TypeOK
  <2>2. Abstract!Next
    BY <1>11, <2>1, CommitStep DEF CommitRows, Goto
  <2>3. DataFits'
    BY <1>11 DEF CommitRows, Goto, DataFits
  <2>4. QED
    BY <2>2, <2>3
<1>12. QED
  BY <1>1, <1>2, <1>3, <1>4, <1>5, <1>6, <1>7, <1>8, <1>9, <1>10, <1>11 DEF Mutate

\* Building an index publishes the rows that are there.
LEMMA BuildCases ==
  ASSUME Base, DataFits, Build
  PROVE  DataFits' /\ (Abstract!Next \/ UNCHANGED Abstract!vars)
<1> USE OpFields, GensArithmetic
    DEF Base, Extending, Rewriting, Maintaining, Mutating, Building, Working, Phase
<1>1. CASE BuildCreate
  <2>1. DataFits'
    BY <1>1 DEF BuildCreate, Goto, tableVars, DataFits
  <2>2. UNCHANGED Abstract!vars
    BY <1>1, QuietStep DEF BuildCreate, Goto, tableVars, SameRows
  <2>3. QED
    BY <2>1, <2>2
<1>2. CASE BuildContent
  <2>1. DataFits'
    BY <1>2 DEF BuildContent, Goto, tableVars, DataFits
  <2>2. UNCHANGED Abstract!vars
    BY <1>2, QuietStep DEF BuildContent, Goto, tableVars, SameRows
  <2>3. QED
    BY <2>1, <2>2
<1>3. CASE BuildKind
  <2>1. DataFits'
    BY <1>3 DEF BuildKind, Goto, tableVars, DataFits
  <2>2. UNCHANGED Abstract!vars
    BY <1>3, QuietStep DEF BuildKind, Goto, tableVars, SameRows
  <2>3. QED
    BY <2>1, <2>2
<1>4. CASE BuildGeneration
  <2>1. DataFits'
    BY <1>4 DEF BuildGeneration, Goto, tableVars, DataFits
  <2>2. UNCHANGED Abstract!vars
    BY <1>4, QuietStep DEF BuildGeneration, Goto, tableVars, SameRows
  <2>3. QED
    BY <2>1, <2>2
<1>5. CASE BuildNrows
  <2>1. DataFits'
    BY <1>5 DEF BuildNrows, Goto, tableVars, DataFits
  <2>2. UNCHANGED Abstract!vars
    BY <1>5, QuietStep DEF BuildNrows, Goto, tableVars, SameRows
  <2>3. QED
    BY <2>1, <2>2
<1>6. CASE BuildUnlink
  <2>1. DataFits'
    BY <1>6 DEF BuildUnlink, Goto, tableVars, DataFits
  <2>2. UNCHANGED Abstract!vars
    BY <1>6, QuietStep DEF BuildUnlink, Goto, tableVars, SameRows
  <2>3. QED
    BY <2>1, <2>2
<1>7. CASE BuildLink
  <2>1. op.n = nrows
    BY <1>7 DEF BuildLink, LocalsFit
  <2>2. Abstract!Next
    BY <1>7, <2>1, CommitStep DEF BuildLink, Goto, tableVars
  <2>3. DataFits'
    BY <1>7 DEF BuildLink, Goto, DataFits
  <2>4. QED
    BY <2>2, <2>3
<1>8. QED
  BY <1>1, <1>2, <1>3, <1>4, <1>5, <1>6, <1>7 DEF Build

\* So does refreshing; a refresh that rewrote nothing just returns.
LEMMA RefreshCases ==
  ASSUME Base, DataFits, Refresh
  PROVE  DataFits' /\ (Abstract!Next \/ UNCHANGED Abstract!vars)
<1> USE OpFields, GensArithmetic
    DEF Base, Extending, Rewriting, Maintaining, Mutating, Refreshing, Working, Phase
<1>1. ASSUME NEW i \in Indexes, RefreshSkip(i)
      PROVE  DataFits' /\ UNCHANGED Abstract!vars
  <2>1. DataFits'
    BY <1>1 DEF RefreshSkip, Goto, tableVars, DataFits
  <2>2. UNCHANGED Abstract!vars
    BY <1>1, QuietStep DEF RefreshSkip, Goto, tableVars, SameRows
  <2>3. QED
    BY <2>1, <2>2
<1>2. ASSUME NEW i \in Indexes, RefreshTear(i)
      PROVE  DataFits' /\ UNCHANGED Abstract!vars
  <2>1. DataFits'
    BY <1>2 DEF RefreshTear, Goto, tableVars, DataFits
  <2>2. UNCHANGED Abstract!vars
    BY <1>2, QuietStep DEF RefreshTear, Goto, tableVars, SameRows
  <2>3. QED
    BY <2>1, <2>2
<1>3. CASE RefreshContent
  <2>1. DataFits'
    BY <1>3 DEF RefreshContent, Goto, tableVars, DataFits
  <2>2. UNCHANGED Abstract!vars
    BY <1>3, QuietStep DEF RefreshContent, Goto, tableVars, SameRows
  <2>3. QED
    BY <2>1, <2>2
<1>4. CASE RefreshGeneration
  <2>1. DataFits'
    BY <1>4 DEF RefreshGeneration, Goto, tableVars, DataFits
  <2>2. UNCHANGED Abstract!vars
    BY <1>4, QuietStep DEF RefreshGeneration, Goto, tableVars, SameRows
  <2>3. QED
    BY <2>1, <2>2
<1>5. CASE RefreshNrows
  <2>1. DataFits'
    BY <1>5 DEF RefreshNrows, Goto, tableVars, DataFits
  <2>2. UNCHANGED Abstract!vars
    BY <1>5, QuietStep DEF RefreshNrows, Goto, tableVars, SameRows
  <2>3. QED
    BY <2>1, <2>2
<1>6. CASE FinishRefresh
  <2>1. DataFits'
    BY <1>6 DEF FinishRefresh, Return, Goto, DataFits
  <2>2. op.n = nrows
    BY <1>6 DEF FinishRefresh, LocalsFit
  <2>3. CASE cur = NoName
    BY <1>6, <2>1, <2>3, ReturnStep DEF FinishRefresh, Return, tableVars, SameRows, Abstract!Next
  <2>4. CASE cur # NoName
    BY <1>6, <2>1, <2>2, <2>4, CommitStep DEF FinishRefresh, Goto, tableVars
  <2>5. QED
    BY <2>1, <2>3, <2>4
<1>7. QED
  BY <1>1, <1>2, <1>3, <1>4, <1>5, <1>6 DEF Refresh

\* A call that fails leaves the rows a reader sees; so do other tools.
LEMMA OtherCases ==
  ASSUME Base, DataFits, FlushFile \/ Fault \/ OtherTool \/ Idle \/ UNCHANGED vars
  PROVE  DataFits' /\ (Abstract!Next \/ UNCHANGED Abstract!vars)
<1> USE CurType, OpFields, GensArithmetic
    DEF Base, Extending, Rewriting, Maintaining, Mutating
<1>1. CASE FlushFile
  <2>1. DataFits'
    BY <1>1 DEF FlushFile, Return, DataFits
  <2>2. Abstract!Return
    BY <1>1, ReturnStep DEF FlushFile, Return, tableVars, SameRows
  <2>3. QED
    BY <2>1, <2>2 DEF Abstract!Next
<1>2. CASE Kill \/ Raise
  <2>1. Stopped /\ PartialRows
    BY <1>2 DEF Kill, Raise
  <2>2. DataFits'
    BY <2>1 DEF Stopped, Return, DataFits
  <2>3. \A c \in Columns, r \in Row : r <= nrows => cell'[c][r] = cell[c][r]
    <3>1. CASE pc = "write"
      <4>1. PICK rows \in SUBSET ((nrows + 1)..op.n) : WriteRows(rows)
        BY <2>1, <3>1 DEF PartialRows
      <4>2. QED
        BY <4>1 DEF WriteRows, TypeOK, Row
    <3>2. CASE pc # "write"
      BY <2>1, <3>2 DEF PartialRows
    <3>3. QED
      BY <3>1, <3>2
  <2>4. SameRows
    BY <2>1, <2>3 DEF Stopped, SameRows, TypeOK, Row
  <2>5. Abstract!Return
    BY <2>1, <2>4, ReturnStep DEF Stopped, Return
  <2>6. QED
    BY <2>2, <2>5 DEF Abstract!Next
<1>3. CASE RepairKilled \/ OtherTool \/ Idle
  <2>1. pc = "idle" /\ pc' = "idle" /\ op' = op /\ nrows' = nrows /\ cell' = cell
    BY <1>3 DEF RepairKilled, OtherTool, ForeignRebuild, ForeignRetype, Idle, vars, localVars, tableVars
  <2>2. DataFits'
    BY <2>1 DEF DataFits
  <2>3. UNCHANGED Abstract!vars
    BY <2>1, RestStep DEF SameRows
  <2>4. QED
    BY <2>2, <2>3
<1>4. CASE UNCHANGED vars
  <2>1. DataFits'
    BY <1>4 DEF vars, localVars, tableVars, DataFits
  <2>2. UNCHANGED Abstract!vars
    BY <1>4 DEF vars, localVars, tableVars, Abstract!vars, Progress, Goal, Committed, Promised
  <2>3. QED
    BY <2>1, <2>2
<1>5. QED
  BY <1>1, <1>2, <1>3, <1>4 DEF Fault

\* The constructors leave the empty abstract table.
LEMMA InitRefines == Init => Abstract!Init
<1> SUFFICES ASSUME Init
             PROVE  Abstract!Init
  OBVIOUS
<1>1. Committed \in Abstract!Tables(0)
  BY DEF Init, Committed, Abstract!Tables
<1>2. QED
  BY <1>1 DEF Init, Abstract!Init, Progress, Goal

\* Appends and truncations are atomic for whoever reads NROWS rows, whatever
\* fails and whoever else writes, for every table, every schema and every
\* bound, when no column is left out of an append (Table.append,
\* Table.truncate; with omitted columns the residue of a truncated row shows).
THEOREM TableImplemented ==
  ASSUME ~Omission
  PROVE  Spec => ImplementsTable
<1>1. Init => Base /\ DataFits
  BY InitBase, DataInit DEF Base
<1>2. ASSUME Base, DataFits, [Next]_vars
      PROVE  DataFits' /\ (Abstract!Next \/ UNCHANGED Abstract!vars)
  <2>1. TypeOK /\ TypeOK'
    BY <1>2, TypeStep DEF Base
  <2>2. QED
    BY <1>2, <2>1, BeginCases, MutateCases, BuildCases, RefreshCases, OtherCases DEF Next, Step
<1>3. Base /\ DataFits /\ [Next]_vars => DataFits' /\ [Abstract!Next]_(Abstract!vars)
  BY <1>2
<1>4. QED
  BY <1>1, <1>3, InitRefines, BaseInvariant, PTL DEF Spec, ImplementsTable, Abstract!Spec

-----------------------------------------------------------------------------
(* Power loss: mixtures of two images.                                     *)

\* A mixture of two images of an object has their type, and element by element
\* one of their values.
LEMMA MixtureTypes ==
  ASSUME NEW D, NEW T, NEW new \in [D -> T], NEW old \in [D -> T],
         NEW m \in Mixtures(new, old)
  PROVE  m \in [D -> T] /\ \A x \in D : m[x] \in {new[x], old[x]}
BY DEF Mixtures

\* Content that was not being rewritten is not torn.
LEMMA TornTypes ==
  ASSUME NEW D, NEW T, Torn \in T, NEW new \in [D -> T], NEW old \in [D -> T],
         NEW m \in TornMixtures(new, old)
  PROVE  m \in [D -> T] /\ \A x \in D : new[x] = old[x] => m[x] = new[x]
<1>1. PICK S \in SUBSET DOMAIN new :
        m \in Mixtures([x \in DOMAIN new |-> IF x \in S /\ new[x] # old[x] THEN Torn ELSE new[x]], old)
  BY DEF TornMixtures
<1> DEFINE torn == [x \in D |-> IF x \in S /\ new[x] # old[x] THEN Torn ELSE new[x]]
<1>2. torn \in [D -> T] /\ m \in Mixtures(torn, old)
  BY <1>1
<1>3. \A x \in D : new[x] = old[x] => torn[x] = new[x]
  OBVIOUS
<1> HIDE DEF torn
<1>4. m \in [D -> T] /\ \A x \in D : m[x] \in {torn[x], old[x]}
  BY <1>2, MixtureTypes
<1> QED BY <1>3, <1>4

\* A step in memory or a flush is a step of TableStore.
LEMMA StepsOfTable ==
  ASSUME Volatile \/ Flush
  PROVE  Next
BY DEF Volatile, Flush, Next, Step, Mutate, Fault

\* What a step in memory does to the rows: the commit changes NROWS, and
\* nothing touches a column from step 4 on.
LEMMA VolatileEffects ==
  ASSUME Base, Volatile
  PROVE  /\ pc # "flush" /\ UNCHANGED <<disk, losses, exposed>>
         /\ CommitRows \/ (nrows' = nrows /\ (pc' # "flush" \/ op'.kind \notin {"append", "truncate"}))
         /\ pc' \in Mutating \ Extending /\ op'.kind = "append" =>
              /\ pc \in Mutating \ Extending /\ op.kind = "append"
              /\ op'.n = op.n /\ cell' = cell
<1> USE DEF Extending, Rewriting, Maintaining, Mutating, Building, Refreshing
<1> DEFINE Effects ==
      /\ pc # "flush"
      /\ CommitRows \/ (nrows' = nrows /\ (pc' # "flush" \/ op'.kind \notin {"append", "truncate"}))
      /\ pc' \in Mutating \ Extending /\ op'.kind = "append" =>
           /\ pc \in Mutating \ Extending /\ op.kind = "append"
           /\ op'.n = op.n /\ cell' = cell
<1>1. /\ Begin \/ Mutate \/ Build \/ Refresh \/ (Raise /\ pc # "flush")
      /\ ~FlushColumns /\ ~FlushIndexes /\ UNCHANGED <<disk, losses, exposed>>
  BY DEF Volatile, Step
<1>2. CASE Begin
  <2>1. PICK g \in Gens \cup {None} :
          \/ CallAppend(g)
          \/ \E n \in 0..MaxRows, m \in BOOLEAN : BeginTruncate(n, m, g)
          \/ \E i \in Indexes : BeginBuild(i, g)
          \/ BeginRefresh(g)
    BY <1>2 DEF Begin
  <2>2. ASSUME CallAppend(g) PROVE Effects
    BY <2>2 DEF CallAppend, BeginAppend
  <2>3. ASSUME NEW n \in 0..MaxRows, NEW m \in BOOLEAN, BeginTruncate(n, m, g) PROVE Effects
    BY <2>3 DEF BeginTruncate, NoOp
  <2>4. ASSUME NEW i \in Indexes, BeginBuild(i, g) PROVE Effects
    BY <2>4 DEF BeginBuild, NoOp, localVars
  <2>5. ASSUME BeginRefresh(g) PROVE Effects
    BY <2>5 DEF BeginRefresh, NoOp
  <2> QED BY <1>1, <2>1, <2>2, <2>3, <2>4, <2>5
<1>3. CASE Mutate
  <2>1. CASE CommitRows
    BY <1>1, <2>1 DEF CommitRows, Goto, Base, LocalsFit
  <2>2. CASE ~CommitRows
    BY <1>1, <1>3, <2>2
       DEF Mutate, extend_to, WriteColumn, StartStep4, MaintainGeneration, MaintainNrows, MaintainTear,
           MaintainContent, BumpGeneration, Goto, tableVars, TypeOK, Op, Base
  <2> QED BY <2>1, <2>2
<1>4. CASE Build
  BY <1>1, <1>4 DEF Build, BuildCreate, BuildContent, BuildKind, BuildGeneration, BuildNrows, BuildUnlink,
                    BuildLink, Goto, tableVars, Base, LocalsFit
<1>5. CASE Refresh
  BY <1>1, <1>5 DEF Refresh, RefreshSkip, RefreshTear, RefreshContent, RefreshGeneration, RefreshNrows,
                    FinishRefresh, Return, NoOp, Goto, tableVars, Base, LocalsFit
<1>6. CASE Raise /\ pc # "flush"
  BY <1>1, <1>6 DEF Raise, Stopped, Return
<1> QED BY <1>1, <1>2, <1>3, <1>4, <1>5, <1>6

-----------------------------------------------------------------------------
(* The rows.                                                               *)

\* What the image of a flush holds is what memory holds.
LEMMA ImageFields ==
  ASSUME disk' = Image'
  PROVE  /\ disk'.nrows = nrows' /\ disk'.gen = gen' /\ disk'.form = form'
         /\ disk'.ext = ext' /\ disk'.cell = cell' /\ disk'.status = status'
         /\ disk'.sg = sg' /\ disk'.sn = sn' /\ disk'.content = content'
BY DEF Image

\* No step in memory writes to a row that the last flush or NROWS commits.
LEMMA VolatileRows ==
  ASSUME RowsInv, Volatile
  PROVE  RowsInv'
<1> USE GensArithmetic, OpFields DEF RowsInv
<1>1. /\ pc # "flush" /\ UNCHANGED <<disk, losses, exposed>>
      /\ CommitRows \/ (nrows' = nrows /\ (pc' # "flush" \/ op'.kind \notin {"append", "truncate"}))
      /\ pc' \in Mutating \ Extending /\ op'.kind = "append" =>
           /\ pc \in Mutating \ Extending /\ op.kind = "append"
           /\ op'.n = op.n /\ cell' = cell
  BY VolatileEffects
<1>2. [Next]_vars
  BY StepsOfTable
<1>3. Base'
  BY <1>2, TypeStep, LocalsStep, GenerationStep, ExtentsStep DEF Base
<1>4. \A c \in Columns, r \in Row : r <= nrows /\ r <= nrows' => cell'[c][r] = cell[c][r]
  BY <1>2, CommittedStep DEF Base
<1>5. disk.nrows = nrows /\ nrows \in 0..MaxRows /\ DiskTypeOK' /\ DiskTypeOK
  BY <1>1 DEF RowsFlushed, DiskTypeOK, Base, TypeOK
<1>6. CASE CommitRows
  <2>1. /\ pc = "rows" /\ nrows' = op.n /\ pc' = "flush" /\ op' = op
        /\ cell' = cell /\ ext' = ext
    BY <1>6 DEF CommitRows, Goto
  <2>2. pc \in Mutating \ Extending /\ op.kind \in {"append", "truncate"}
    BY <2>1 DEF Base, LocalsFit, Mutating, Extending, Maintaining
  <2>3. op.kind = "truncate" => op.n < nrows
    BY <2>2 DEF Base, LocalsFit
  <2>4. op.kind = "append" => \A c \in Columns : op.n <= ext[c]
    BY <2>2 DEF Base, ExtentsFit
  <2>5. op.n \in 0..MaxRows
    BY DEF Base
  <2>6. \A c \in Columns : ext[c] \in 0..MaxRows /\ disk.ext[c] \in 0..MaxRows
    BY <1>5 DEF Base, TypeOK, DiskTypeOK
  <2>7. RowsFlushed'
    <3>1. \A c \in Columns : /\ op.n <= disk.ext[c] /\ disk.nrows <= disk.ext[c]
                             /\ op.n <= ext[c] /\ disk.nrows <= ext[c]
      BY <1>5, <2>2, <2>3, <2>4, <2>5, <2>6 DEF RowsFlushed, PromiseFlushed
    <3>2. \A c \in Columns, r \in Row :
            r <= op.n \/ r <= disk.nrows => cell[c][r] = disk.cell[c][r]
      BY <1>5, <2>2, <2>3, <2>5 DEF RowsFlushed, PromiseFlushed, Row
    <3> QED BY <1>1, <2>1, <2>2, <3>1, <3>2 DEF RowsFlushed
  <2>8. PromiseFlushed'
    BY <2>1 DEF PromiseFlushed, Mutating, Maintaining, Extending, Rewriting
  <2> QED BY <1>3, <1>5, <2>7, <2>8
<1>7. CASE ~CommitRows
  <2>1. nrows' = nrows /\ (pc' # "flush" \/ op'.kind \notin {"append", "truncate"})
    BY <1>1, <1>7
  <2>2. \A c \in Columns : nrows <= ext'[c]
    BY <1>3, <2>1 DEF Base, ExtentsFit, RowsCovered
  <2>3. RowsFlushed'
    BY <1>1, <1>4, <1>5, <2>1, <2>2 DEF RowsFlushed
  <2>4. PromiseFlushed'
    BY <1>1, <2>1 DEF PromiseFlushed
  <2> QED BY <1>3, <1>5, <2>3, <2>4
<1> QED BY <1>6, <1>7

\* A flush makes the two images one.
LEMMA FlushRows ==
  ASSUME RowsInv, Flush
  PROVE  RowsInv'
<1> USE DEF RowsInv
<1>1. [Next]_vars
  BY StepsOfTable
<1>2. Base'
  BY <1>1, TypeStep, LocalsStep, GenerationStep, ExtentsStep DEF Base
<1>3. disk' = Image' /\ UNCHANGED <<losses, exposed>>
  BY DEF Flush, Image, FlushColumns, FlushIndexes, FlushFile, tableVars, indexVars
<1>4. DiskTypeOK'
  BY <1>2, <1>3, ImageFields DEF DiskTypeOK, Base, TypeOK
<1>5. RowsFlushed'
  BY <1>2, <1>3, ImageFields DEF RowsFlushed, Base, ExtentsFit, RowsCovered
<1>6. PromiseFlushed'
  BY <1>2, <1>3, ImageFields DEF PromiseFlushed, Base, ExtentsFit
<1> QED BY <1>2, <1>4, <1>5, <1>6

\* Where the power goes, either row count is within both extents, and up to it
\* both images hold the same rows.
LEMMA LossRows ==
  ASSUME RowsInv, PowerLoss
  PROVE  /\ RowsInv'
         /\ \A c \in Columns, r \in Row : r <= nrows' => cell'[c][r] = cell[c][r]
<1> USE DEF RowsInv
<1>1. /\ nrows' \in {nrows, disk.nrows} /\ ext' \in Mixtures(ext, disk.ext)
      /\ gen' \in {gen, disk.gen} /\ form' \in {form, disk.form}
      /\ status' \in Mixtures(status, disk.status)
      /\ sg' \in Mixtures(sg, disk.sg) /\ sn' \in Mixtures(sn, disk.sn)
      /\ content' \in TornMixtures(content, disk.content)
      /\ pc' = "idle" /\ op' = NoOp /\ todo' = {} /\ cur' = NoName
      /\ interrupted' = (interrupted \/ op.maintain) /\ disk' = Image'
      /\ losses < MaxLosses /\ losses' = losses + 1
      /\ exposed' = (exposed \/ Unflushed)
  BY DEF PowerLoss, Return
<1>2. PICK f \in Mixtures([p \in Columns \X Row |-> cell[p[1]][p[2]]],
                          [p \in Columns \X Row |-> disk.cell[p[1]][p[2]]]) :
        cell' = [c \in Columns |-> [r \in Row |-> f[<<c, r>>]]]
  BY DEF PowerLoss
<1>3. TypeOK /\ DiskTypeOK
  BY DEF Base
<1> DEFINE new == [p \in Columns \X Row |-> cell[p[1]][p[2]]]
           old == [p \in Columns \X Row |-> disk.cell[p[1]][p[2]]]
<1>4. /\ new \in [Columns \X Row -> Cell] /\ old \in [Columns \X Row -> Cell]
      /\ \A c \in Columns, r \in Row : new[<<c, r>>] = cell[c][r] /\ old[<<c, r>>] = disk.cell[c][r]
      /\ f \in Mixtures(new, old)
  BY <1>2, <1>3 DEF TypeOK, DiskTypeOK
<1> HIDE DEF new, old
<1>5. /\ f \in [Columns \X Row -> Cell]
      /\ \A p \in Columns \X Row : f[p] \in {new[p], old[p]}
  BY <1>4, MixtureTypes
<1>6. /\ cell' \in [Columns -> [Row -> Cell]]
      /\ \A c \in Columns, r \in Row : cell'[c][r] \in {cell[c][r], disk.cell[c][r]}
  BY <1>2, <1>4, <1>5
<1>7. ext' \in [Columns -> 0..MaxRows] /\ \A c \in Columns : ext'[c] \in {ext[c], disk.ext[c]}
  <2>1. ext \in [Columns -> 0..MaxRows] /\ disk.ext \in [Columns -> 0..MaxRows]
    BY <1>3 DEF TypeOK, DiskTypeOK
  <2> QED BY <1>1, <2>1, MixtureTypes
<1>8. /\ status' \in [Indexes -> {"none", "bare", "kinded", "linked"}]
      /\ sg' \in [Indexes -> Gens \cup {None}] /\ sn' \in [Indexes -> 0..MaxRows \cup {None}]
  BY <1>1, <1>3, MixtureTypes DEF TypeOK, DiskTypeOK
<1>9. content' \in [Indexes -> Prefixes \cup {Torn}]
  <2> DEFINE Content == Prefixes \cup {Torn}
  <2>1. content \in [Indexes -> Content] /\ disk.content \in [Indexes -> Content] /\ Torn \in Content
    BY <1>3 DEF TypeOK, DiskTypeOK
  <2> HIDE DEF Content
  <2>2. content' \in [Indexes -> Content]
    BY <1>1, <2>1, TornTypes
  <2> QED BY <2>2 DEF Content
<1>10. TypeOK'
  BY <1>1, <1>3, <1>6, <1>7, <1>8, <1>9, NoOpType, OpFields DEF TypeOK, DiskTypeOK, Phase
<1>11. DiskTypeOK'
  BY <1>1, <1>3, <1>10, ImageFields, ConstantsAssumption, DurableAssumption
     DEF DiskTypeOK, TypeOK, Unflushed
<1>12. LocalsFit' /\ GenerationFits' /\ PromiseFlushed'
  BY <1>1 DEF LocalsFit, GenerationFits, PromiseFlushed, Mutating, Extending, Maintaining, Rewriting,
              Building, Refreshing
<1>13. \A c \in Columns : nrows' <= ext'[c]
  BY <1>1, <1>7 DEF RowsFlushed
<1>14. ExtentsFit'
  BY <1>1, <1>13 DEF ExtentsFit, RowsCovered, Mutating, Extending, Maintaining, Rewriting
<1>15. RowsFlushed'
  BY <1>1, <1>13, ImageFields DEF RowsFlushed
<1>16. \A c \in Columns, r \in Row : r <= nrows' => cell'[c][r] = cell[c][r]
  BY <1>1, <1>6 DEF RowsFlushed
<1> QED BY <1>10, <1>11, <1>12, <1>14, <1>15, <1>16 DEF Base

\* A flushed table and indexes built over it.
LEMMA DurableInitial == DurableInit => RowsInv
<1> SUFFICES ASSUME DurableInit PROVE RowsInv
  OBVIOUS
<1> DEFINE old == PreBuilt \cup Foreign
<1>1. PICK n \in 0..MaxRows :
        /\ nrows = n /\ gen = 0
        /\ form = IF old = {} THEN "absent" ELSE "uint64"
        /\ ext = [c \in Columns |-> n] /\ cell = NoData
        /\ status = [i \in Indexes |-> IF i \in old THEN "linked" ELSE "none"]
        /\ sg = [i \in Indexes |-> IF i \in old THEN 0 ELSE None]
        /\ sn = [i \in Indexes |-> IF i \in old THEN n ELSE None]
        /\ content = [i \in Indexes |-> IF i \in old THEN Snapshot(i, n) ELSE Torn]
        /\ pc = "idle" /\ op = NoOp /\ todo = {} /\ cur = NoName
        /\ interrupted = FALSE
        /\ disk = Image /\ losses = 0 /\ exposed = FALSE
  BY DEF DurableInit
<1>2. cell \in [Columns -> [Row -> Cell]]
  BY <1>1 DEF NoData, Cell
<1>3. \A i \in Indexes : Snapshot(i, n) \in Prefixes
  <2> TAKE i \in Indexes
  <2>1. Owner[i] \in Columns /\ \A r \in 1..n : r \in Row
    BY ConstantsAssumption DEF Row
  <2>2. Snapshot(i, n) \in [1..n -> Cell]
    BY <1>2, <2>1 DEF Snapshot
  <2> QED BY <2>2 DEF Prefixes
<1> HIDE DEF old
<1>4. TypeOK
  <2>1. content \in [Indexes -> Prefixes \cup {Torn}]
    BY <1>1, <1>3
  <2>2. /\ nrows \in 0..MaxRows /\ gen \in Gens /\ form \in {"absent", "uint64", "malformed"}
        /\ ext \in [Columns -> 0..MaxRows]
        /\ status \in [Indexes -> {"none", "bare", "kinded", "linked"}]
        /\ sg \in [Indexes -> Gens \cup {None}] /\ sn \in [Indexes -> 0..MaxRows \cup {None}]
    BY <1>1, GensArithmetic
  <2>3. pc \in Phase /\ op \in Op /\ interrupted \in BOOLEAN
    BY <1>1, NoOpType DEF Phase
  <2> QED BY <1>1, <1>2, <2>1, <2>2, <2>3 DEF TypeOK
<1>5. LocalsFit /\ GenerationFits /\ PromiseFlushed
  BY <1>1 DEF LocalsFit, GenerationFits, PromiseFlushed, Mutating, Extending, Maintaining, Rewriting,
              Building, Refreshing
<1>6. ExtentsFit
  BY <1>1 DEF ExtentsFit, RowsCovered, NoOp
<1>7. DiskTypeOK
  <2>1. /\ disk.nrows = nrows /\ disk.gen = gen /\ disk.form = form
        /\ disk.ext = ext /\ disk.cell = cell /\ disk.status = status
        /\ disk.sg = sg /\ disk.sn = sn /\ disk.content = content
    BY <1>1 DEF Image
  <2>2. losses \in 0..MaxLosses /\ exposed \in BOOLEAN
    <3>1. 0 \in 0..MaxLosses
      BY DurableAssumption
    <3> QED BY <1>1, <3>1
  <2> QED BY <1>4, <2>1, <2>2 DEF DiskTypeOK, TypeOK
<1>8. RowsFlushed
  BY <1>1 DEF RowsFlushed, Image
<1> QED BY <1>4, <1>5, <1>6, <1>7, <1>8 DEF RowsInv, Base

\* The rows of both images stay in step, however often the power goes.
LEMMA DurableRows == RowsInv /\ [DurableNext]_durableVars => RowsInv'
<1> SUFFICES ASSUME RowsInv, [DurableNext]_durableVars PROVE RowsInv'
  OBVIOUS
<1>1. CASE UNCHANGED <<vars, disk, losses, exposed>>
  <2>1. Base'
    BY <1>1, TypeStep, LocalsStep, GenerationStep, ExtentsStep DEF Base, RowsInv
  <2>2. UNCHANGED <<nrows, ext, cell, pc, op, disk, losses, exposed>>
    BY <1>1 DEF vars, tableVars, localVars
  <2> QED BY <2>1, <2>2 DEF RowsInv, DiskTypeOK, RowsFlushed, PromiseFlushed
<1>2. CASE Volatile \/ Flush \/ PowerLoss
  BY <1>2, VolatileRows, FlushRows, LossRows
<1> QED BY <1>1, <1>2 DEF DurableNext, durableVars, Idle

\* The invariant of the rows on disk and in memory: either row count is within
\* both extents, and the rows it commits are the same in both images, because
\* append flushes the columns before it commits NROWS (step 3 before step 6).
THEOREM RowsFlushedFirst == DurableSpec => []RowsInv
BY DurableInitial, DurableRows, PTL DEF DurableSpec

\* NROWS never points beyond a column, however often the power went.
THEOREM RowsCoveredAfterLoss == DurableSpec => []RowsCovered
<1>1. RowsInv => RowsCovered
  BY DEF RowsInv, Base, ExtentsFit
<1> QED BY <1>1, RowsFlushedFirst, PTL

\* However often the power goes, what a reader finds afterwards are the rows of
\* the last flush or those committed when it went.
THEOREM CommittedRowsSurviveLoss == DurableSpec => LossKeepsCommit
<1>1. ASSUME RowsInv, PowerLoss
      PROVE  RowsOf(Image') \in {RowsOf(Image), RowsOf(disk)}
  <2>1. nrows' \in {nrows, disk.nrows} /\ nrows' \in 0..MaxRows
    BY <1>1, LossRows DEF PowerLoss, RowsInv, Base, TypeOK
  <2>2. \A c \in Columns, r \in 1..nrows' :
          cell'[c][r] = cell[c][r] /\ (nrows' = disk.nrows => cell[c][r] = disk.cell[c][r])
    BY <1>1, <2>1, LossRows, GensArithmetic DEF Row, RowsInv, RowsFlushed
  <2>3. RowsOf(Image') = [c \in Columns |-> [r \in 1..nrows' |-> cell'[c][r]]]
    BY DEF RowsOf, Image
  <2>4. CASE nrows' = nrows
    BY <2>2, <2>3, <2>4 DEF RowsOf, Image
  <2>5. CASE nrows' = disk.nrows
    <3>1. \A c \in Columns, r \in 1..nrows' : cell'[c][r] = disk.cell[c][r]
      BY <2>2, <2>5
    <3>2. RowsOf(disk) = [c \in Columns |-> [r \in 1..nrows' |-> disk.cell[c][r]]]
      BY <2>5 DEF RowsOf
    <3>3. [c \in Columns |-> [r \in 1..nrows' |-> cell'[c][r]]]
            = [c \in Columns |-> [r \in 1..nrows' |-> disk.cell[c][r]]]
      BY <3>1
    <3> QED BY <2>3, <3>2, <3>3
  <2> QED BY <2>1, <2>4, <2>5
<1>2. RowsInv => [PowerLoss => RowsOf(Image') \in {RowsOf(Image), RowsOf(disk)}]_durableVars
  BY <1>1
<1> QED BY <1>2, RowsFlushedFirst, PTL DEF LossKeepsCommit, DurableSpec
-----------------------------------------------------------------------------
(* The indexes, until the power goes.                                      *)

\* The rows a flushed index may describe do not change in memory.
LEMMA FlushedSnapshot ==
  ASSUME RowsInv, RowsInv', UNCHANGED disk, NEW i \in Indexes
  PROVE  Snapshot(i, disk.nrows)' = Snapshot(i, disk.nrows)
<1>1. Owner[i] \in Columns /\ \A r \in 1..disk.nrows : r \in Row /\ r <= disk.nrows
  BY ConstantsAssumption DEF RowsInv, DiskTypeOK, Row
<1>2. \A r \in 1..disk.nrows : cell'[Owner[i]][r] = cell[Owner[i]][r]
  BY <1>1 DEF RowsInv, RowsFlushed
<1> QED BY <1>2 DEF Snapshot

\* A call that starts, GENERATION repaired or created, leaves the tokens as they are.
LEMMA BeginFlushed ==
  ASSUME RowsInv, IInv, FlushedInv, op'.kind # "refresh", Begin, UNCHANGED disk
  PROVE  IndexesFit' /\ TokensAgree' /\ (Maintained => Maintained') /\ EndFits'
<1> USE GensArithmetic DEF RowsInv, IInv, Base, FlushedInv
<1>1. pc = "idle"
  BY DEF Begin, CallAppend, BeginAppend, BeginTruncate, BeginBuild, BeginRefresh
<1>2. /\ UNCHANGED <<nrows, status, sg, sn, interrupted>>
      /\ (\E i \in Indexes : Attached(i)) => gen' = gen /\ form' = form
      /\ form' # "malformed"
  <2>1. PICK g \in Gens \cup {None} :
          /\ CallAppend(g) \/ (\E n \in 0..MaxRows, m \in BOOLEAN : BeginTruncate(n, m, g))
               \/ (\E i \in Indexes : BeginBuild(i, g)) \/ BeginRefresh(g)
    BY DEF Begin
  <2>2. /\ SetGeneration(g) /\ UNCHANGED <<nrows, status, sg, sn, interrupted>>
        /\ mutation_generation(g) \/ ensure_generation(g)
    BY <2>1 DEF CallAppend, BeginAppend, BeginTruncate, BeginBuild, BeginRefresh, indexVars
  <2>3. form = "uint64" => g = gen
    BY <2>2, EnsuredGeneration DEF mutation_generation
  <2> QED BY <2>2, <2>3 DEF SetGeneration, IndexesFit, TypeOK
<1>3. /\ pc' \in {"idle", "columns", "step4", "bcreate"} /\ (pc' = "idle" => UNCHANGED op)
      /\ pc' = "bcreate" => cur' \in Indexes /\ status[cur'] = "none"
  BY <1>1 DEF Begin, CallAppend, BeginAppend, BeginTruncate, BeginBuild, BeginRefresh, localVars, NoOp
<1>4. \A i \in Indexes : Attached(i)' <=> Attached(i)
  BY <1>1, <1>2, <1>3 DEF Attached
<1>5. IndexesFit'
  BY <1>1, <1>2, <1>3, <1>4 DEF IndexesFit, OnDisk, Building
<1>6. TokensAgree'
  BY <1>1, <1>2, <1>3, <1>4 DEF TokensAgree
<1>7. (Maintained => Maintained') /\ EndFits'
  BY <1>1, <1>2, <1>3 DEF Maintained, EndFits
<1> QED BY <1>5, <1>6, <1>7

\* The writes of an append or a truncate: a token that a maintained mutation
\* writes is ahead of GENERATION until the bump, and of NROWS until the commit.
LEMMA MutateFlushed ==
  ASSUME RowsInv, IInv, IInv', FlushedInv, Mutate, ~FlushColumns, ~FlushIndexes, UNCHANGED disk
  PROVE  IndexesFit' /\ TokensAgree' /\ (Maintained => Maintained') /\ EndFits'
<1> USE GensArithmetic, OpFields, CurType, TokenInt
    DEF RowsInv, IInv, Base, FlushedInv, Goto, tableVars, indexVars,
        Attached, OnDisk, Building, Mutating, Maintaining, Extending, Rewriting
<1> DEFINE Kept == IndexesFit' /\ TokensAgree' /\ (Maintained => Maintained') /\ EndFits'
<1>1. ASSUME NEW c \in Columns, extend_to(c) PROVE Kept
  BY <1>1 DEF extend_to, IndexesFit, TokensAgree, Maintained, EndFits
<1>2. ASSUME WriteColumn PROVE Kept
  BY <1>2 DEF WriteColumn, IndexesFit, TokensAgree, Maintained, EndFits
<1>3. ASSUME NEW g \in Gens \cup {None}, StartStep4(g) PROVE Kept
  <2>1. /\ pc = "step4" /\ pc' \in {"bump", "maintain"} /\ op' = [op EXCEPT !.g = g]
        /\ todo' = IF op.maintain /\ g # None THEN Linked \ Foreign ELSE {}
        /\ pc' = "bump" => todo' = {}
        /\ UNCHANGED <<nrows, status, sg, sn, interrupted>>
    BY <1>3 DEF StartStep4
  <2>2. op'.maintain = op.maintain
    BY <2>1 DEF TypeOK, Op
  <2>3. /\ (\E i \in Indexes : Attached(i)) => gen' = gen /\ form' = form
        /\ form' # "malformed"
        /\ op.maintain /\ g = None => Kinded = {}
    BY <1>3, EnsuredGeneration
       DEF StartStep4, SetGeneration, IndexesFit, GenerationFits
  <2>4. \A i \in Indexes : Attached(i)' <=> Attached(i)
    BY <2>1
  <2>5. IndexesFit'
    BY <2>1, <2>3, <2>4 DEF IndexesFit
  <2>6. TokensAgree' /\ (Maintained => Maintained')
    BY <2>1, <2>2, <2>3, <2>4 DEF TokensAgree, Maintained
  <2>7. pc' = "bump" /\ op.maintain => \A i \in Indexes \ Foreign : ~OnDisk(i)
    BY <2>1, <2>3 DEF IndexesFit, Linked, Kinded
  <2> QED BY <2>1, <2>2, <2>5, <2>6, <2>7 DEF EndFits
<1>4. ASSUME NEW i \in Indexes, MaintainGeneration(i) PROVE Kept
  <2>1. IndexesFit' /\ TokensAgree'
    BY <1>4 DEF MaintainGeneration, IndexesFit, TokensAgree, TypeOK, LocalsFit, GenerationFits, None
  <2> QED BY <1>4, <2>1 DEF MaintainGeneration, Maintained, EndFits
<1>5. ASSUME MaintainNrows PROVE Kept
  BY <1>5 DEF MaintainNrows, IndexesFit, TokensAgree, TypeOK, LocalsFit, GenerationFits, MaintainedFit,
              Maintained, EndFits
<1>6. ASSUME MaintainTear PROVE Kept
  BY <1>6 DEF MaintainTear, IndexesFit, TokensAgree, Maintained, EndFits
<1>7. ASSUME MaintainContent PROVE Kept
  BY <1>7 DEF MaintainContent, IndexesFit, TokensAgree, Maintained, EndFits
<1>8. ASSUME BumpGeneration PROVE Kept
  <2>1. /\ pc = "bump" /\ pc' = "rows" /\ gen' = (IF op.g = None THEN gen ELSE op.g + 1)
        /\ UNCHANGED <<nrows, form, status, sg, sn, op, todo, cur, interrupted>>
    BY <1>8 DEF BumpGeneration
  <2>2. IndexesFit' /\ (Maintained => Maintained') /\ EndFits'
    BY <2>1 DEF IndexesFit, Maintained, EndFits
  <2>3. \A i \in Indexes : Attached(i)' => status[i] = "linked" /\ op.g # None
    BY <2>1 DEF IndexesFit, GenerationFits
  <2>4. TokensAgree'
    BY <2>1, <2>3 DEF TokensAgree, MaintainedFit, Linked, TypeOK
  <2> QED BY <2>2, <2>4
<1>9. ASSUME CommitRows PROVE Kept
  <2>1. /\ pc = "rows" /\ pc' = "flush" /\ nrows' = op.n
        /\ interrupted' = (interrupted /\ ~op.maintain)
        /\ UNCHANGED <<gen, form, status, sg, sn, op, todo, cur>>
    BY <1>9 DEF CommitRows
  <2>2. IndexesFit' /\ (Maintained => Maintained')
    BY <2>1 DEF IndexesFit, Maintained
  <2>3. \A i \in Indexes : Attached(i)' => status[i] = "linked" /\ op.g # None
    BY <2>1 DEF IndexesFit, GenerationFits
  <2>4. TokensAgree'
    BY <2>1, <2>3 DEF TokensAgree, MaintainedFit, Linked, TypeOK
  <2>5. disk.nrows = nrows /\ nrows # op.n /\ (~op.maintain => ~interrupted)
    BY <2>1 DEF RowsFlushed, LocalsFit, TokensFit, TypeOK
  <2> QED BY <2>1, <2>2, <2>4, <2>5 DEF EndFits
<1> QED BY <1>1, <1>2, <1>3, <1>4, <1>5, <1>6, <1>7, <1>8, <1>9 DEF Mutate

\* A builder has its tokens before its link.
LEMMA BuildFlushed ==
  ASSUME RowsInv, IInv, FlushedInv, Build, UNCHANGED disk
  PROVE  IndexesFit' /\ TokensAgree' /\ (Maintained => Maintained') /\ EndFits'
<1> USE GensArithmetic, OpFields, CurType
    DEF RowsInv, IInv, Base, FlushedInv, Goto, tableVars, indexVars,
        Attached, OnDisk, Building, Linked, TypeOK, LocalsFit, None
<1> DEFINE Kept == IndexesFit' /\ TokensAgree' /\ (Maintained => Maintained') /\ EndFits'
<1>1. ASSUME BuildCreate PROVE Kept
  BY <1>1 DEF BuildCreate, IndexesFit, TokensAgree, Maintained, EndFits
<1>2. ASSUME BuildContent PROVE Kept
  BY <1>2 DEF BuildContent, IndexesFit, TokensAgree, Maintained, EndFits
<1>3. ASSUME BuildKind PROVE Kept
  BY <1>3 DEF BuildKind, IndexesFit, TokensAgree, Maintained, EndFits
<1>4. ASSUME BuildGeneration PROVE Kept
  BY <1>4 DEF BuildGeneration, IndexesFit, TokensAgree, Maintained, EndFits
<1>5. ASSUME BuildNrows PROVE Kept
  BY <1>5 DEF BuildNrows, IndexesFit, TokensAgree, Maintained, EndFits
<1>6. ASSUME BuildUnlink PROVE Kept
  BY <1>6 DEF BuildUnlink, IndexesFit, TokensAgree, Maintained, EndFits
<1>7. ASSUME BuildLink PROVE Kept
  <2>1. IndexesFit' /\ TokensAgree'
    BY <1>7 DEF BuildLink, IndexesFit, TokensAgree, BuiltFit
  <2> QED BY <1>7, <2>1 DEF BuildLink, Maintained, EndFits
<1> QED BY <1>1, <1>2, <1>3, <1>4, <1>5, <1>6, <1>7 DEF Build

\* A call that fails counts as interrupted if it maintains indexes, and a builder
\* that fails takes its index away again.
LEMMA RaiseFlushed ==
  ASSUME RowsInv, IInv, FlushedInv, op.kind # "refresh", Raise, pc # "flush", UNCHANGED disk
  PROVE  IndexesFit' /\ TokensAgree' /\ (Maintained => Maintained') /\ EndFits'
<1> USE DEF RowsInv, IInv, Base, FlushedInv
<1>1. /\ pc' = "idle" /\ op' = NoOp /\ todo' = {} /\ cur' = NoName
      /\ interrupted' = (interrupted \/ op.maintain)
      /\ UNCHANGED <<nrows, gen, form>>
      /\ pc # "idle"
  BY DEF Raise, Stopped, Return
<1>2. (Maintained => Maintained') /\ EndFits'
  BY <1>1 DEF Maintained, EndFits, NoOp
<1>3. CASE op.kind = "build"
  <2>1. BuildRollback /\ pc \in Building
    BY <1>1, <1>3 DEF Raise, LocalsFit, TypeOK, Phase, Mutating, Extending, Maintaining, Rewriting, Building,
                      Refreshing
  <2>2. /\ cur \in Indexes /\ ~Attached(cur) /\ (pc # "blink" => todo = {})
    BY <2>1, CurType DEF LocalsFit, Attached, Building
  <2>3. \A i \in Indexes :
          /\ status'[i] = IF i = cur THEN "none" ELSE IF i \in todo THEN "linked" ELSE status[i]
          /\ sg'[i] = IF i = cur THEN None ELSE sg[i]
          /\ sn'[i] = IF i = cur THEN None ELSE sn[i]
    BY <2>1 DEF BuildRollback, TypeOK
  <2>4. \A i \in Indexes : Attached(i)' <=> Attached(i)
    BY <1>1, <2>2, <2>3 DEF Attached, IndexesFit
  <2>5. IndexesFit'
    BY <1>1, <2>1, <2>2, <2>3, <2>4 DEF IndexesFit, OnDisk
  <2>6. TokensAgree'
    BY <1>1, <2>1, <2>2, <2>3, <2>4 DEF TokensAgree, Building
  <2> QED BY <1>2, <2>5, <2>6
<1>4. CASE op.kind # "build"
  <2>1. UNCHANGED <<status, sg, sn>> /\ pc \notin Building
    BY <1>4 DEF Raise, indexVars, LocalsFit
  <2>2. \A i \in Indexes : Attached(i)' <=> Attached(i)
    BY <1>1, <2>1 DEF Attached, Building
  <2>3. IndexesFit'
    BY <1>1, <2>1, <2>2 DEF IndexesFit, OnDisk
  <2>4. TokensAgree'
    BY <1>1, <2>1, <2>2 DEF TokensAgree
  <2> QED BY <1>2, <2>3, <2>4
<1> QED BY <1>3, <1>4

\* A step in memory keeps what is known of tokens on disk and in memory.
LEMMA VolatileFlushed ==
  ASSUME Careful, RowsInv, IInv, FlushedInv, op.kind # "refresh", op'.kind # "refresh", Volatile
  PROVE  FlushedInv'
<1>1. RowsInv' /\ UNCHANGED disk
  BY VolatileRows DEF Volatile
<1>2. IInv'
  BY StepsOfTable, WholeStep
<1>3. ~Refresh
  BY DEF Refresh, RefreshSkip, RefreshTear, RefreshContent, RefreshGeneration, RefreshNrows, FinishRefresh,
         IInv, LocalsFit, Refreshing
<1>4. IndexesFit' /\ TokensAgree' /\ (Maintained => Maintained') /\ EndFits'
  BY <1>1, <1>2, <1>3, BeginFlushed, MutateFlushed, BuildFlushed, RaiseFlushed
     DEF Volatile, Step
<1>5. \A i \in Indexes : Snapshot(i, disk.nrows)' = Snapshot(i, disk.nrows)
  BY <1>1, FlushedSnapshot
<1>6. DiskAgrees'
  BY <1>1, <1>4, <1>5 DEF FlushedInv, DiskAgrees, OnDisk
<1> QED BY <1>4, <1>6 DEF FlushedInv

\* A flush brings the image on disk up to the tokens that count.
LEMMA FlushFlushed ==
  ASSUME Careful, RowsInv, IInv, FlushedInv, Flush
  PROVE  FlushedInv'
<1> USE GensArithmetic, OpFields, TokenInt DEF IInv, FlushedInv
<1>1. /\ disk' = Image' /\ UNCHANGED <<nrows, gen, form, status, sg, sn, content, interrupted>>
      /\ pc \in {"columns", "maintain", "flush"} /\ pc' \in {"step4", "bump", "idle"}
      /\ pc' # "idle" => UNCHANGED op
      /\ pc' = "idle" => op' = NoOp /\ pc = "flush"
      /\ pc' = "bump" => pc = "maintain" /\ todo = {}
  BY DEF Flush, FlushColumns, FlushIndexes, FlushFile, Goto, Return, Image, tableVars, indexVars
<1>2. IInv'
  BY StepsOfTable, WholeStep
<1>3. \A i \in Indexes : (Attached(i) <=> status[i] = "linked") /\ (Attached(i)' <=> status[i] = "linked")
  BY <1>1 DEF Attached
<1>4. \A i \in Indexes : status[i] \in {"none", "linked"}
  BY <1>1 DEF IndexesFit, Building, TypeOK
<1>5. \A i \in Indexes : OnDisk(i)' <=> status[i] = "linked"
  BY <1>1, ImageFields DEF OnDisk
<1>6. IndexesFit'
  BY <1>1, <1>3, <1>4, <1>5, ImageFields DEF IndexesFit, TokensFit
<1>7. TokensAgree'
  BY <1>1, <1>3 DEF TokensAgree
<1>8. DiskAgrees'
  <2> SUFFICES ASSUME NEW i \in Indexes
               PROVE  /\ sg'[i] <= gen' + 1
                      /\ status[i] = "linked" /\ sg'[i] > gen' => i \notin Foreign /\ Maintained'
                      /\ status[i] = "linked" /\ sg'[i] = gen' =>
                           /\ i \in Foreign \/ ~Maintained' => sn'[i] = nrows'
                           /\ sn'[i] = nrows' => content'[i] = Snapshot(i, nrows)'
    BY <1>1, <1>5, ImageFields DEF DiskAgrees
  <2>1. sg'[i] \in Int /\ gen' \in Int /\ gen' >= 0
    <3>1. gen \in Gens /\ sg[i] \in Int
      BY DEF TypeOK
    <3> QED BY <1>1, <3>1 DEF Gens
  <2>2. CASE status[i] = "linked"
    <3>1. form' = "uint64" /\ Attached(i)'
      BY <1>1, <1>3, <2>2 DEF IndexesFit
    <3>2. TokenFits(i)'
      BY <1>2, <3>1 DEF TokensFit
    <3>3. index_is_valid(i)' => content'[i] = Snapshot(i, nrows)'
      BY <1>2, <3>1 DEF AttachedTruth
    <3>4. sg'[i] > gen' => i \notin Foreign /\ Maintained'
      BY <2>1, <3>1, <3>2 DEF TokenFits, Maintained
    <3>5. sg'[i] = gen' /\ (i \in Foreign \/ ~Maintained') => sn'[i] = nrows'
      BY <1>1, <1>7, <3>1 DEF TokensAgree, Maintained
    <3> QED BY <2>1, <3>1, <3>2, <3>3, <3>4, <3>5 DEF TokenFits, index_is_valid
  <2>3. CASE status[i] = "none"
    <3>1. sg'[i] = None
      BY <1>1, <2>3 DEF TokensFit
    <3> QED BY <2>1, <2>3, <3>1 DEF None
  <2> QED BY <1>4, <2>2, <2>3
<1>9. EndFits'
  <2>1. CASE pc' = "bump"
    <3>1. op.maintain /\ op.g # None /\ gen = op.g /\ op.g \in Int
      BY <1>1, <2>1 DEF LocalsFit, GenerationFits, Mutating, Maintaining
    <3>2. \A i \in Indexes \ Foreign : status[i] = "linked" => sg[i] = op.g + 1
      BY <1>1, <2>1, <3>1 DEF MaintainedFit, Maintaining, Linked
    <3>3. \A i \in Indexes \ Foreign : OnDisk(i)' => disk'.sg[i] # disk'.gen
      BY <1>1, <1>5, <3>1, <3>2, ImageFields
    <3> QED BY <2>1, <3>3 DEF EndFits
  <2>2. CASE pc' = "step4"
    BY <2>2 DEF EndFits
  <2>3. CASE pc' = "idle"
    BY <1>1, <2>3 DEF EndFits, NoOp
  <2> QED BY <1>1, <2>1, <2>2, <2>3
<1> QED BY <1>6, <1>7, <1>8, <1>9

-----------------------------------------------------------------------------
(* The indexes, when the power goes.                                       *)

\* While all tokens and contents are flushed, any mixture of the two tokens, the
\* two row counts and the two link lists lets only truthful indexes be believed.
LEMMA LossIndexes ==
  ASSUME RowsInv, IInv, FlushedInv, op.kind # "refresh", PowerLoss, ~Unflushed
  PROVE  IInv'
<1>1. /\ nrows' \in {nrows, disk.nrows}
      /\ (gen' = gen /\ form' = form) \/ (gen' = disk.gen /\ form' = disk.form)
      /\ status' \in Mixtures(status, disk.status)
      /\ sg' \in Mixtures(sg, disk.sg) /\ sn' \in Mixtures(sn, disk.sn)
      /\ content' \in TornMixtures(content, disk.content)
      /\ pc' = "idle" /\ op' = NoOp /\ todo' = {} /\ cur' = NoName
      /\ interrupted' = Maintained
  BY DEF PowerLoss, Return, Maintained
<1>2. RowsInv' /\ \A c \in Columns, r \in Row : r <= nrows' => cell'[c][r] = cell[c][r]
  BY LossRows
<1>3. TypeOK /\ DiskTypeOK
  BY DEF RowsInv, Base
<1>4. \A i \in Indexes : sg[i] = disk.sg[i] /\ sn[i] = disk.sn[i] /\ content[i] = disk.content[i]
  BY DEF Unflushed
<1>5. \A i \in Indexes : /\ status'[i] \in {status[i], disk.status[i]}
                         /\ sg'[i] = sg[i] /\ sn'[i] = sn[i]
  <2>1. \A i \in Indexes : status'[i] \in {status[i], disk.status[i]}
    <3> DEFINE Status == {"none", "bare", "kinded", "linked"}
    <3>1. status \in [Indexes -> Status] /\ disk.status \in [Indexes -> Status]
      BY <1>3 DEF TypeOK, DiskTypeOK
    <3> HIDE DEF Status
    <3>2. status' \in Mixtures(status, disk.status)
      BY <1>1
    <3>3. \A i \in Indexes : status'[i] \in {status[i], disk.status[i]}
      BY <3>1, <3>2, MixtureTypes
    <3> QED BY <3>3
  <2>2. \A i \in Indexes : sg'[i] = sg[i]
    <3>1. sg \in [Indexes -> Gens \cup {None}] /\ disk.sg \in [Indexes -> Gens \cup {None}]
      BY <1>3 DEF TypeOK, DiskTypeOK
    <3>2. sg' \in Mixtures(sg, disk.sg)
      BY <1>1
    <3>3. \A i \in Indexes : sg'[i] \in {sg[i], disk.sg[i]}
      BY <3>1, <3>2, MixtureTypes
    <3> QED BY <3>3, <1>4
  <2>3. \A i \in Indexes : sn'[i] = sn[i]
    <3>1. sn \in [Indexes -> 0..MaxRows \cup {None}] /\ disk.sn \in [Indexes -> 0..MaxRows \cup {None}]
      BY <1>3 DEF TypeOK, DiskTypeOK
    <3>2. sn' \in Mixtures(sn, disk.sn)
      BY <1>1
    <3>3. \A i \in Indexes : sn'[i] \in {sn[i], disk.sn[i]}
      BY <3>1, <3>2, MixtureTypes
    <3> QED BY <3>3, <1>4
  <2> QED BY <2>1, <2>2, <2>3
<1>6. \A i \in Indexes : content'[i] = content[i]
  <2> DEFINE Content == Prefixes \cup {Torn}
  <2>1. content \in [Indexes -> Content] /\ disk.content \in [Indexes -> Content] /\ Torn \in Content
    BY <1>3 DEF TypeOK, DiskTypeOK
  <2> HIDE DEF Content
  <2>2. content' \in TornMixtures(content, disk.content)
    BY <1>1
  <2>3. \A i \in Indexes : content[i] = disk.content[i] => content'[i] = content[i]
    BY <2>1, <2>2, TornTypes
  <2> QED BY <1>4, <2>3
<1> USE GensArithmetic, OpFields, TokenInt
<1>7. /\ gen \in Int /\ gen >= 0 /\ disk.gen \in Int /\ disk.gen >= 0
      /\ \A i \in Indexes : sg[i] \in Int
  BY <1>3 DEF TypeOK, DiskTypeOK, Gens
\* An index that is linked afterwards and carries a token was on both images.
<1>8. ASSUME NEW i \in Indexes, status'[i] = "linked", sg[i] # None
      PROVE  Attached(i) /\ OnDisk(i) /\ form = "uint64" /\ disk.form = "uint64"
  BY <1>4, <1>5, <1>8 DEF FlushedInv, IndexesFit, OnDisk, Attached
<1>9. TokensFit'
  <2>1. \A i \in Indexes : status'[i] \in {"none", "bare"} => sg'[i] = None
    BY <1>4, <1>5 DEF IInv, TokensFit, FlushedInv, IndexesFit
  <2>2. ASSUME form' = "uint64", NEW i \in Indexes PROVE TokenFits(i)'
    <3>1. sg'[i] <= gen' + 1
      <4>1. CASE gen' = gen /\ form' = form
        BY <1>5, <2>2, <4>1 DEF IInv, TokensFit, TokenFits
      <4>2. CASE gen' = disk.gen
        BY <1>4, <1>5, <4>2 DEF FlushedInv, DiskAgrees
      <4> QED BY <1>1, <4>1, <4>2
    <3>2. ASSUME Attached(i)', sg[i] # None, i \in Foreign \/ ~Maintained
          PROVE  sg'[i] <= gen'
      <4>1. Attached(i) /\ OnDisk(i) /\ form = "uint64"
        BY <1>1, <1>8, <3>2 DEF Attached
      <4>2. sg[i] <= gen
        BY <3>2, <4>1 DEF IInv, TokensFit, TokenFits, Maintained
      <4>3. disk.sg[i] <= disk.gen
        BY <1>4, <1>7, <3>2, <4>1 DEF FlushedInv, DiskAgrees
      <4> QED BY <1>1, <1>4, <1>5, <4>2, <4>3
    <3>3. sg[i] = None => sg'[i] <= gen'
      BY <1>1, <1>5, <1>7 DEF None
    <3> QED BY <1>1, <3>1, <3>2, <3>3 DEF TokenFits
  <2> QED BY <1>1, <2>1, <2>2 DEF TokensFit, Refreshing, Mutating, Extending, Maintaining, Rewriting
<1>10. AttachedTruth'
  <2> SUFFICES ASSUME NEW i \in Indexes, Attached(i)', index_is_valid(i)'
               PROVE  content'[i] = Snapshot(i, nrows)'
    BY DEF AttachedTruth
  <2>1. status'[i] = "linked" /\ form' = "uint64" /\ sg[i] = gen' /\ sn[i] = nrows'
    BY <1>1, <1>5 DEF Attached, index_is_valid
  <2>2. Attached(i) /\ OnDisk(i) /\ form = "uint64" /\ disk.form = "uint64"
    BY <1>1, <1>7, <1>8, <2>1 DEF None
  <2>3. Snapshot(i, nrows)' = Snapshot(i, nrows')
    <3>1. Owner[i] \in Columns /\ \A r \in 1..nrows' : r \in Row /\ r <= nrows'
      BY <1>2, ConstantsAssumption DEF RowsInv, Base, TypeOK, Row
    <3>2. \A r \in 1..nrows' : cell'[Owner[i]][r] = cell[Owner[i]][r]
      BY <1>2, <3>1
    <3> QED BY <3>2 DEF Snapshot
  <2>4. CASE gen' = gen /\ nrows' = nrows
    <3>1. index_is_valid(i)
      BY <2>1, <2>2, <2>4 DEF index_is_valid
    <3>2. content[i] = Snapshot(i, nrows)
      BY <2>2, <3>1 DEF IInv, AttachedTruth
    <3> QED BY <1>6, <2>3, <2>4, <3>2
  <2>5. CASE gen' = disk.gen /\ nrows' = disk.nrows
    <3>1. disk.content[i] = Snapshot(i, disk.nrows)
      BY <1>4, <2>1, <2>2, <2>5 DEF FlushedInv, DiskAgrees
    <3> QED BY <1>4, <1>6, <2>3, <2>5, <3>1
  <2>6. ASSUME nrows # disk.nrows
        PROVE  pc = "flush" /\ op.kind \in {"append", "truncate"} /\ ~interrupted
    BY <2>6 DEF RowsInv, RowsFlushed, FlushedInv, EndFits
  <2>7. CASE nrows # disk.nrows /\ gen' = gen /\ nrows' = disk.nrows
    <3>1. sn[i] = nrows
      BY <2>1, <2>2, <2>6, <2>7 DEF FlushedInv, TokensAgree
    <3> QED BY <2>1, <2>7, <3>1
  <2>8. CASE nrows # disk.nrows /\ gen' = disk.gen /\ nrows' = nrows
    <3>1. disk.sg[i] = disk.gen
      BY <1>4, <2>1, <2>8
    <3>2. i \in Foreign \/ ~op.maintain
      BY <2>2, <2>6, <2>8, <3>1 DEF FlushedInv, EndFits
    <3>3. disk.sn[i] = disk.nrows
      BY <2>2, <2>6, <2>8, <3>1, <3>2 DEF FlushedInv, DiskAgrees, Maintained
    <3> QED BY <1>4, <2>1, <2>8, <3>3
  <2> QED BY <1>1, <2>4, <2>5, <2>7, <2>8
<1>11. MaintainedFit' /\ BuiltFit' /\ PublishedFit'
  BY <1>1 DEF MaintainedFit, BuiltFit, PublishedFit, Restored, Disabled, Maintaining, Rewriting, Refreshing
<1> QED BY <1>2, <1>9, <1>10, <1>11 DEF IInv, RowsInv, Base

\* A flushed table with indexes built over it keeps both invariants.
LEMMA FlushedInitial == DurableInit => IInv /\ FlushedInv
<1> SUFFICES ASSUME DurableInit PROVE IInv /\ FlushedInv
  OBVIOUS
<1> USE GensArithmetic
<1> DEFINE old == PreBuilt \cup Foreign
<1>1. PICK n \in 0..MaxRows :
        /\ nrows = n /\ gen = 0
        /\ form = IF old = {} THEN "absent" ELSE "uint64"
        /\ status = [i \in Indexes |-> IF i \in old THEN "linked" ELSE "none"]
        /\ sg = [i \in Indexes |-> IF i \in old THEN 0 ELSE None]
        /\ sn = [i \in Indexes |-> IF i \in old THEN n ELSE None]
        /\ content = [i \in Indexes |-> IF i \in old THEN Snapshot(i, n) ELSE Torn]
        /\ pc = "idle" /\ op = NoOp /\ todo = {} /\ cur = NoName
        /\ interrupted = FALSE
        /\ disk = Image
  BY DEF DurableInit
<1> HIDE DEF old
<1>2. Base
  BY DurableInitial DEF RowsInv
<1>3. /\ disk.nrows = nrows /\ disk.gen = gen /\ disk.form = form /\ disk.status = status
      /\ disk.sg = sg /\ disk.sn = sn /\ disk.content = content
  BY <1>1 DEF Image
<1>4. \A i \in Indexes :
        /\ status[i] = "linked" => i \in old /\ form = "uint64" /\ sg[i] = 0 /\ sn[i] = nrows
                                    /\ content[i] = Snapshot(i, nrows)
        /\ status[i] # "linked" => status[i] = "none" /\ sg[i] = None
        /\ Attached(i) <=> status[i] = "linked"
  BY <1>1 DEF Attached
<1>5. TokensFit
  BY <1>1, <1>4 DEF TokensFit, TokenFits, None, Refreshing, Mutating, Extending, Maintaining, Rewriting
<1>6. MaintainedFit /\ BuiltFit /\ PublishedFit
  BY <1>1 DEF MaintainedFit, BuiltFit, PublishedFit, Restored, Disabled, Maintaining, Rewriting, Refreshing
<1>7. AttachedTruth
  BY <1>4 DEF AttachedTruth
<1>8. IndexesFit
  BY <1>1, <1>3, <1>4 DEF IndexesFit, OnDisk, None
<1>9. TokensAgree /\ EndFits
  BY <1>1, <1>4 DEF TokensAgree, EndFits, NoOp
<1>10. DiskAgrees
  BY <1>1, <1>3, <1>4 DEF DiskAgrees, OnDisk, None
<1> QED BY <1>2, <1>5, <1>6, <1>7, <1>8, <1>9, <1>10 DEF IInv, Base, FlushedInv

\* The invariant of both images, when callers do not refresh and the power goes
\* at most once.
LEMMA DurableStep ==
  ASSUME Careful, "refresh" \notin IndexCalls, MaxLosses <= 1, DurableInv, [DurableNext]_durableVars
  PROVE  DurableInv'
<1>1. RowsInv'
  BY DurableRows DEF DurableInv
<1>2. CASE UNCHANGED <<vars, disk, losses, exposed>>
  <2>1. IInv => IInv'
    BY <1>2, WholeStep
  <2>2. FlushedInv => FlushedInv'
    BY <1>2 DEF vars, tableVars, indexVars, localVars, FlushedInv, IndexesFit, TokensAgree, DiskAgrees, EndFits,
                Maintained, OnDisk, Attached, Snapshot
  <2> QED BY <1>1, <1>2, <2>1, <2>2 DEF DurableInv, vars, localVars
<1>3. CASE Volatile
  <2>1. op'.kind # "refresh" /\ UNCHANGED <<losses, exposed>>
    BY <1>3 DEF Volatile
  <2>2. IInv => IInv'
    BY <1>3, StepsOfTable, WholeStep
  <2>3. losses' = 0 => FlushedInv'
    BY <1>3, <2>1, VolatileFlushed DEF DurableInv
  <2> QED BY <1>1, <2>1, <2>2, <2>3 DEF DurableInv
<1>4. CASE Flush
  <2>1. UNCHANGED <<losses, exposed>>
    BY <1>4 DEF Flush
  <2>2. op' = NoOp \/ op' = op
    BY <1>4 DEF Flush, FlushColumns, FlushIndexes, FlushFile, Return, Goto
  <2>3. IInv => IInv'
    BY <1>4, StepsOfTable, WholeStep
  <2>4. losses' = 0 => FlushedInv'
    BY <1>4, <2>1, FlushFlushed DEF DurableInv
  <2> QED BY <1>1, <2>1, <2>2, <2>3, <2>4 DEF DurableInv, NoOp
<1>5. CASE PowerLoss
  <2>1. losses = 0 /\ losses' = 1 /\ op' = NoOp /\ exposed' = (exposed \/ Unflushed)
    BY <1>5, DurableAssumption DEF PowerLoss, Return, DurableInv, RowsInv, DiskTypeOK
  <2>2. RowsInv /\ IInv /\ FlushedInv /\ op.kind # "refresh"
    BY <2>1 DEF DurableInv
  <2>3. Unflushed \/ IInv'
    BY <1>5, <2>2, LossIndexes
  <2>4. exposed' \/ IInv'
    BY <2>1, <2>3, Zenon
  <2>5. op'.kind # "refresh" /\ losses' # 0
    BY <2>1 DEF NoOp
  <2> QED BY <1>1, <2>4, <2>5 DEF DurableInv
<1> QED BY <1>2, <1>3, <1>4, <1>5 DEF DurableNext, durableVars, Idle

\* Until a power loss memory and the last flush differ so little that any
\* mixture of them is a table; after one that finds every token and content
\* flushed, the table keeps the invariant of TableStore and the next call may
\* build on it.  For callers that do not refresh, and one loss.
THEOREM MixturesStayTables ==
  ASSUME Careful, "refresh" \notin IndexCalls, MaxLosses <= 1
  PROVE  DurableSpec => []DurableInv
<1>1. DurableInit => DurableInv
  BY DurableInitial, FlushedInitial DEF DurableInv, DurableInit, NoOp
<1>2. DurableInv /\ [DurableNext]_durableVars => DurableInv'
  BY DurableStep
<1> QED BY <1>1, <1>2, PTL DEF DurableSpec

\* A power loss that finds every token and every content flushed leaves no
\* believed index that is wrong: what the order of the flushes of append and
\* truncate is for.  Callers that refresh are not covered: refresh writes
\* SOURCE_GENERATION before SOURCE_NROWS and flushes neither, so that one it
\* was stopped at can go to the disk with a later append.
THEOREM OnlyWindowWrong ==
  ASSUME Careful, "refresh" \notin IndexCalls, MaxLosses <= 1
  PROVE  DurableSpec => []OnlyWindow
<1>1. DurableInv => OnlyWindow
  BY DEF DurableInv, OnlyWindow, IInv, AttachedTruth, Attached, IndexTruth, Believed, Linked
<1>2. DurableSpec => []DurableInv
  BY MixturesStayTables
<1> QED BY <1>1, <1>2, PTL
=============================================================================
