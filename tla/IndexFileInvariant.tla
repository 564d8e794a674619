-------------------------- MODULE IndexFileInvariant --------------------------
(***************************************************************************)
(* The inductive invariant of IndexFile: how far the running builder has   *)
(* come, what a valid index must hold, and in which order the objects of   *)
(* SEARCH_INDEXES may be found.                                            *)
(***************************************************************************)
EXTENDS IndexFile

ValuesOf(i) == <<i[1], "values">>

IsDataset(d) ==
  /\ d = [f \in DOMAIN Bare |-> d[f]]
  /\ d.kind \in SEARCH_INDEX_KINDS \cup {"FUTURE_KIND", None}
  /\ d.data \in Seq(Range(d.data))
  /\ d.width \in Nat /\ d.limit \in Nat /\ d.top \in Nat
  /\ d.sg \in Nat \cup {None} /\ d.sn \in Nat \cup {None}

\* A name says what a dataset may be: an index of one kind, of which only a
\* BITMAP refers to values, and those of its own column; or values, which are
\* no index of a kind that is rebuilt.
Named(o, m) ==
  /\ o[m].kind \in Kinds => o[m].kind = m[2]
  /\ o[m].values = NoName \/ (m[2] = "BITMAP" /\ o[m].values = ValuesOf(m))

\* Datasets one may meet in a file.
Fits(o) ==
  /\ o = [m \in Names |-> o[m]]
  /\ \A m \in Names : IsDataset(o[m]) /\ Named(o, m)

\* What is not there is bare, and no token is ahead of GENERATION.
Dated(d, g) ==
  /\ d.dtype = "absent" \/ g = None => d = Absent
  /\ d.sg # None => d.sg <= g

ColumnsFit ==
  /\ col \in [Columns -> Seq(Cells)]
  /\ \A c \in Columns : Len(col[c]) = nrows
  /\ nrows <= MaxRows
  /\ fill \in [Columns -> Fills]

DatasetsFit ==
  /\ gen \in Nat \cup {None}
  /\ Fits(obj)
  /\ \A m \in Names : Dated(obj[m], gen)

\* The links of column c: indexes of its own, except the one being built.
IsLinks(o, list, c, building) ==
  /\ list \in Seq(Names)
  /\ \A j \in DOMAIN list :
       /\ list[j][1] = c /\ list[j] # building
       /\ o[list[j]].dtype # "absent" /\ o[list[j]].kind # None

LinksFit ==
  /\ links = [c \in Columns |-> links[c]]
  /\ \A c \in Columns : IsLinks(obj, links[c], c, call.index)

\* Step s of a program is before its place k.
Wrote(kind, k, s) == \E j \in 1..(k - 1) : Program(kind)[j] = s

\* The builder of index i is about to do step k of its program, over n rows with
\* this content and under the token g: what the steps before have written is on
\* file, and no more.
Built(o, i, k, content, g, n) ==
  LET Done(step) == Wrote(i[2], k, step)
      d == o[i]
      v == o[ValuesOf(i)]
  IN  /\ d.kind = (IF Done("KIND") THEN i[2] ELSE None)
      /\ d.values = (IF Done("VALUES") THEN ValuesOf(i) ELSE NoName)
      /\ d.sg = (IF Done("SOURCE_GENERATION") THEN g ELSE None)
      /\ d.sn = (IF Done("SOURCE_NROWS") THEN n ELSE None)
      /\ Done("dataset") => d.dtype = "right" /\ d.top = Endless
      /\ Done("content") => d.data = content.data
      /\ Done("FILL_TAIL") => d.fills = content.fills
      /\ Done("NAN_TAIL") => d.nans = content.nans
      /\ Done("ORDERED") => d.ordered = TRUE
      /\ Done("EXHAUSTIVE") => d.exhaustive = content.exhaustive
      /\ i[2] = "BITMAP" =>
           /\ v.kind = None
           /\ Done("dataset") => d.width = content.width
           /\ Done("values") => v.dtype = "right"
           /\ Done("enumeration") => v.data = content.enum

ContentOf(i) == compute_index_content(i[2], col[i[1]], fill[i[1]])

BuilderFits ==
  \/ Idle
  \/ /\ call = [index |-> call.index, todo |-> call.todo, old |-> call.old]
     /\ call.index \in Columns \X Kinds /\ gen # None
     /\ IsLinks(obj, call.old, call.index[1], call.index)
     /\ \E k \in 1..Len(Program(call.index[2])) :
          /\ call.todo = SubSeq(Program(call.index[2]), k, Len(Program(call.index[2])))
          /\ Built(obj, call.index, k, ContentOf(call.index), gen, nrows)

Ours == plant.how \in Harmless \cup {"none"}

\* What claims to be valid passes the deep check, linked or not.
ValidRight ==
  Ours => \A i \in Columns \X Kinds : index_is_valid(i) => Rule9(i, i[1], TRUE)

\* What the running builder made so far.
Made ==
  IF Idle THEN {}
  ELSE {call.index} \cup (IF call.index[2] = "BITMAP" THEN {ValuesOf(call.index)} ELSE {})

\* A complete index, or the values a bitmap refers to.
OrderlyAt(o, m) ==
  IF o[m].kind # None THEN o[m].sg # None /\ o[m].sn # None
  ELSE LET b == <<m[1], "BITMAP">> IN
       m = ValuesOf(m) /\ o[b].kind \in {"BITMAP", "FUTURE_KIND"} /\ o[b].values = m

\* Unless a builder died, that is all there is besides what is being built.
Orderly == Ours /\ ~killed => \A m \in Members \ Made : OrderlyAt(obj, m)

FileInv ==
  ColumnsFit /\ DatasetsFit /\ LinksFit /\ BuilderFits /\ ValidRight /\ Orderly
=============================================================================
