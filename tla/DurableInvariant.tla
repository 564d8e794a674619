-------------------------- MODULE DurableInvariant --------------------------
(***************************************************************************)
(* The inductive invariant of DurableTable: how far the image of the last  *)
(* flush and the image in memory can be apart, so that any mixture of the  *)
(* two is still a table, and the tokens of its indexes still true.         *)
(***************************************************************************)
EXTENDS DurableTable, TableInvariant

DiskTypeOK ==
  /\ disk.nrows \in 0..MaxRows
  /\ disk.gen \in Gens /\ disk.form \in {"absent", "uint64", "malformed"}
  /\ disk.ext \in [Columns -> 0..MaxRows]
  /\ disk.cell \in [Columns -> [Row -> Cell]]
  /\ disk.status \in [Indexes -> {"none", "bare", "kinded", "linked"}]
  /\ disk.sg \in [Indexes -> Gens \cup {None}]
  /\ disk.sn \in [Indexes -> 0..MaxRows \cup {None}]
  /\ disk.content \in [Indexes -> Prefixes \cup {Torn}]
  /\ losses \in 0..MaxLosses /\ exposed \in BOOLEAN

\* The rows either image commits are the same in both, and within the extents
\* of both.  The row counts differ between the commit and the flush after it.
RowsFlushed ==
  /\ pc # "flush" \/ op.kind \notin {"append", "truncate"} => disk.nrows = nrows
  /\ \A c \in Columns :
       /\ nrows <= disk.ext[c] /\ disk.nrows <= disk.ext[c]
       /\ nrows <= ext[c] /\ disk.nrows <= ext[c]
  /\ \A c \in Columns, r \in Row :
       r <= nrows \/ r <= disk.nrows => cell[c][r] = disk.cell[c][r]

\* What an append is about to commit was flushed before step 4.
PromiseFlushed ==
  pc \in Mutating \ Extending /\ op.kind = "append" =>
    cell = disk.cell /\ \A c \in Columns : op.n <= disk.ext[c]

RowsInv == Base /\ DiskTypeOK /\ RowsFlushed /\ PromiseFlushed

\* The same index is on both images, but for the one a builder makes.
OnDisk(i) == disk.status[i] = "linked"

IndexesFit ==
  /\ form # "malformed"
  /\ \A i \in Indexes :
       /\ status[i] \notin {"none", "linked"} =>
            pc \in Building /\ (i = cur \/ (pc = "blink" /\ i \in todo))
       /\ disk.status[i] \in {"none", "linked"}
       /\ disk.status[i] = "none" => disk.sg[i] = None
       /\ OnDisk(i) => disk.sg[i] # None /\ disk.form = "uint64" /\ Attached(i)
       /\ Attached(i) => sg[i] # None /\ form = "uint64"
  /\ pc \in {"bunlink", "blink"} => sn[cur] = nrows

\* A token that equals GENERATION names the committed row count, unless a
\* maintained mutation wrote it and did not get to its end.
TokensAgree ==
  \A i \in Indexes :
    Attached(i) /\ sg[i] = gen /\ (i \in Foreign \/ ~interrupted)
      /\ ~(pc = "rows" /\ op.maintain /\ i \notin Foreign) => sn[i] = nrows

\* The same of the flushed image.
Maintained == interrupted \/ op.maintain

DiskAgrees ==
  \A i \in Indexes :
    /\ disk.sg[i] <= disk.gen + 1
    /\ OnDisk(i) /\ disk.sg[i] > disk.gen => i \notin Foreign /\ Maintained
    /\ OnDisk(i) /\ disk.sg[i] = disk.gen =>
         /\ i \in Foreign \/ ~Maintained => disk.sn[i] = disk.nrows
         /\ disk.sn[i] = disk.nrows => disk.content[i] = Snapshot(i, disk.nrows)

\* Between calls none is running; from step 5 on the flushed tokens of
\* maintained indexes are those to come, and at the last flush nothing of an
\* earlier mutation is left.
EndFits ==
  /\ pc = "idle" => ~op.maintain
  /\ pc \in {"bump", "rows", "flush"} /\ op.maintain =>
       \A i \in Indexes \ Foreign : OnDisk(i) => disk.sg[i] # disk.gen
  /\ pc = "flush" /\ op.kind \in {"append", "truncate"} =>
       ~interrupted /\ disk.nrows # nrows

FlushedInv == IndexesFit /\ TokensAgree /\ DiskAgrees /\ EndFits

\* Before the power goes, memory and disk agree; after it, the table keeps the
\* invariant of TableStore, unless it went in the window.
DurableInv ==
  /\ RowsInv
  /\ op.kind # "refresh"
  /\ exposed \/ IInv
  /\ losses = 0 => ~exposed /\ FlushedInv
=============================================================================
