---------------------------- MODULE DurableTable ----------------------------
(***************************************************************************)
(* TableStore over a file whose unflushed writes reach the disk in any     *)
(* order.  disk is the image of the last File.flush; a power loss keeps,   *)
(* of everything written since, any subset: attribute by attribute, row by *)
(* row, and index content possibly in part.  What the flushes of append    *)
(* and truncate (and the missing one of the index builders) are worth.     *)
(***************************************************************************)
EXTENDS TableStore

CONSTANTS
  IndexCalls,   \* what callers use: "build", "refresh", "maintain"
  PreBuilt,     \* indexes that already cover the table
  MaxLosses     \* bound: power losses

ASSUME DurableAssumption ==
  /\ IndexCalls \subseteq {"build", "refresh", "maintain"}
  /\ PreBuilt \subseteq Indexes \ Foreign /\ MaxLosses \in Nat

VARIABLES
  disk, losses,
  exposed  \* history: the power went while index content was not flushed

durableVars == <<vars, disk, losses, exposed>>

\* What the file holds in memory.
Image == [nrows |-> nrows, gen |-> gen, form |-> form, ext |-> ext, cell |-> cell,
          status |-> status, sg |-> sg, sn |-> sn, content |-> content]

\* A flushed table of n rows, all missing, and indexes built over it.
DurableInit ==
  LET old == PreBuilt \cup Foreign IN
  \E n \in 0..MaxRows :
    /\ nrows = n /\ gen = 0
    /\ form = IF old = {} THEN "absent" ELSE "uint64"
    /\ ext = [c \in Columns |-> n] /\ cell = NoData
    /\ status = [i \in Indexes |-> IF i \in old THEN "linked" ELSE "none"]
    /\ sg = [i \in Indexes |-> IF i \in old THEN 0 ELSE None]
    /\ sn = [i \in Indexes |-> IF i \in old THEN n ELSE None]
    /\ content = [i \in Indexes |-> IF i \in old THEN Snapshot(i, n) ELSE Torn]
    /\ pc = "idle" /\ op = NoOp /\ todo = {} /\ cur = NoName
    /\ interrupted = FALSE
    /\ disk = Image /\ losses = 0 /\ exposed = FALSE

Flush == (FlushColumns \/ FlushIndexes \/ FlushFile) /\ disk' = Image /\ UNCHANGED <<losses, exposed>>

\* A step that only touches the image in memory.  The flushes are not among
\* them, and a flush that fails is not followed by another call.
Volatile ==
  /\ Begin \/ Step \/ (Raise /\ pc # "flush")
  /\ ~(FlushColumns \/ FlushIndexes \/ FlushFile)
  /\ op'.kind \in {"build", "refresh"} => op'.kind \in IndexCalls
  /\ op'.maintain => "maintain" \in IndexCalls
  /\ UNCHANGED <<disk, losses, exposed>>

\* Every mixture of two images of the same objects.
Mixtures(new, old) ==
  {[x \in DOMAIN new |-> IF x \in S THEN new[x] ELSE old[x]] : S \in SUBSET DOMAIN new}

\* Index content that was being rewritten can also be on disk in part.
TornMixtures(new, old) ==
  UNION {Mixtures([x \in DOMAIN new |-> IF x \in S /\ new[x] # old[x] THEN Torn ELSE new[x]],
                  old) : S \in SUBSET DOMAIN new}

\* Tokens or content of an index are in memory only.
Unflushed == \E i \in Indexes :
  <<sg[i], sn[i], content[i]>> # <<disk.sg[i], disk.sn[i], disk.content[i]>>

\* For each object, its last flushed or its present value.
PowerLoss ==
  /\ losses < MaxLosses /\ losses' = losses + 1
  /\ nrows' \in {nrows, disk.nrows}
  /\ \E token \in {<<gen, form>>, <<disk.gen, disk.form>>} :
       gen' = token[1] /\ form' = token[2]
  /\ ext' \in Mixtures(ext, disk.ext)
  /\ cell' \in {[c \in Columns |-> [r \in Row |-> f[<<c, r>>]]] : f \in
       Mixtures([p \in Columns \X Row |-> cell[p[1]][p[2]]],
                [p \in Columns \X Row |-> disk.cell[p[1]][p[2]]])}
  /\ status' \in Mixtures(status, disk.status)
  /\ sg' \in Mixtures(sg, disk.sg) /\ sn' \in Mixtures(sn, disk.sn)
  /\ content' \in TornMixtures(content, disk.content)
  /\ Return
  /\ interrupted' = (interrupted \/ op.maintain)
  /\ exposed' = (exposed \/ Unflushed)
  /\ disk' = Image'

DurableNext == Volatile \/ Flush \/ PowerLoss \/ (Idle /\ UNCHANGED <<disk, losses, exposed>>)

DurableSpec == DurableInit /\ [][DurableNext]_durableVars

-----------------------------------------------------------------------------
RowsOf(f) == [c \in Columns |-> [r \in 1..f.nrows |-> f.cell[c][r]]]

\* After a power loss the table shows the rows of the last flush or those
\* committed when the power went, never a mixture and never unwritten rows
\* ("a reader, or a crash, can never observe a row count that points at
\* unwritten data").
LossKeepsCommit ==
  [][PowerLoss => RowsOf(Image') \in {RowsOf(Image), RowsOf(disk)}]_durableVars

\* One power loss makes an index in use wrong only if it strikes while tokens
\* or content that a maintained mutation wrote are not flushed: the order of the
\* flushes protects plain mutations, and maintained ones from step 5 on.
OnlyWindow == exposed \/ IndexTruth

\* Nothing orders tokens before content on the disk, nor GENERATION before
\* NROWS: IndexTruth itself fails in that window, and OnlyWindow with two losses.
=============================================================================
