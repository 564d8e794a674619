------------------------------ MODULE ListColumn ------------------------------
(***************************************************************************)
(* A list column: variable-length, possibly nested row values in the       *)
(* OFFSETS layout of lists.py, written leaf first into the reserved tail   *)
(* behind the committed rows, and read back range by range.                *)
(*                                                                         *)
(* A column is a tower of levels.  Level 1 has an entry per row; the       *)
(* entries of level l + 1 are the elements of the entries of level l; the  *)
(* leaf comes last.  STRING_VALUES is a level whose leaf is CHARS.         *)
(* Positions are 0-based in the file: element p is s[p + 1].               *)
(***************************************************************************)
EXTENDS Integers, Sequences, SequencesExt

CONSTANTS
  Depth,      \* OFFSETS levels above the leaf
  Nullable,   \* the levels that carry a MASK
  LeafFill,   \* whether the leaf declares a fill value
  Entry,      \* of each level, the entries callers use; rows are those of level 1
  Null,       \* a null list, a null string or a missing element
  Fill,       \* what the leaf holds before it is written, or for a missing element
  MaxRows,    \* bound: rows of the table
  MaxBatch,   \* bound: rows of one append
  Faults      \* calls may fail or die between two writes, or inside one

Level == 1..Depth
Leaf  == Depth + 1
Rows  == Entry[1]

ASSUME ListAssumption ==
  /\ Depth \in Nat \ {0} /\ Nullable \subseteq Level
  /\ MaxRows \in Nat /\ MaxBatch \in Nat
  /\ {LeafFill, Faults} \subseteq BOOLEAN
  /\ \A l \in Level : \A e \in Entry[l] : e = Null \/ e \in Seq(Entry[l + 1])
  /\ LeafFill => Fill \notin Entry[Leaf]

VARIABLES
  nrows,   \* NROWS of the table
  offs,    \* OFFSETS of each level
  mask,    \* MASK of each level: TRUE where the entry is present
  leaf,    \* the leaf elements
  pc, at,  \* the next write of a running append, and its level
  plan     \* the NROWS to commit, what was encoded, where each level starts

fileVars == <<nrows, offs, mask, leaf>>
vars     == <<fileVars, pc, at, plan>>

NoPlan == [n |-> 0, rows |-> <<>>, counts |-> <<>>, present |-> <<>>,
           elems |-> <<>>, start |-> <<>>]

Init ==
  /\ nrows = 0
  /\ offs = [l \in Level |-> <<0>>] /\ mask = [l \in Level |-> <<>>] /\ leaf = <<>>
  /\ pc = "idle" /\ at = Leaf /\ plan = NoPlan

-----------------------------------------------------------------------------
(* Encoding: rows to the entries of every level.                           *)

Elements(entry) == IF entry = Null THEN <<>> ELSE entry

\* entries[l] are the entries of level l, in order; those of Leaf are elements.
Entries(rows) ==
  LET entries[l \in 1..Leaf] ==
        IF l = 1 THEN rows
        ELSE FlattenSeq([i \in DOMAIN entries[l - 1] |-> Elements(entries[l - 1][i])])
  IN  entries

\* A null needs a MASK at its level, a missing element a fill value.
Encodable(rows) ==
  /\ \A l \in Level \ Nullable : Null \notin Range(Entries(rows)[l])
  /\ LeafFill \/ Null \notin Range(Entries(rows)[Leaf])

\* Mutant: each level starts where its dataset ends.
StartsAtExtent ==
  [l \in 1..Leaf |-> IF l = 1 THEN nrows ELSE IF l = Leaf THEN Len(leaf) ELSE Len(offs[l]) - 1]

\* The entries of each level that the first rows reach: the last offset of a
\* level is the number of entries of the level below.
Counts(count) ==
  LET n[l \in 1..Leaf] == IF l = 1 THEN count ELSE offs[l - 1][n[l - 1] + 1]
  IN  n

\* Where each level's next entry goes.
Starts == Counts(nrows)

Plan(rows) ==
  LET entries == Entries(rows) IN
  [n       |-> nrows + Len(rows),
   rows    |-> rows,
   counts  |-> [l \in Level |-> [i \in DOMAIN entries[l] |-> Len(Elements(entries[l][i]))]],
   present |-> [l \in Level |-> [i \in DOMAIN entries[l] |-> entries[l][i] # Null]],
   elems   |-> [i \in DOMAIN entries[Leaf] |->
                  IF entries[Leaf][i] = Null THEN Fill ELSE entries[Leaf][i]],
   start   |-> Starts]

-----------------------------------------------------------------------------
(* Writing.                                                                *)

\* Dataset.resize, only ever upwards.
extend_to(s, n, default) ==
  IF Len(s) < n THEN s \o [i \in 1..(n - Len(s)) |-> default] ELSE s

\* s with new written behind position p, or only those elements i in which.
Written(s, p, new, which) ==
  [i \in DOMAIN s |-> IF i - p \in which THEN new[i - p] ELSE s[i]]

\* Running sums of counts, from what comes before them.
Running(base, counts) ==
  LET sum[i \in 0..Len(counts)] == IF i = 0 THEN base ELSE sum[i - 1] + counts[i]
  IN  [i \in DOMAIN counts |-> sum[i]]

\* Mutant: the sums do not go on where the committed offsets end.
SumsFromZero(l) == Running(0, plan.counts[l])

\* The new OFFSETS of a level: running sums from where its elements start.
Sums(l) == Running(plan.start[l + 1], plan.counts[l])

Goto(p, l) == pc' = p /\ at' = l /\ UNCHANGED <<nrows, plan>>

\* The write that follows level l: the level above, then the commit.
Above(l) ==
  \/ l = 1 /\ Goto("commit", 1)
  \/ l - 1 \in Nullable /\ Goto("extend_mask", l - 1)
  \/ l - 1 \in Level \ Nullable /\ Goto("extend_offsets", l - 1)

\* Table.append hands over rows; encoding is pure and may refuse them.
AppendRows(rows) ==
  /\ pc = "idle" /\ rows # <<>> /\ nrows + Len(rows) <= MaxRows
  /\ IF Encodable(rows)
       THEN plan' = Plan(rows) /\ pc' = "extend_leaf" /\ at' = Leaf
       ELSE UNCHANGED <<pc, at, plan>>
  /\ UNCHANGED fileVars

ExtendLeaf ==
  /\ pc = "extend_leaf"
  /\ leaf' = extend_to(leaf, plan.start[Leaf] + Len(plan.elems), Fill)
  /\ Goto("write_leaf", Leaf) /\ UNCHANGED <<offs, mask>>

WriteLeaf(which) ==
  leaf' = Written(leaf, plan.start[Leaf], plan.elems, which) /\ UNCHANGED <<offs, mask>>

WriteMask(which) ==
  /\ mask' = [mask EXCEPT ![at] = Written(@, plan.start[at], plan.present[at], which)]
  /\ UNCHANGED <<offs, leaf>>

WriteOffsets(which) ==
  /\ offs' = [offs EXCEPT ![at] = Written(@, plan.start[at] + 1, Sums(at), which)]
  /\ UNCHANGED <<mask, leaf>>

FinishLeaf == pc = "write_leaf" /\ WriteLeaf(DOMAIN plan.elems) /\ Above(Leaf)

\* Mutant: one element short.
ExtendMaskShort ==
  /\ pc = "extend_mask"
  /\ mask' = [mask EXCEPT ![at] =
                extend_to(@, plan.start[at] + Len(plan.present[at]) - 1, FALSE)]
  /\ Goto("write_mask", at) /\ UNCHANGED <<offs, leaf>>

ExtendMask ==
  /\ pc = "extend_mask"
  /\ mask' = [mask EXCEPT ![at] =
                extend_to(@, plan.start[at] + Len(plan.present[at]), FALSE)]
  /\ Goto("write_mask", at) /\ UNCHANGED <<offs, leaf>>

FinishMask ==
  /\ pc = "write_mask"
  /\ WriteMask(DOMAIN plan.present[at]) /\ Goto("extend_offsets", at)

ExtendOffsets ==
  /\ pc = "extend_offsets"
  /\ offs' = [offs EXCEPT ![at] =
                extend_to(@, plan.start[at] + Len(plan.counts[at]) + 1, 0)]
  /\ Goto("write_offsets", at) /\ UNCHANGED <<mask, leaf>>

FinishOffsets ==
  /\ pc = "write_offsets"
  /\ WriteOffsets(DOMAIN plan.counts[at]) /\ Above(at)

\* NROWS is committed once every column is written.
CommitRows ==
  /\ pc = "commit"
  /\ nrows' = plan.n
  /\ pc' = "done" /\ UNCHANGED <<at, plan, offs, mask, leaf>>

Return == pc' = "idle" /\ at' = Leaf /\ plan' = NoPlan

Finish == pc = "done" /\ Return /\ UNCHANGED fileVars

\* Truncation only lowers NROWS; what it cuts off stays in every level.
Truncate(n) ==
  /\ pc = "idle" /\ n < nrows
  /\ plan' = [NoPlan EXCEPT !.n = n] /\ pc' = "commit" /\ at' = 1
  /\ UNCHANGED fileVars

\* The append fails or its process dies: a write may have been done in part.
Interrupt ==
  /\ Faults /\ pc \notin {"idle", "done"}
  /\ \/ pc = "write_leaf" /\ \E which \in SUBSET DOMAIN plan.elems : WriteLeaf(which)
     \/ pc = "write_mask" /\ \E which \in SUBSET DOMAIN plan.present[at] : WriteMask(which)
     \/ pc = "write_offsets" /\ \E which \in SUBSET DOMAIN plan.counts[at] : WriteOffsets(which)
     \/ UNCHANGED <<offs, mask, leaf>>
  /\ Return /\ UNCHANGED nrows

Idle == pc = "idle" /\ UNCHANGED vars

Write == ExtendLeaf \/ FinishLeaf \/ ExtendMask \/ FinishMask \/ ExtendOffsets \/ FinishOffsets

Next ==
  \/ \E rows \in BoundedSeq(Rows, MaxBatch) : AppendRows(rows)
  \/ Write \/ CommitRows \/ Finish
  \/ \E n \in 0..MaxRows : Truncate(n)
  \/ Interrupt \/ Idle

Spec == Init /\ [][Next]_vars

-----------------------------------------------------------------------------
(* Reading and validating.                                                 *)

\* n leaf elements from element s on; a slice ends where its dataset does.
ReadLeaf(s, n) ==
  LET raw == SubSeq(leaf, s + 1, IF s + n < Len(leaf) THEN s + n ELSE Len(leaf))
  IN  [i \in DOMAIN raw |-> IF LeafFill /\ raw[i] = Fill THEN Null ELSE raw[i]]

\* Mutant: the end of an entry is not rebased.
ReadUnrebased(level, from, count) ==
  LET read[l \in 1..Leaf] == [s \in Nat |-> [n \in Int |->
        IF n <= 0 THEN <<>>
        ELSE IF l = Leaf THEN ReadLeaf(s, n)
        ELSE LET lo(i)  == offs[l][s + i]
                 hi(i)  == offs[l][s + i + 1]
                 child  == read[l + 1][lo(1)][hi(n) - lo(1)]
             IN  [i \in 1..n |->
                    IF l \in Nullable /\ ~mask[l][s + i] THEN Null
                    ELSE SubSeq(child, lo(i) - lo(1) + 1, IF hi(i) <= Len(child) THEN hi(i) ELSE Len(child))]]]
  IN  read[level][from][count]

\* n entries of level l from entry s on.  The level below is read from the first
\* offset to the last, and every offset is rebased against the first before it
\* indexes that block.
Read(level, from, count) ==
  LET read[l \in 1..Leaf] == [s \in Nat |-> [n \in Int |->
        IF n <= 0 THEN <<>>
        ELSE IF l = Leaf THEN ReadLeaf(s, n)
        ELSE LET lo(i)  == offs[l][s + i]
                 hi(i)  == offs[l][s + i + 1]
                 child  == read[l + 1][lo(1)][hi(n) - lo(1)]
             IN  [i \in 1..n |->
                    IF l \in Nullable /\ ~mask[l][s + i] THEN Null
                    ELSE SubSeq(child, lo(i) - lo(1) + 1, hi(i) - lo(1))]]]
  IN  read[level][from][count]

\* Mutant: as many offsets as entries.
offsets_buffer_short(l, n) == SubSeq(offs[l], 1, n)

\* The OFFSETS of n entries, as Arrow is given them.
offsets_buffer(l, n) == SubSeq(offs[l], 1, n + 1)

\* What list_array checks of them, Arrow checking nothing.
offsets_accepted(offsets, n) ==
  /\ Len(offsets) = n + 1 /\ offsets[1] = 0
  /\ \A i \in 1..n : offsets[i] <= offsets[i + 1]

mask_validity(l, n) == [i \in 1..n |-> l \in Nullable => mask[l][i]]

\* The export of the first rows: of each level, how many entries, which are
\* valid, and where each begins and ends in the level below; nothing is copied.
list_array(count) ==
  LET n == Counts(count)
  IN  [l \in 1..Leaf |->
         IF l = Leaf THEN [count |-> n[l], elements |-> ReadLeaf(0, n[l])]
         ELSE [count |-> n[l], valid |-> mask_validity(l, n[l]), offsets |-> offsets_buffer(l, n[l])]]

\* validate_list_column: level by level, the OFFSETS reach far enough, start at
\* zero and never decrease, a null entry spans nothing, and the level below
\* holds as many entries as the last offset says.
Valid(count) ==
  LET n == Counts(count) IN
  /\ \A l \in Level :
       /\ Len(offs[l]) >= n[l] + 1
       /\ offs[l][1] = 0
       /\ \A i \in 1..n[l] : offs[l][i] <= offs[l][i + 1]
       /\ l \in Nullable =>
            /\ Len(mask[l]) >= n[l]
            /\ \A i \in 1..n[l] : ~mask[l][i] => offs[l][i] = offs[l][i + 1]
  /\ Len(leaf) >= n[Leaf]

-----------------------------------------------------------------------------
(* Properties.                                                             *)

\* Table.validate accepts the committed rows of a list column at every moment,
\* between any two writes of an append and after any failed or torn one
\* (_write_level: "the entries already committed stay fully described at every
\* moment").
Conformant == Valid(nrows)

\* Reading any range of rows gives exactly that range of a whole read: the
\* rebasing of read_list_column and _read_string composes over the levels.
SliceReads ==
  \A s \in 0..nrows : \A n \in 0..(nrows - s) :
    Read(1, s, n) = SubSeq(Read(1, 0, nrows), s + 1, s + n)

Committed == Read(1, 0, nrows)

\* What Arrow reads from an exported array.
ArrowRows(array) ==
  LET values[l \in 1..Leaf] ==
        IF l = Leaf THEN array[l].elements
        ELSE [i \in 1..array[l].count |->
                IF ~array[l].valid[i] THEN Null
                ELSE SubSeq(values[l + 1], array[l].offsets[i] + 1, array[l].offsets[i + 1])]
  IN  values[1]

\* At every moment the committed rows export: no level is refused ("a
\* half-written file whose tail is still zero"), none reaches past the elements
\* handed over with it, which Arrow does not check, and Arrow reads from it what
\* read_list_column reads (list_array, _offsets_buffer).
ExportsCommitted ==
  LET array == list_array(nrows)
  IN  /\ \A l \in Level :
           /\ offsets_accepted(array[l].offsets, array[l].count)
           /\ array[l].offsets[array[l].count + 1] <= array[l + 1].count
      /\ Len(array[Leaf].elements) = array[Leaf].count
      /\ ArrowRows(array) = Committed

Promised == SubSeq(Committed \o plan.rows, 1, plan.n)

Abstract == INSTANCE AbstractTable WITH
  Columns <- {"list"}, Cell <- Rows,
  rows  <- [c \in {"list"} |-> Committed],
  phase <- CASE pc = "idle" -> "ready" [] pc = "done" -> "done" [] OTHER -> "working",
  goal  <- [c \in {"list"} |-> IF pc = "idle" THEN Committed ELSE Promised]

\* A list column keeps the promise of a table: append_list_column stores the
\* rows it was given, whatever earlier appends left in the reserved tails of
\* the levels, and no interleaved or interrupted write changes committed rows.
ImplementsTable == Abstract!Spec
=============================================================================
