--------------------------- MODULE TableRefinement ---------------------------
(* The write protocol of TableStore implements AbstractTable: a reader of  *)
(* the first NROWS rows sees a call take effect at CommitRows and nowhere  *)
(* else.                                                                   *)
EXTENDS TableStore

Committed == [c \in Columns |-> [r \in 1..nrows |-> cell[c][r]]]

\* The rows the running call is to commit: what is there, then its data, in
\* which a column that was not given holds the fill value.
Promised ==
  [c \in Columns |-> [r \in 1..op.n |->
     IF r <= nrows THEN cell[c][r] ELSE op.data[c][r]]]

\* How far the running call is, for a reader: its last flush comes after the
\* commit point.
Progress ==
  IF pc = "idle" THEN "ready" ELSE IF pc = "flush" THEN "done" ELSE "working"

Goal == IF pc = "idle" THEN Committed ELSE Promised

Abstract == INSTANCE AbstractTable WITH
  rows <- Committed, phase <- Progress, goal <- Goal

\* Table.append and Table.truncate are atomic for whoever reads NROWS rows,
\* exceptions and killed processes included; building and refreshing indexes
\* changes no row.
ImplementsTable == Abstract!Spec
=============================================================================
