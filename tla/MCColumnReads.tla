----------------------------- MODULE MCColumnReads -----------------------------
(* Small instances of ColumnReads for TLC.                                 *)
EXTENDS ColumnReadsInvariant

CONSTANTS x, y, z

\* The kinds of column, chunked and contiguous.
Kinds ==
  {[kind |-> "number", fill |-> 0], [kind |-> "boolean", fill |-> NoFill],
   [kind |-> "categorical", fill |-> -1], [kind |-> "categorical", fill |-> NoFill],
   [kind |-> "list", fill |-> NoFill]}

\* The readers of a list column do not look at its chunks.
SomeColumns ==
  {c \in {[kind |-> k.kind, fill |-> k.fill, chunk_len |-> n] : k \in Kinds, n \in {0, 2}} :
     c.kind = "list" => c.chunk_len = 0}

TwoLabels == <<x, y>>

\* Batches of rows that differ from each other; a fill given as a number, a
\* boolean that is not one, a label there is none of.
Batches ==
  [kind \in {"number", "boolean", "categorical", "list"} |->
     CASE kind = "number"  -> {<<1, 2>>, <<3, None, 0>>}
       [] kind = "boolean" -> {<<1, 0, 0>>, <<0, 1>>, <<2>>, <<None>>}
       [] kind = "categorical" -> {<<x, y>>, <<y, None, x>>, <<z>>, <<y, x, x>>}
       [] kind = "list" -> {<<x, None, y>>, <<z, x>>}]

Places == {-5, -1, 0, 1, 2, 4, 5}
Ends   == {None, -7, -2, 1, 3, 6}
Steps  == {None, 2, -1, -2}

AllKeys ==
  {Row(p) : p \in Places}
    \cup {Positions(s) : s \in BoundedSeq(Places, 3)}
    \cup {Mask(s) : s \in BoundedSeq(BOOLEAN, 5)}
    \cup {Slice(a, b, k) : a, b \in Ends, k \in Steps}
    \cup {Selected(SetToSortSeq(S, <)) : S \in SUBSET (0..5)}
=============================================================================
