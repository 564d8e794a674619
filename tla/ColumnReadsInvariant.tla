------------------------- MODULE ColumnReadsInvariant -------------------------
(***************************************************************************)
(* The inductive invariant of ColumnReads: what the dataset has to do with *)
(* what callers appended, and how far a scattered read has come.           *)
(***************************************************************************)
EXTENDS ColumnReads

Values == UNION {Range(s) : s \in UNION {Given[c.kind] : c \in Columns}}
Cells  == Values \cup 0..Len(Labels) \cup {c.fill : c \in Columns}

\* Up to NROWS the dataset holds the encoding of what callers appended.
RowsFit ==
  /\ column \in Columns /\ nrows \in 0..MaxRows
  /\ stored \in Seq(Cells) /\ nrows <= Len(stored)
  /\ given \in Seq(Values) /\ Len(given) = nrows
  /\ \A p \in 1..nrows : stored[p] = encode(given[p]) /\ stored[p] # Error

\* Rows are not changed under a running read.
KeyFits ==
  /\ pc \in {"idle", "resolved", "gather", "restore", "answered"}
  /\ pc # "idle" => IsKey(key) /\ want = Resolve(key, nrows)
  /\ blocks \in SUBSET (Int \X Int)
  /\ pc \in {"idle", "resolved"} => blocks = {}

Gathered(i) == raw[i] = stored[Sorted(i) + 1]

\* What is fetched so far is every wanted row of the chunks that are no longer
\* to be fetched, and what is fetched lies before those that are.
GatherFits ==
  /\ pc \in {"gather", "restore"} =>
       /\ want # Error /\ column.kind # "list"
       /\ column.chunk_len # 0 \/ want = <<>>
       /\ order = Ordered(DOMAIN want, want)
       /\ raw = [i \in DOMAIN want |-> raw[i]]
  /\ pc = "gather" =>
       /\ chunks \subseteq {chunk(p) : p \in Range(want)}
       /\ \A i \in DOMAIN want : chunk(Sorted(i)) \notin chunks => Gathered(i)
       /\ \A b \in blocks, c \in chunks : b[2] <= c * column.chunk_len
       /\ Ascending => blocks = {}
  /\ pc = "restore" => \A i \in DOMAIN want : Gathered(i)

\* Every block is of chunks with a wanted row, and no row is in two.
BlocksFit ==
  pc \in {"gather", "restore"} =>
    /\ \A b \in blocks : b[2] <= nrows /\ \A p \in b[1]..(b[2] - 1) :
         \E q \in Range(want) : chunk(q) = chunk(p)
    /\ \A b, d \in blocks : b # d => b[2] <= d[1] \/ d[2] <= b[1]

ReadsInv == RowsFit /\ KeyFits /\ GatherFits /\ BlocksFit /\ ReadsBack /\ FetchesOnlyWanted
=============================================================================
