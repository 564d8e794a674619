------------------------ MODULE ListColumnInvariant ------------------------
(***************************************************************************)
(* The inductive invariant of ListColumn: what the committed rows need at  *)
(* every level, and how far a running append has got on its way up.        *)
(***************************************************************************)
EXTENDS ListColumn

MaskSteps   == {"extend_mask", "write_mask"}
OffsetSteps == {"extend_offsets", "write_offsets"}
Writing     == {"extend_leaf", "write_leaf"} \cup MaskSteps \cup OffsetSteps

TypeOK ==
  /\ nrows \in 0..MaxRows
  /\ offs \in [Level -> Seq(Nat)] /\ mask \in [Level -> Seq(BOOLEAN)]
  /\ leaf \in Seq(Entry[Leaf] \cup {Fill})
  /\ pc \in Writing \cup {"idle", "commit", "done"} /\ at \in 1..Leaf

\* The first rows of the datasets o, m and e are complete: level l holds the
\* c[l] entries they reach, and those have c[l + 1] elements.
Describes(o, m, e, count, c) ==
  /\ c \in [1..Leaf -> Nat] /\ c[1] = count
  /\ \A l \in Level :
       /\ Len(o[l]) >= c[l] + 1 /\ o[l][1] = 0
       /\ c[l + 1] = o[l][c[l] + 1]
       /\ \A i \in 1..c[l] : o[l][i] <= o[l][i + 1]
       /\ l \in Nullable => /\ Len(m[l]) >= c[l]
                            /\ \A i \in 1..c[l] : ~m[l][i] => o[l][i] = o[l][i + 1]
  /\ Len(e) >= c[Leaf]

CommittedFit == Describes(offs, mask, leaf, nrows, Starts)

\* The committed rows read as rows.
RowsRead == Committed \in Seq(Rows)

\* A running append works off the plan of its rows, a truncation keeps fewer.
Appending == pc \in Writing \/ (pc = "commit" /\ plan.rows # <<>>)

PlanFits ==
  /\ Appending =>
       /\ plan.rows \in Seq(Rows) \ {<<>>} /\ Encodable(plan.rows)
       /\ plan = Plan(plan.rows) /\ plan.n <= MaxRows
  /\ pc = "commit" /\ ~Appending => plan.n \in 0..nrows

\* What is resized, and what is written, of the new entries of a level.
Behind(s, p, new) == Len(s) >= p + Len(new)
Holds(s, p, new)  == Behind(s, p, new) /\ \A i \in DOMAIN new : s[p + i] = new[i]

LeafDone       == Holds(leaf, plan.start[Leaf], plan.elems)
MaskDone(l)    == l \in Nullable => Holds(mask[l], plan.start[l], plan.present[l])
OffsetsDone(l) == Holds(offs[l], plan.start[l] + 1, Sums(l))

\* Leaf first, MASK before OFFSETS: at a level everything below is done.
WritesFit ==
  /\ pc \in {"extend_leaf", "write_leaf"} => at = Leaf
  /\ pc = "write_leaf" => Behind(leaf, plan.start[Leaf], plan.elems)
  /\ pc \in MaskSteps \cup OffsetSteps => at \in Level
  /\ pc \in MaskSteps => at \in Nullable
  /\ pc = "write_mask" => Behind(mask[at], plan.start[at], plan.present[at])
  /\ pc \in OffsetSteps => MaskDone(at)
  /\ pc = "write_offsets" => Behind(offs[at], plan.start[at] + 1, Sums(at))
  /\ Appending /\ pc \notin {"extend_leaf", "write_leaf"} =>
       /\ LeafDone
       /\ \A l \in Level : l > at \/ pc = "commit" => MaskDone(l) /\ OffsetsDone(l)

\* Between any two writes of an append (_write_level, append_list_column) the
\* committed rows are described at every level and read as rows, and what is
\* written behind them is what the plan says, from the leaf up to the level at
\* hand.
ListInv == TypeOK /\ CommittedFit /\ RowsRead /\ PlanFits /\ WritesFit
=============================================================================
