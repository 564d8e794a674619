--------------------------- MODULE TableInvariant ---------------------------
(***************************************************************************)
(* The inductive invariant of TableStore: why its properties hold.  Each   *)
(* conjunct says what is true while one kind of step is pending.           *)
(***************************************************************************)
EXTENDS TableStore

Extending   == {"columns", "write"}
Rewriting   == {"mrows", "mtear", "mcontent"}
Maintaining == {"maintain", "bump"} \cup Rewriting
Mutating    == Extending \cup {"step4", "rows"} \cup Maintaining
Building    == {"bcreate", "bcontent", "bkind", "bgen", "brows", "bunlink", "blink"}
Refreshing  == {"refresh", "rcontent", "rgen", "rrows"}

\* Linked, or about to be linked again by the builder that rewrites the list.
Attached(i) == status[i] = "linked" \/ (pc = "blink" /\ i \in todo)

\* The locals of the running operation fit the step it is at.
LocalsFit ==
  /\ pc \in {"idle", "step4", "bump", "rows"} \cup (Building \ {"blink"}) => todo = {}
  /\ pc \in Mutating => op.kind \in {"append", "truncate"}
  /\ pc \in Mutating /\ op.kind = "append" => nrows < op.n
  /\ pc \in Mutating /\ op.kind = "truncate" => op.n < nrows
  /\ pc \in Extending => op.kind = "append" /\ todo \subseteq Columns
  /\ pc = "write" => cur \in todo /\ op.n <= ext[cur]
  /\ pc \in Rewriting \cup {"maintain"} =>
       op.maintain /\ op.g # None /\ todo \subseteq Linked \ Foreign
  /\ pc \in Rewriting => cur \in todo
  /\ pc \in Building \cup Refreshing =>
       op.n = nrows /\ form = "uint64" /\ op.g = gen
  /\ pc \in Building =>
       op.kind = "build" /\ ~op.maintain /\ cur \in Indexes \ Foreign
  /\ pc = "bcreate" => status[cur] = "none"
  /\ pc \in {"bcontent", "bkind"} => status[cur] = "bare"
  /\ pc \in {"bgen", "brows", "bunlink", "blink"} => status[cur] = "kinded"
  /\ pc = "blink" => todo \subseteq Indexes /\ cur \notin todo
  /\ pc \in Refreshing => op.kind = "refresh" /\ todo \subseteq Linked
  /\ pc \in Refreshing \ {"refresh"} => cur \in todo /\ cur \notin Foreign

\* GENERATION during a mutation: g_old until the bump, g_old + 1 after it.
GenerationFits ==
  /\ pc \in Mutating /\ op.g = None => form = "absent"
  /\ pc \in Mutating /\ op.g # None =>
       /\ form = "uint64" /\ op.g < MaxGen
       /\ gen = IF pc = "rows" THEN op.g + 1 ELSE op.g

\* Columns reach at least NROWS, and n_new once the append has extended them.
ExtentsFit ==
  /\ RowsCovered
  /\ op.kind = "append" /\ pc \in Mutating =>
       \A c \in Columns : c \notin todo \/ pc \notin Extending => op.n <= ext[c]

\* How far the token of an index can run ahead of GENERATION: one mutation,
\* which is running and maintains the index or was interrupted.
TokenFits(i) ==
  /\ sg[i] <= gen + 1
  /\ pc = "rows" => sg[i] <= gen
  /\ Attached(i) /\ i \in Foreign => sg[i] <= gen
  /\ Attached(i) /\ ~interrupted /\ ~(op.maintain /\ pc \in Maintaining) => sg[i] <= gen

TokensFit ==
  /\ \A i \in Indexes : status[i] \in {"none", "bare"} => sg[i] = None
  /\ form = "uint64" => \A i \in Indexes : TokenFits(i)
  /\ pc \in Refreshing => \A i \in Linked \ todo : sg[i] <= gen
  /\ pc \in Mutating /\ ~op.maintain => ~interrupted

\* A maintained index carries the tokens and the content of the state to come;
\* any other linked index is behind the GENERATION to come.
MaintainedFit ==
  /\ pc \in Rewriting => sg[cur] = op.g + 1
  /\ pc \in {"mtear", "mcontent"} => sn[cur] = op.n
  /\ pc \in Maintaining /\ op.maintain /\ op.g # None =>
       \A i \in Linked \ Foreign : i \notin todo =>
         sg[i] = op.g + 1 /\ sn[i] = op.n /\ content[i] = Snapshot(i, op.n)
  /\ pc = "rows" /\ op.g # None => \A i \in Linked :
       IF op.maintain /\ i \notin Foreign
         THEN sg[i] = gen /\ sn[i] = op.n /\ content[i] = Snapshot(i, op.n)
         ELSE sg[i] < gen

\* The index under construction has its content before it has its tokens.
BuiltFit ==
  /\ pc \in {"bkind", "bgen", "brows", "bunlink", "blink", "rgen", "rrows"}
       => content[cur] = Snapshot(cur, nrows)
  /\ pc \in {"brows", "bunlink", "blink", "rrows"} => sg[cur] = gen
  /\ pc \in {"rcontent", "rgen"} => ~ index_is_valid(cur)

AttachedTruth ==
  \A i \in Indexes : Attached(i) /\ index_is_valid(i) => content[i] = Snapshot(i, nrows)

\* What an operation publishes with its last flush, and what it is built up from.
PublishedFit ==
  /\ Restored /\ Disabled
  /\ pc \in Refreshing => \A i \in Linked \ todo : Believed(i) \/ i \in Foreign
  /\ pc \in Maintaining \cup {"rows"} /\ op.maintain /\ op.g = None => Linked = {}

\* What holds whoever calls, and whatever died before.
Base == TypeOK /\ LocalsFit /\ GenerationFits /\ ExtentsFit

IInv ==
  /\ TypeOK /\ LocalsFit /\ GenerationFits /\ ExtentsFit
  /\ TokensFit /\ MaintainedFit /\ BuiltFit /\ AttachedTruth
  /\ PublishedFit
=============================================================================
