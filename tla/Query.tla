--------------------------------- MODULE Query ---------------------------------
(***************************************************************************)
(* Table.select: a predicate is brought into disjunctive normal form and   *)
(* evaluated term by term, exact indexes first, then by reading values,    *)
(* with a scan in place of an index that is absent, stale or unusable.     *)
(* The promise is that indexes never show in the answer.                   *)
(***************************************************************************)
EXTENDS IndexKinds

CONSTANTS
  Values,     \* what a stored element can be
  Fills,      \* the fill values a column may declare
  Predicates, \* predicates, and every part of one
  Height,     \* of each, how deep it is; a leaf may be of height 0
  MaxHeight,  \* bound: how deep predicates are
  Cases,      \* records of a predicate asked for (where), and the bounds it is asked
              \* under: the row counts of the table (rows), its column's extent
  NoLabel,    \* a categorical label without a code
  Unread,     \* no candidate rows yet
  Enumerated  \* what a foreign bitmap enumerates

\* What a leaf can ask: an order of numbers, equality, or membership, the latter
\* two of labels too, or presence.
Asks(op, v) ==
  \/ op \in OrderOps /\ v \in Int
  \/ op = "==" /\ v \in Int \cup {NoLabel}
  \/ op = "in" /\ v \subseteq Int \cup {NoLabel}
  \/ op \in {"is_null", "is_valid"}

\* A predicate is a leaf, or made of less deep ones.
Formed(p) ==
  LET Part(q) == q \in Predicates /\ Height[q] < Height[p]
  IN  \/ p.node = "pred" /\ Asks(p.op, p.v)
      \/ p.node = "not" /\ Part(p.child)
      \/ p.node \in {"and", "or"} /\ Part(p.left) /\ Part(p.right)

ASSUME QueryAssumption ==
  /\ Values \subseteq Int \cup {NaN} /\ Fills \subseteq Int \cup {NaN, NoFill}
  /\ NoLabel \notin Int \cup {NaN, NoFill}
  /\ MaxHeight \in Nat /\ Height \in [Predicates -> 0..MaxHeight]
  /\ \A p \in Predicates : Formed(p)
  /\ \A case \in Cases : /\ case.where \in Predicates
                          /\ case.extent \in Nat /\ case.rows \subseteq 0..case.extent
                          /\ \A S \in SUBSET (1..case.extent) : S # Unread

VARIABLES
  col, nrows, fill,  \* the column, its committed rows and its fill value
  health,            \* of each index kind: "none", "usable", "broken" (valid, but it
                     \* raises when asked) or, of a foreign bitmap, "partial"
  where,             \* the predicate
  terms,             \* the AND-terms still to evaluate
  todo, verify,      \* leaves of the current term: to try, to read values for
  rows,              \* the rows that survive in the current term, or Unread
  result,            \* the union of the terms done
  pc

vars == <<col, nrows, fill, health, where, terms, todo, verify, rows, result, pc>>

Kinds == {"minmax", "sorted", "bitmap"}

Pred(op, v) == [node |-> "pred", op |-> op, v |-> v]
Not(p)      == [node |-> "not", child |-> p]
And(p, q)   == [node |-> "and", left |-> p, right |-> q]
Or(p, q)    == [node |-> "or", left |-> p, right |-> q]

\* A leaf: a predicate, and whether it is negated.
Leaf(p, negated) == [op |-> p.op, v |-> p.v, negated |-> negated]

\* A predicate, and whether it is negated.
Signed == Predicates \X BOOLEAN

\* Every term of the one followed by every term of the other.
Conjoined(S, T) == {s \o t : s \in S, t \in T}

\* Mutant: negation does not swap AND and OR.
DnfFlat(p, negated) ==
  LET flat[of \in Signed] ==
        LET q == of[1]
            n == of[2]
        IN  CASE q.node = "pred" -> {<<Leaf(q, n)>>}
              [] q.node = "not"  -> flat[<<q.child, ~n>>]
              [] q.node = "and"  ->
                   Conjoined(flat[<<q.left, n>>], flat[<<q.right, n>>])
              [] OTHER -> flat[<<q.left, n>>] \cup flat[<<q.right, n>>]
  IN  flat[<<p, negated>>]

\* The AND-terms of a predicate or its negation, NOT pushed down to the leaves.
Terms[of \in Signed] ==
  LET p == of[1]
      negated == of[2]
  IN  CASE p.node = "pred" -> {<<Leaf(p, negated)>>}
        [] p.node = "not"  -> Terms[<<p.child, ~negated>>]
        [] p.node = (IF negated THEN "or" ELSE "and") ->
             Conjoined(Terms[<<p.left, negated>>], Terms[<<p.right, negated>>])
        [] OTHER -> Terms[<<p.left, negated>>] \cup Terms[<<p.right, negated>>]

dnf(p, negated) == Terms[<<p, negated>>]

Init ==
  /\ \E case \in Cases :
       where = case.where /\ nrows \in case.rows /\ col \in [1..case.extent -> Values]
  /\ fill \in Fills
  /\ health \in [Kinds -> {"none", "usable", "broken", "partial"}]
  /\ \A kind \in Kinds \ {"bitmap"} : health[kind] # "partial"
  /\ terms = {} /\ todo = <<>> /\ verify = <<>>
  /\ rows = Unread /\ result = {} /\ pc = "idle"

-----------------------------------------------------------------------------
(* Leaves.                                                                 *)

All == 1..nrows

Works(kind) == health[kind] \in {"usable", "partial"}

\* What the index kinds answer; a query acts on the first of each kind only.
SortedAnswer(op, v) ==
  sorted_rows(col, nrows, compute_sorted_rows(col, nrows, fill), op, v)
BitmapAnswer(vs) ==
  bitmap_isin(IF health["bitmap"] = "partial"
                THEN partial_bitmap(col, nrows, Enumerated)
                ELSE compute_bitmap(col, nrows, fill), vs, fill)

\* The rows of a leaf from an exact index, or Unread if none can tell: the
\* sorted rows before the bitmap, for "in" the other way round, and a scan as
\* soon as the one that is asked turns out to be broken.
exact_leaf(leaf) ==
  LET labels == leaf.v \ {NoLabel}
      sorted == UNION {SortedAnswer("==", v) : v \in labels}
      bitmap == BitmapAnswer(IF leaf.op = "in" THEN labels ELSE {leaf.v})
      orUnread(answer) == IF answer = CannotSay THEN Unread ELSE answer
  IN
  IF leaf.negated \/ leaf.op \in {"is_null", "is_valid"} THEN Unread
  ELSE IF leaf.op = "in" THEN
    IF labels = {}
      THEN IF \A kind \in {"bitmap", "sorted"} : health[kind] = "none" THEN Unread ELSE {}
    ELSE IF health["bitmap"] = "broken" THEN Unread
    ELSE IF Works("bitmap") /\ bitmap # CannotSay THEN bitmap
    ELSE IF Works("sorted") THEN sorted ELSE Unread
  ELSE IF leaf.v = NoLabel THEN {}
  ELSE IF health["sorted"] = "broken" THEN Unread
  ELSE IF Works("sorted") THEN SortedAnswer(leaf.op, leaf.v)
  ELSE IF leaf.op = "==" /\ Works("bitmap") THEN orUnread(bitmap)
  ELSE Unread

\* Mutant: a negated leaf is pruned as if it were not.
CandidatesNegated(leaf) ==
  IF rows # Unread THEN rows
  ELSE IF leaf.op \in OrderOps \cup {"=="} /\ leaf.v # NoLabel /\ Works("minmax")
    THEN chunks_to_rows(prune(compute_chunk_minmax(col, nrows, fill),
                              leaf.op, leaf.v, fill), nrows)
  ELSE All

\* The rows whose values a leaf has to be read for.
Candidates(leaf) ==
  IF rows # Unread THEN rows
  ELSE IF ~leaf.negated /\ leaf.op \in OrderOps \cup {"=="} /\ leaf.v # NoLabel
          /\ Works("minmax")
    THEN chunks_to_rows(prune(compute_chunk_minmax(col, nrows, fill),
                              leaf.op, leaf.v, fill), nrows)
  ELSE All

\* A leaf on one value: a missing row satisfies no comparison, negated or not.
Matches(leaf, x) ==
  IF leaf.op \in {"is_null", "is_valid"}
    THEN (leaf.op = "is_null") = (is_missing(x, fill) # leaf.negated)
    ELSE ~is_missing(x, fill) /\ Compare(x, leaf.op, leaf.v) # leaf.negated

verify_leaf(leaf) == {r \in Candidates(leaf) : Matches(leaf, col[r])}

-----------------------------------------------------------------------------
(* Evaluation.                                                             *)

table == <<col, nrows, fill, health, where>>

Run ==
  /\ pc = "idle"
  /\ terms' = dnf(where, FALSE) /\ pc' = "term"
  /\ UNCHANGED <<table, todo, verify, rows, result>>

BeginTerm ==
  /\ pc = "term" /\ terms # {}
  /\ \E term \in terms : todo' = term /\ terms' = terms \ {term}
  /\ verify' = <<>> /\ rows' = Unread /\ pc' = "exact"
  /\ UNCHANGED <<table, result>>

\* An index answers the leaf, or it is put off until values are read.  A term
\* with no surviving row is over.
ExactLeaf ==
  /\ pc = "exact" /\ todo # <<>>
  /\ LET answer == exact_leaf(Head(todo)) IN
       /\ rows' = IF answer = Unread THEN rows
                  ELSE IF rows = Unread THEN answer ELSE rows \intersect answer
       /\ verify' = IF answer = Unread THEN Append(verify, Head(todo)) ELSE verify
  /\ todo' = Tail(todo)
  /\ pc' = IF rows' = {} THEN "union" ELSE "exact"
  /\ UNCHANGED <<table, terms, result>>

EndExact ==
  /\ pc = "exact" /\ todo = <<>>
  /\ todo' = verify /\ verify' = <<>> /\ pc' = "verify"
  /\ UNCHANGED <<table, terms, rows, result>>

VerifyLeaf ==
  /\ pc = "verify" /\ todo # <<>>
  /\ rows' = verify_leaf(Head(todo))
  /\ todo' = Tail(todo)
  /\ pc' = IF rows' = {} THEN "union" ELSE "verify"
  /\ UNCHANGED <<table, terms, verify, result>>

EndVerify ==
  /\ pc = "verify" /\ todo = <<>> /\ pc' = "union"
  /\ UNCHANGED <<table, terms, todo, verify, rows, result>>

Union1d ==
  /\ pc = "union"
  /\ result' = result \cup (IF rows = Unread THEN All ELSE rows)
  /\ pc' = "term"
  /\ UNCHANGED <<table, terms, todo, verify, rows>>

Answer ==
  /\ pc = "term" /\ terms = {} /\ pc' = "done"
  /\ UNCHANGED <<table, terms, todo, verify, rows, result>>

Done == pc = "done" /\ UNCHANGED vars

Next ==
  \/ Run \/ BeginTerm \/ ExactLeaf \/ EndExact \/ VerifyLeaf \/ EndVerify
  \/ Union1d \/ Answer \/ Done

Spec == Init /\ [][Next]_vars

-----------------------------------------------------------------------------
(* Properties.                                                             *)

\* A predicate, a stored element and a fill value.
Judged == Predicates \X Values \X Fills

\* Kleene's three truth values.
NotTruth(a) == IF a = "true" THEN "false" ELSE IF a = "false" THEN "true" ELSE "unknown"
AndTruth(a, b) ==
  IF a = "false" \/ b = "false" THEN "false"
  ELSE IF a = "true" /\ b = "true" THEN "true" ELSE "unknown"
OrTruth(a, b) == NotTruth(AndTruth(NotTruth(a), NotTruth(b)))

\* Of a leaf: a comparison with a missing element is unknown, a presence test
\* never is.
LeafTruth(p, x, f) ==
  IF p.op \in {"is_null", "is_valid"}
    THEN IF (p.op = "is_null") = is_missing(x, f) THEN "true" ELSE "false"
  ELSE IF is_missing(x, f) THEN "unknown"
  ELSE IF Compare(x, p.op, p.v) THEN "true" ELSE "false"

\* The truth of a predicate on a row.
Truth[of \in Judged] ==
  LET p == of[1]
      Of(q) == Truth[<<q, of[2], of[3]>>]
  IN  CASE p.node = "pred" -> LeafTruth(p, of[2], of[3])
        [] p.node = "not"  -> NotTruth(Of(p.child))
        [] p.node = "and"  -> AndTruth(Of(p.left), Of(p.right))
        [] p.node = "or"   -> OrTruth(Of(p.left), Of(p.right))

\* Table.select returns exactly the committed rows of which the predicate is
\* true, whatever indexes there are and in whatever state: normal form, exact
\* answers, pruning and verification never change an answer ("the planner and
\* the reference path below must answer alike", query.py).
AnswersTheQuestion ==
  pc = "done" => result = {r \in All : Truth[<<where, col[r], fill>>] = "true"}

\* Each kind of index, asked directly: prune excludes no chunk with a match,
\* SORTED_ROWS answers exactly, BITMAP answers exactly or says that it cannot.
IndexesAnswer ==
  pc = "idle" =>
    LET exact(op, v) == {r \in All : ~is_missing(col[r], fill) /\ Compare(col[r], op, v)}
        numbers == Values \ {NaN}
        entries == compute_chunk_minmax(col, nrows, fill)
        content == compute_sorted_rows(col, nrows, fill)
        Ask(op, v) ==
          /\ exact(op, v) \subseteq chunks_to_rows(prune(entries, op, v, fill), nrows)
          /\ sorted_rows(col, nrows, content, op, v) = exact(op, v)
    IN  /\ \A op \in OrderOps \cup {"=="}, v \in numbers : Ask(op, v)
        /\ \A v \in numbers \X numbers : Ask("between", v)
        /\ \A vs \in SUBSET numbers : BitmapAnswer(vs) \in {exact("in", vs), CannotSay}
=============================================================================
