----------------------------- MODULE QueryInvariant -----------------------------
(***************************************************************************)
(* What holds between two steps of Table.select, strong enough to imply    *)
(* itself after any step and the right answer at the end.                  *)
(***************************************************************************)
EXTENDS Query

\* The leaves a normal form is made of.
Leaves == {Leaf(p, negated) : p \in {q \in Predicates : q.node = "pred"}, negated \in BOOLEAN}

\* Every leaf of a term matches an element.
Holds(term, x) == \A i \in DOMAIN term : Matches(term[i], x)

\* The rows that have survived so far in the current term.
Now == IF rows = Unread THEN All ELSE rows

\* What the evaluation works on.
Setting ==
  /\ nrows \in Nat /\ \A r \in All : col[r] \in Values
  /\ fill \in Fills /\ <<where, FALSE>> \in Signed
  /\ \A S \in SUBSET All : S # Unread

\* How far it is.
Shape ==
  /\ pc \in {"idle", "term", "exact", "verify", "union", "done"}
  /\ terms \subseteq Seq(Leaves) /\ todo \in Seq(Leaves) /\ verify \in Seq(Leaves)
  /\ rows = Unread \/ rows \subseteq All
  /\ result \subseteq All
  /\ pc \in {"idle", "done"} => terms = {}
  /\ pc = "idle" => result = {}

\* The current term will add a row: it has survived the leaves done, and
\* matches those still to be tried or verified.
Pending(r) ==
  /\ pc \in {"exact", "verify", "union"} /\ r \in Now
  /\ pc \in {"exact", "verify"} => Holds(todo, col[r])
  /\ pc = "exact" => Holds(verify, col[r])

\* The predicate is true of a row if and only if the row is in the result, is
\* on its way there, or satisfies one of the terms left.
Kept ==
  pc # "idle" =>
    \A r \in All : Truth[<<where, col[r], fill>>] = "true" <=>
                     r \in result \/ Pending(r) \/ \E term \in terms : Holds(term, col[r])

\* Between two steps of a query (Table.select, _term_rows), the predicate is true
\* of exactly the rows in the result, pending or in a term left: no leaf is
\* dropped between the index pass and the verification, none judged twice
\* differently, no term lost.
QueryInv == Setting /\ Shape /\ Kept
=============================================================================
