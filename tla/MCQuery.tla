-------------------------------- MODULE MCQuery --------------------------------
(* Small instances of Query for TLC.                                       *)
EXTENDS QueryInvariant

Asked ==
  {Pred("<", 2), Pred(">=", 2), Pred("==", 1), Pred("==", NoLabel),
   Pred("in", {1, 2, NoLabel}), Pred("is_null", NoLabel)}

\* One leaf, two leaves joined and negated, and a term to distribute over.
Single == Asked \cup {Not(p) : p \in Asked}
Pairs  == {And(p, Not(q)) : p, q \in Asked}
Joined == Pairs \cup {Not(And(p, q)) : p, q \in Asked}
            \cup {Not(Or(Not(p), q)) : p, q \in Asked}
Nested == {And(p, Or(Pred("<", 2), Not(q))) : p, q \in Asked}

\* Asked over up to two chunks and rows behind NROWS; two and three leaves over
\* one chunk and over two, the last not full; and, for the index kinds, columns
\* of two full chunks.
Plans ==
  [where : Single, rows : {0..3}, extent : {3}]
    \cup [where : Joined \cup Nested, rows : {{2}}, extent : {2}]
    \cup [where : Pairs, rows : {{3}}, extent : {3}]
    \cup [where : {Pred("==", 1)}, rows : {0..4}, extent : {4}]

\* Every part of the predicates asked for, and how deep it is.
RECURSIVE Parts(_), Deep(_)
Parts(p) ==
  {p} \cup CASE p.node = "pred" -> {}
             [] p.node = "not"  -> Parts(p.child)
             [] OTHER -> Parts(p.left) \cup Parts(p.right)
Deep(p) ==
  CASE p.node = "pred" -> 0
    [] p.node = "not"  -> 1 + Deep(p.child)
    [] OTHER -> 1 + Max({Deep(p.left), Deep(p.right)})

AllParts == UNION {Parts(case.where) : case \in Plans}
Depths   == [p \in AllParts |-> Deep(p)]

Numbers == {1, 2, NaN}
SomeFills == {NoFill, NaN, 1, 2}
=============================================================================
