------------------------------ MODULE QueryProofs ------------------------------
(***************************************************************************)
(* Proofs about Query: for any predicate, column, fill value and state of  *)
(* the indexes, an exact index or a scan gives every leaf its rows, the    *)
(* normal form is true where the predicate is, and the evaluation returns  *)
(* the rows it is true of.                                                 *)
(***************************************************************************)
EXTENDS QueryInvariant, IndexKindsProofs

-----------------------------------------------------------------------------
(* The recursive functions exist.                                          *)

\* What the recursion of Terms makes of a function.
TermsOf(f, of) ==
  LET p == of[1]
      negated == of[2]
  IN  CASE p.node = "pred" -> {<<Leaf(p, negated)>>}
        [] p.node = "not"  -> f[<<p.child, ~negated>>]
        [] p.node = (IF negated THEN "or" ELSE "and") ->
             Conjoined(f[<<p.left, negated>>], f[<<p.right, negated>>])
        [] OTHER -> f[<<p.left, negated>>] \cup f[<<p.right, negated>>]

\* What the recursion of Truth makes of one.
TruthOf(g, of) ==
  LET p == of[1]
      Of(q) == g[<<q, of[2], of[3]>>]
  IN  CASE p.node = "pred" -> LeafTruth(p, of[2], of[3])
        [] p.node = "not"  -> NotTruth(Of(p.child))
        [] p.node = "and"  -> AndTruth(Of(p.left), Of(p.right))
        [] p.node = "or"   -> OrTruth(Of(p.left), Of(p.right))

\* TermsOf, case by case.
LEMMA TermsCases ==
  ASSUME NEW f, NEW p \in Predicates, NEW negated \in BOOLEAN
  PROVE  /\ p.node = "pred" => TermsOf(f, <<p, negated>>) = {<<Leaf(p, negated)>>}
         /\ p.node = "not"  => TermsOf(f, <<p, negated>>) = f[<<p.child, ~negated>>]
         /\ p.node = (IF negated THEN "or" ELSE "and") =>
              TermsOf(f, <<p, negated>>) =
                Conjoined(f[<<p.left, negated>>], f[<<p.right, negated>>])
         /\ p.node = (IF negated THEN "and" ELSE "or") =>
              TermsOf(f, <<p, negated>>) = f[<<p.left, negated>>] \cup f[<<p.right, negated>>]
<1> DEFINE conj == Conjoined(f[<<p.left, negated>>], f[<<p.right, negated>>])
           disj == f[<<p.left, negated>>] \cup f[<<p.right, negated>>]
<1>1. TermsOf(f, <<p, negated>>) =
        CASE p.node = "pred" -> {<<Leaf(p, negated)>>}
          [] p.node = "not"  -> f[<<p.child, ~negated>>]
          [] p.node = (IF negated THEN "or" ELSE "and") -> conj
          [] OTHER -> disj
  BY DEF TermsOf
<1> HIDE DEF conj, disj
<1>2. CASE p.node = "pred"
  BY <1>1, <1>2
<1>3. CASE p.node = "not"
  BY <1>1, <1>3
<1>4. CASE p.node = (IF negated THEN "or" ELSE "and")
  <2>1. CASE negated
    BY <1>1, <1>4, <2>1 DEF conj
  <2>2. CASE ~negated
    BY <1>1, <1>4, <2>2 DEF conj
  <2> QED BY <2>1, <2>2
<1>5. CASE p.node = (IF negated THEN "and" ELSE "or")
  <2>1. CASE negated
    BY <1>1, <1>5, <2>1 DEF disj
  <2>2. CASE ~negated
    BY <1>1, <1>5, <2>2 DEF disj
  <2> QED BY <2>1, <2>2
<1> QED BY <1>2, <1>3, <1>4, <1>5

\* A predicate is a leaf asked right, or its parts are predicates less deep.
LEMMA Forms ==
  ASSUME NEW p \in Predicates, NEW negated \in BOOLEAN
  PROVE  \/ p.node = "pred" /\ Asks(p.op, p.v)
         \/ /\ p.node = "not"
            /\ p.child \in Predicates /\ Height[p.child] < Height[p]
            /\ <<p.child, ~negated>> \in Signed
         \/ /\ \/ p.node = (IF negated THEN "or" ELSE "and")
               \/ p.node = (IF negated THEN "and" ELSE "or")
            /\ p.node \in {"and", "or"}
            /\ p.left \in Predicates /\ Height[p.left] < Height[p]
            /\ p.right \in Predicates /\ Height[p.right] < Height[p]
            /\ <<p.left, negated>> \in Signed /\ <<p.right, negated>> \in Signed
<1>1. Formed(p)
  BY QueryAssumption
<1>2. CASE p.node = "pred"
  BY <1>1, <1>2 DEF Formed
<1>3. CASE p.node = "not"
  <2>1. p.child \in Predicates /\ Height[p.child] < Height[p]
    BY <1>1, <1>3 DEF Formed
  <2>2. <<p.child, ~negated>> \in Signed
    BY <2>1 DEF Signed
  <2> QED BY <1>3, <2>1, <2>2
<1>4. CASE p.node \in {"and", "or"}
  <2>1. /\ p.left \in Predicates /\ Height[p.left] < Height[p]
        /\ p.right \in Predicates /\ Height[p.right] < Height[p]
    BY <1>1, <1>4 DEF Formed
  <2>2. <<p.left, negated>> \in Signed /\ <<p.right, negated>> \in Signed
    BY <2>1 DEF Signed
  <2> QED BY <1>4, <2>1, <2>2
<1> QED BY <1>1, <1>2, <1>3, <1>4 DEF Formed

\* Terms is a set of sequences of leaves for every signed predicate, and satisfies
\* its own recursion: a predicate's depth bounds it.
LEMMA TermsDefined ==
  /\ Terms \in [Signed -> SUBSET Seq(Leaves)]
  /\ \A of \in Signed : Terms[of] = TermsOf(Terms, of)
<1> DEFINE X == SUBSET Seq(Leaves)
           measure == [of \in Signed |-> Height[of[1]]]
           F == [f \in [Signed -> X] |-> [of \in Signed |-> TermsOf(f, of)]]
<1>1. measure \in [Signed -> 0..MaxHeight] /\ MaxHeight \in Nat
  BY QueryAssumption DEF Signed
<1>2. ASSUME NEW f, NEW of \in Signed, \A y \in Signed : measure[y] < measure[of] => f[y] \in X
      PROVE  TermsOf(f, of) \in X
  <2>1. PICK p \in Predicates, negated \in BOOLEAN : of = <<p, negated>>
    BY DEF Signed
  <2>2. CASE p.node = "pred"
    <3>1. Leaf(p, negated) \in Leaves
      BY <2>2 DEF Leaves
    <3>2. <<Leaf(p, negated)>> \in Seq(Leaves)
      BY <3>1
    <3>3. TermsOf(f, <<p, negated>>) = {<<Leaf(p, negated)>>}
      BY <2>2, TermsCases
    <3> QED BY <2>1, <3>2, <3>3
  <2>3. CASE p.node = "not"
    <3>1. <<p.child, ~negated>> \in Signed /\ Height[p.child] < Height[p]
      BY <2>3, Forms
    <3>2. f[<<p.child, ~negated>>] \in X
      BY <2>1, <3>1, <1>2
    <3>3. TermsOf(f, <<p, negated>>) = f[<<p.child, ~negated>>]
      BY <2>3, TermsCases
    <3> HIDE DEF X
    <3> QED BY <2>1, <3>2, <3>3
  <2>4. CASE p.node \in {"and", "or"}
    <3> DEFINE S == f[<<p.left, negated>>]
               T == f[<<p.right, negated>>]
    <3>1. /\ <<p.left, negated>> \in Signed /\ <<p.right, negated>> \in Signed
          /\ Height[p.left] < Height[p] /\ Height[p.right] < Height[p]
      BY <2>4, Forms
    <3>2. S \in X /\ T \in X
      BY <2>1, <3>1, <1>2
    <3>3. TermsOf(f, <<p, negated>>) \in {Conjoined(S, T), S \cup T}
      <4>1. /\ p.node = (IF negated THEN "or" ELSE "and") =>
                 TermsOf(f, <<p, negated>>) = Conjoined(S, T)
            /\ p.node = (IF negated THEN "and" ELSE "or") =>
                 TermsOf(f, <<p, negated>>) = S \cup T
        BY TermsCases
      <4> HIDE DEF S, T
      <4> QED BY <2>4, <4>1
    <3> HIDE DEF S, T
    <3>4. Conjoined(S, T) \in X
      <4> SUFFICES ASSUME NEW u \in Conjoined(S, T) PROVE u \in Seq(Leaves)
        OBVIOUS
      <4>1. PICK s \in S, t \in T : u = s \o t
        BY DEF Conjoined
      <4>2. s \in Seq(Leaves) /\ t \in Seq(Leaves)
        BY <3>2
      <4> QED BY <4>1, <4>2, ConcatProperties
    <3>5. S \cup T \in X
      BY <3>2
    <3> HIDE DEF X
    <3> QED BY <2>1, <3>3, <3>4, <3>5
  <2> QED BY <2>2, <2>3, <2>4, Forms
<1>3. ASSUME NEW f, NEW g, NEW of \in Signed,
             \A y \in Signed : measure[y] < measure[of] => f[y] = g[y]
      PROVE  TermsOf(f, of) = TermsOf(g, of)
  <2>1. PICK p \in Predicates, negated \in BOOLEAN : of = <<p, negated>>
    BY DEF Signed
  <2> SUFFICES TermsOf(f, <<p, negated>>) = TermsOf(g, <<p, negated>>)
    BY <2>1
  <2>2. CASE p.node = "pred"
    BY <2>2, TermsCases
  <2>3. CASE p.node = "not"
    <3>1. <<p.child, ~negated>> \in Signed /\ Height[p.child] < Height[p]
      BY <2>3, Forms
    <3>2. f[<<p.child, ~negated>>] = g[<<p.child, ~negated>>]
      BY <2>1, <3>1, <1>3
    <3>3. /\ TermsOf(f, <<p, negated>>) = f[<<p.child, ~negated>>]
          /\ TermsOf(g, <<p, negated>>) = g[<<p.child, ~negated>>]
      BY <2>3, TermsCases
    <3> QED BY <3>2, <3>3
  <2>4. CASE p.node \in {"and", "or"}
    <3>1. /\ <<p.left, negated>> \in Signed /\ <<p.right, negated>> \in Signed
          /\ Height[p.left] < Height[p] /\ Height[p.right] < Height[p]
      BY <2>4, Forms
    <3>2. /\ f[<<p.left, negated>>] = g[<<p.left, negated>>]
          /\ f[<<p.right, negated>>] = g[<<p.right, negated>>]
      BY <2>1, <3>1, <1>3
    <3>3. CASE p.node = (IF negated THEN "or" ELSE "and")
      <4>1. /\ TermsOf(f, <<p, negated>>) = Conjoined(f[<<p.left, negated>>], f[<<p.right, negated>>])
            /\ TermsOf(g, <<p, negated>>) = Conjoined(g[<<p.left, negated>>], g[<<p.right, negated>>])
        BY <3>3, TermsCases
      <4> QED BY <3>2, <4>1
    <3>4. CASE p.node = (IF negated THEN "and" ELSE "or")
      <4>1. /\ TermsOf(f, <<p, negated>>) = f[<<p.left, negated>>] \cup f[<<p.right, negated>>]
            /\ TermsOf(g, <<p, negated>>) = g[<<p.left, negated>>] \cup g[<<p.right, negated>>]
        BY <3>4, TermsCases
      <4> QED BY <3>2, <4>1
    <3> QED BY <2>4, <3>3, <3>4, Forms
  <2> QED BY <2>2, <2>3, <2>4, Forms
<1>4. ASSUME NEW f \in [Signed -> X], NEW of \in Signed PROVE TermsOf(f, of) \in X
  <2> HIDE DEF X
  <2> QED BY <1>2
<1> HIDE DEF X, measure
<1>5. LooksDown(Signed, X, measure, F)
  <2>1. F \in [[Signed -> X] -> [Signed -> X]]
    BY <1>4
  <2>2. \A f, g \in [Signed -> X] : \A of \in Signed :
          (\A y \in Signed : measure[y] < measure[of] => f[y] = g[y]) => F[f][of] = F[g][of]
    BY <1>3
  <2> HIDE DEF F
  <2> QED BY <2>1, <2>2 DEF LooksDown
<1>6. [Signed -> X] # {}
  <2>1. [of \in Signed |-> {}] \in [Signed -> X]
    BY DEF X
  <2> QED BY <2>1
<1>7. PICK f \in [Signed -> X] : f = F[f]
  <2> HIDE DEF F
  <2> QED BY <1>1, <1>5, <1>6, BoundedRecursion
<1>8. f = [of \in Signed |-> TermsOf(f, of)]
  BY <1>7
<1>9. Terms = CHOOSE g : g = [of \in Signed |-> TermsOf(g, of)]
  BY DEF Terms, TermsOf
<1>10. Terms = [of \in Signed |-> TermsOf(Terms, of)]
  BY <1>8, <1>9
<1>11. Signed \subseteq {of \in Signed : Terms[of] \in X}
  <2> DEFINE P == {of \in Signed : Terms[of] \in X}
  <2>1. ASSUME NEW of \in Signed, \A y \in Signed : measure[y] < measure[of] => y \in P
        PROVE  of \in P
    <3>1. TermsOf(Terms, of) \in X
      BY <2>1, <1>2
    <3> QED BY <3>1, <1>10
  <2> HIDE DEF P
  <2>2. \A of \in Signed : (\A y \in Signed : measure[y] < measure[of] => y \in P) => of \in P
    BY <2>1
  <2>3. Signed \subseteq P
    BY <2>2, <1>1, MeasureInduction
  <2> QED BY <2>3 DEF P
<1> QED BY <1>10, <1>11 DEF X

\* Kleene's truth values.
Truths == {"true", "false", "unknown"}

\* The connectives yield one of three truth values.
LEMMA KleeneTypes ==
  ASSUME NEW a, NEW b
  PROVE  NotTruth(a) \in Truths /\ AndTruth(a, b) \in Truths /\ OrTruth(a, b) \in Truths
BY DEF Truths, NotTruth, AndTruth, OrTruth

\* When a connective is true, and when false.
LEMMA Kleene ==
  ASSUME NEW a \in Truths, NEW b \in Truths
  PROVE  /\ NotTruth(a) = "true" <=> a = "false"
         /\ NotTruth(a) = "false" <=> a = "true"
         /\ AndTruth(a, b) = "true" <=> a = "true" /\ b = "true"
         /\ AndTruth(a, b) = "false" <=> a = "false" \/ b = "false"
         /\ OrTruth(a, b) = "true" <=> a = "true" \/ b = "true"
         /\ OrTruth(a, b) = "false" <=> a = "false" /\ b = "false"
BY DEF Truths, NotTruth, AndTruth, OrTruth

\* TruthOf, case by case.
LEMMA TruthCases ==
  ASSUME NEW g, NEW p \in Predicates, NEW x, NEW f
  PROVE  /\ p.node = "pred" => TruthOf(g, <<p, x, f>>) = LeafTruth(p, x, f)
         /\ p.node = "not"  => TruthOf(g, <<p, x, f>>) = NotTruth(g[<<p.child, x, f>>])
         /\ p.node = "and"  => TruthOf(g, <<p, x, f>>) =
                                 AndTruth(g[<<p.left, x, f>>], g[<<p.right, x, f>>])
         /\ p.node = "or"   => TruthOf(g, <<p, x, f>>) =
                                 OrTruth(g[<<p.left, x, f>>], g[<<p.right, x, f>>])
<1> DEFINE leaf == LeafTruth(p, x, f)
           inv  == NotTruth(g[<<p.child, x, f>>])
           conj == AndTruth(g[<<p.left, x, f>>], g[<<p.right, x, f>>])
           disj == OrTruth(g[<<p.left, x, f>>], g[<<p.right, x, f>>])
<1>1. TruthOf(g, <<p, x, f>>) =
        CASE p.node = "pred" -> leaf
          [] p.node = "not"  -> inv
          [] p.node = "and" -> conj
          [] p.node = "or" -> disj
  BY DEF TruthOf
<1> HIDE DEF leaf, inv, conj, disj
<1>2. /\ p.node = "pred" => TruthOf(g, <<p, x, f>>) = leaf
      /\ p.node = "not" => TruthOf(g, <<p, x, f>>) = inv
      /\ p.node = "and" => TruthOf(g, <<p, x, f>>) = conj
      /\ p.node = "or" => TruthOf(g, <<p, x, f>>) = disj
  BY <1>1
<1> QED BY <1>2 DEF leaf, inv, conj, disj

\* The parts of a predicate, judged on the same element, are less deep.
LEMMA Parts ==
  ASSUME NEW p \in Predicates, NEW x \in Values, NEW f \in Fills
  PROVE  \/ p.node = "pred"
         \/ /\ p.node = "not"
            /\ <<p.child, x, f>> \in Judged /\ Height[p.child] < Height[p]
         \/ /\ p.node \in {"and", "or"}
            /\ <<p.left, x, f>> \in Judged /\ Height[p.left] < Height[p]
            /\ <<p.right, x, f>> \in Judged /\ Height[p.right] < Height[p]
<1>1. \/ p.node = "pred"
      \/ p.node = "not" /\ p.child \in Predicates /\ Height[p.child] < Height[p]
      \/ /\ p.node \in {"and", "or"}
         /\ p.left \in Predicates /\ Height[p.left] < Height[p]
         /\ p.right \in Predicates /\ Height[p.right] < Height[p]
  BY Forms
<1> QED BY <1>1 DEF Judged

\* Truth is one of three values for every judgement, and satisfies its own recursion.
LEMMA TruthDefined ==
  /\ Truth \in [Judged -> Truths]
  /\ \A of \in Judged : Truth[of] = TruthOf(Truth, of)
<1> DEFINE measure == [of \in Judged |-> Height[of[1]]]
           F == [g \in [Judged -> Truths] |-> [of \in Judged |-> TruthOf(g, of)]]
<1>1. measure \in [Judged -> 0..MaxHeight] /\ MaxHeight \in Nat
  BY QueryAssumption DEF Judged
<1>2. ASSUME NEW g, NEW of \in Judged
      PROVE  TruthOf(g, of) \in Truths
  <2>1. PICK p \in Predicates, x \in Values, f \in Fills : of = <<p, x, f>>
    BY DEF Judged
  <2> SUFFICES TruthOf(g, <<p, x, f>>) \in Truths
    BY <2>1
  <2>2. LeafTruth(p, x, f) \in Truths
    BY DEF LeafTruth, Truths
  <2>3. /\ NotTruth(g[<<p.child, x, f>>]) \in Truths
        /\ AndTruth(g[<<p.left, x, f>>], g[<<p.right, x, f>>]) \in Truths
        /\ OrTruth(g[<<p.left, x, f>>], g[<<p.right, x, f>>]) \in Truths
    BY KleeneTypes
  <2>4. CASE p.node = "pred"
    BY <2>2, <2>4, TruthCases
  <2>5. CASE p.node = "not"
    BY <2>3, <2>5, TruthCases
  <2>6. CASE p.node = "and"
    BY <2>3, <2>6, TruthCases
  <2>7. CASE p.node = "or"
    BY <2>3, <2>7, TruthCases
  <2> QED BY <2>4, <2>5, <2>6, <2>7, Parts
<1>3. ASSUME NEW g, NEW h, NEW of \in Judged,
             \A y \in Judged : measure[y] < measure[of] => g[y] = h[y]
      PROVE  TruthOf(g, of) = TruthOf(h, of)
  <2>1. PICK p \in Predicates, x \in Values, f \in Fills : of = <<p, x, f>>
    BY DEF Judged
  <2> SUFFICES TruthOf(g, <<p, x, f>>) = TruthOf(h, <<p, x, f>>)
    BY <2>1
  <2>2. CASE p.node = "pred"
    <3>1. TruthOf(g, <<p, x, f>>) = LeafTruth(p, x, f)
      BY <2>2, TruthCases
    <3>2. TruthOf(h, <<p, x, f>>) = LeafTruth(p, x, f)
      BY <2>2, TruthCases
    <3> QED BY <3>1, <3>2
  <2>3. CASE p.node = "not"
    <3>1. <<p.child, x, f>> \in Judged /\ Height[p.child] < Height[p]
      BY <2>3, Parts
    <3>2. g[<<p.child, x, f>>] = h[<<p.child, x, f>>]
      BY <2>1, <3>1, <1>3
    <3>3. TruthOf(g, <<p, x, f>>) = NotTruth(g[<<p.child, x, f>>])
      BY <2>3, TruthCases
    <3>4. TruthOf(h, <<p, x, f>>) = NotTruth(h[<<p.child, x, f>>])
      BY <2>3, TruthCases
    <3> QED BY <3>2, <3>3, <3>4
  <2>4. CASE p.node \in {"and", "or"}
    <3>1. /\ <<p.left, x, f>> \in Judged /\ <<p.right, x, f>> \in Judged
          /\ Height[p.left] < Height[p] /\ Height[p.right] < Height[p]
      BY <2>4, Parts
    <3>2. g[<<p.left, x, f>>] = h[<<p.left, x, f>>] /\ g[<<p.right, x, f>>] = h[<<p.right, x, f>>]
      BY <2>1, <3>1, <1>3
    <3>3. CASE p.node = "and"
      <4>1. TruthOf(g, <<p, x, f>>) = AndTruth(g[<<p.left, x, f>>], g[<<p.right, x, f>>])
        BY <3>3, TruthCases
      <4>2. TruthOf(h, <<p, x, f>>) = AndTruth(h[<<p.left, x, f>>], h[<<p.right, x, f>>])
        BY <3>3, TruthCases
      <4> QED BY <3>2, <4>1, <4>2
    <3>4. CASE p.node = "or"
      <4>1. TruthOf(g, <<p, x, f>>) = OrTruth(g[<<p.left, x, f>>], g[<<p.right, x, f>>])
        BY <3>4, TruthCases
      <4>2. TruthOf(h, <<p, x, f>>) = OrTruth(h[<<p.left, x, f>>], h[<<p.right, x, f>>])
        BY <3>4, TruthCases
      <4> QED BY <3>2, <4>1, <4>2
    <3> QED BY <2>4, <3>3, <3>4
  <2> QED BY <2>2, <2>3, <2>4, Parts
<1> HIDE DEF measure
<1>4. LooksDown(Judged, Truths, measure, F)
  <2>1. F \in [[Judged -> Truths] -> [Judged -> Truths]]
    BY <1>2
  <2>2. \A g, h \in [Judged -> Truths] : \A of \in Judged :
          (\A y \in Judged : measure[y] < measure[of] => g[y] = h[y]) => F[g][of] = F[h][of]
    BY <1>3
  <2> HIDE DEF F
  <2> QED BY <2>1, <2>2 DEF LooksDown
<1>5. [Judged -> Truths] # {}
  <2>1. [of \in Judged |-> "true"] \in [Judged -> Truths]
    BY DEF Truths
  <2> QED BY <2>1
<1>6. PICK g \in [Judged -> Truths] : g = F[g]
  <2> HIDE DEF F
  <2> QED BY <1>1, <1>4, <1>5, BoundedRecursion
<1>7. g = [of \in Judged |-> TruthOf(g, of)]
  BY <1>6
<1>8. Truth = CHOOSE h : h = [of \in Judged |-> TruthOf(h, of)]
  BY DEF Truth, TruthOf
<1>9. Truth = [of \in Judged |-> TruthOf(Truth, of)]
  BY <1>7, <1>8
<1> QED BY <1>2, <1>9

-----------------------------------------------------------------------------
(* The normal form.                                                        *)

\* A comparison asked right is true or false.
LEMMA Comparable ==
  ASSUME NEW x, NEW op, NEW v, Asks(op, v), op \notin {"is_null", "is_valid"}
  PROVE  Compare(x, op, v) \in BOOLEAN
<1>1. CASE op \in OrderOps
  BY <1>1 DEF Compare, OrderOps
<1>2. CASE op = "=="
  BY <1>2 DEF Compare
<1>3. CASE op = "in"
  BY <1>3 DEF Compare
<1> QED BY <1>1, <1>2, <1>3 DEF Asks

\* The truth value a leaf, negated or not, asks for.
Wanted(negated) == IF negated THEN "false" ELSE "true"

\* A leaf matches an element if and only if its predicate is true of it or, negated,
\* false: unknown is neither.
LEMMA LeafMatches ==
  ASSUME NEW p \in Predicates, p.node = "pred", NEW negated \in BOOLEAN, NEW x \in Values
  PROVE  /\ Matches(Leaf(p, negated), x) \in BOOLEAN
         /\ Matches(Leaf(p, negated), x) <=> LeafTruth(p, x, fill) = Wanted(negated)
<1> DEFINE m == is_missing(x, fill)
           leaf == Leaf(p, negated)
<1>1. Asks(p.op, p.v)
  BY Forms
<1>2. m \in BOOLEAN
  BY DEF is_missing
<1>3. leaf.op = p.op /\ leaf.v = p.v /\ leaf.negated = negated
  BY DEF Leaf
<1> HIDE DEF leaf, m
<1>4. CASE p.op \in {"is_null", "is_valid"}
  <2> DEFINE n == p.op = "is_null"
  <2>1. Matches(leaf, x) = (n = (m # negated))
    BY <1>3, <1>4 DEF Matches, m
  <2>2. LeafTruth(p, x, fill) = IF n = m THEN "true" ELSE "false"
    BY <1>4 DEF LeafTruth, m
  <2>3. n \in BOOLEAN
    OBVIOUS
  <2> HIDE DEF n
  <2> QED BY <1>2, <2>1, <2>2, <2>3 DEF Wanted, leaf
<1>5. CASE p.op \notin {"is_null", "is_valid"}
  <2> DEFINE c == Compare(x, p.op, p.v)
  <2>1. Matches(leaf, x) = (~m /\ c # negated)
    BY <1>3, <1>5 DEF Matches, m
  <2>2. LeafTruth(p, x, fill) = IF m THEN "unknown" ELSE IF c THEN "true" ELSE "false"
    BY <1>5 DEF LeafTruth, m
  <2>3. c \in BOOLEAN
    BY <1>1, <1>5, Comparable
  <2> HIDE DEF c
  <2> QED BY <1>2, <2>1, <2>2, <2>3 DEF Wanted, leaf
<1> QED BY <1>4, <1>5

\* A conjoined term holds if and only if both its halves do.
LEMMA ConjoinedHolds ==
  ASSUME NEW S, S \subseteq Seq(Leaves), NEW T, T \subseteq Seq(Leaves), NEW x
  PROVE  (\E u \in Conjoined(S, T) : Holds(u, x)) <=>
           (\E s \in S : Holds(s, x)) /\ (\E t \in T : Holds(t, x))
<1>1. ASSUME NEW s \in S, NEW t \in T PROVE Holds(s \o t, x) <=> Holds(s, x) /\ Holds(t, x)
  <2>1. s \in Seq(Leaves) /\ t \in Seq(Leaves)
    OBVIOUS
  <2>2. /\ Len(s \o t) = Len(s) + Len(t) /\ s \o t \in Seq(Leaves)
        /\ \A i \in 1..(Len(s) + Len(t)) :
             (s \o t)[i] = IF i <= Len(s) THEN s[i] ELSE t[i - Len(s)]
    BY <2>1, ConcatProperties
  <2>3. DOMAIN (s \o t) = 1..(Len(s) + Len(t)) /\ DOMAIN s = 1..Len(s) /\ DOMAIN t = 1..Len(t)
        /\ Len(s) \in Nat /\ Len(t) \in Nat
    BY <2>1, <2>2
  <2>4. ASSUME Holds(s \o t, x) PROVE Holds(s, x) /\ Holds(t, x)
    <3>1. ASSUME NEW i \in 1..Len(s) PROVE Matches(s[i], x)
      <4>1. i \in 1..(Len(s) + Len(t)) /\ (s \o t)[i] = s[i]
        BY <2>2, <2>3
      <4> QED BY <4>1, <2>3, <2>4 DEF Holds
    <3>2. ASSUME NEW i \in 1..Len(t) PROVE Matches(t[i], x)
      <4>1. i + Len(s) \in 1..(Len(s) + Len(t)) /\ (s \o t)[i + Len(s)] = t[i]
        BY <2>2, <2>3
      <4> QED BY <4>1, <2>3, <2>4 DEF Holds
    <3> QED BY <3>1, <3>2, <2>3 DEF Holds
  <2>5. ASSUME Holds(s, x), Holds(t, x) PROVE Holds(s \o t, x)
    <3> SUFFICES ASSUME NEW i \in 1..(Len(s) + Len(t)) PROVE Matches((s \o t)[i], x)
      BY <2>3 DEF Holds
    <3>1. CASE i <= Len(s)
      BY <3>1, <2>2, <2>3, <2>5 DEF Holds
    <3>2. CASE i > Len(s)
      <4>1. i - Len(s) \in 1..Len(t) /\ (s \o t)[i] = t[i - Len(s)]
        BY <3>2, <2>2, <2>3
      <4> QED BY <4>1, <2>3, <2>5 DEF Holds
    <3> QED BY <3>1, <3>2, <2>3
  <2> QED BY <2>4, <2>5
<1>2. ASSUME NEW u \in Conjoined(S, T), Holds(u, x)
      PROVE  (\E s \in S : Holds(s, x)) /\ (\E t \in T : Holds(t, x))
  <2>1. PICK s \in S, t \in T : u = s \o t
    BY DEF Conjoined
  <2> QED BY <1>1, <1>2, <2>1
<1>3. ASSUME NEW s \in S, NEW t \in T, Holds(s, x), Holds(t, x)
      PROVE  \E u \in Conjoined(S, T) : Holds(u, x)
  <2>1. s \o t \in Conjoined(S, T)
    BY DEF Conjoined
  <2> QED BY <1>1, <1>3, <2>1
<1> QED BY <1>2, <1>3

\* On an element: the predicate, or its negation, is true of it if and only if
\* one of its terms holds.
Agrees(p, negated, x) ==
  Truth[<<p, x, fill>>] = Wanted(negated) <=> \E t \in dnf(p, negated) : Holds(t, x)

\* The normal form of each kind of predicate.
LEMMA TermsEquations ==
  ASSUME NEW p \in Predicates, NEW negated \in BOOLEAN
  PROVE  /\ p.node = "pred" => dnf(p, negated) = {<<Leaf(p, negated)>>}
         /\ p.node = "not"  => dnf(p, negated) = dnf(p.child, ~negated)
         /\ p.node = (IF negated THEN "or" ELSE "and") =>
              dnf(p, negated) = Conjoined(dnf(p.left, negated), dnf(p.right, negated))
         /\ p.node = (IF negated THEN "and" ELSE "or") =>
              dnf(p, negated) = dnf(p.left, negated) \cup dnf(p.right, negated)
<1> DEFINE leaf == {<<Leaf(p, negated)>>}
           inv  == dnf(p.child, ~negated)
           conj == Conjoined(dnf(p.left, negated), dnf(p.right, negated))
           disj == dnf(p.left, negated) \cup dnf(p.right, negated)
<1>1. Terms[<<p, negated>>] = TermsOf(Terms, <<p, negated>>)
  BY TermsDefined DEF Signed
<1>2. TermsOf(Terms, <<p, negated>>) =
        CASE p.node = "pred" -> leaf
          [] p.node = "not"  -> inv
          [] p.node = (IF negated THEN "or" ELSE "and") -> conj
          [] OTHER -> disj
  BY DEF TermsOf, dnf
<1>3. dnf(p, negated) = TermsOf(Terms, <<p, negated>>)
  BY <1>1 DEF dnf
<1> HIDE DEF leaf, inv, conj, disj
<1>4. CASE negated
  BY <1>2, <1>3, <1>4 DEF leaf, inv, conj, disj
<1>5. CASE ~negated
  BY <1>2, <1>3, <1>5 DEF leaf, inv, conj, disj
<1> QED BY <1>4, <1>5

\* The truth of each kind of predicate.
LEMMA TruthEquations ==
  ASSUME NEW p \in Predicates, NEW x \in Values, NEW f \in Fills
  PROVE  /\ p.node = "pred" => Truth[<<p, x, f>>] = LeafTruth(p, x, f)
         /\ p.node = "not"  => Truth[<<p, x, f>>] = NotTruth(Truth[<<p.child, x, f>>])
         /\ p.node = "and"  => Truth[<<p, x, f>>] =
                                 AndTruth(Truth[<<p.left, x, f>>], Truth[<<p.right, x, f>>])
         /\ p.node = "or"   => Truth[<<p, x, f>>] =
                                 OrTruth(Truth[<<p.left, x, f>>], Truth[<<p.right, x, f>>])
<1>1. Truth[<<p, x, f>>] = TruthOf(Truth, <<p, x, f>>)
  BY TruthDefined DEF Judged
<1> QED BY <1>1, TruthCases

\* A predicate agrees with its normal form if all less deep ones do.
LEMMA NormalFormStep ==
  ASSUME fill \in Fills, NEW x \in Values, NEW q \in Predicates, NEW n \in BOOLEAN,
         \A y \in Predicates, m \in BOOLEAN : Height[y] < Height[q] => Agrees(y, m, x)
  PROVE  Agrees(q, n, x)
<1>1. CASE q.node = "pred"
  <2>1. dnf(q, n) = {<<Leaf(q, n)>>}
    BY <1>1, TermsEquations
  <2>2. Truth[<<q, x, fill>>] = LeafTruth(q, x, fill)
    BY <1>1, TruthEquations
  <2>3. Matches(Leaf(q, n), x) <=> LeafTruth(q, x, fill) = Wanted(n)
    BY <1>1, LeafMatches
  <2>4. Holds(<<Leaf(q, n)>>, x) <=> Matches(Leaf(q, n), x)
    BY DEF Holds
  <2> QED BY <2>1, <2>2, <2>3, <2>4 DEF Agrees
<1>2. CASE q.node = "not"
  <2> DEFINE a == Truth[<<q.child, x, fill>>]
  <2>1. <<q.child, x, fill>> \in Judged /\ q.child \in Predicates /\ Height[q.child] < Height[q]
    BY <1>2, Forms, Parts
  <2>2. a = Wanted(~n) <=> \E t \in dnf(q.child, ~n) : Holds(t, x)
    BY <2>1 DEF Agrees
  <2>3. dnf(q, n) = dnf(q.child, ~n)
    BY <1>2, TermsEquations
  <2>4. Truth[<<q, x, fill>>] = NotTruth(a)
    BY <1>2, TruthEquations
  <2>5. a \in Truths
    BY <2>1, TruthDefined
  <2> HIDE DEF a
  <2>6. NotTruth(a) = Wanted(n) <=> a = Wanted(~n)
    <3>1. (NotTruth(a) = "true" <=> a = "false") /\ (NotTruth(a) = "false" <=> a = "true")
      BY <2>5, Kleene
    <3> QED BY <3>1 DEF Wanted
  <2> QED BY <2>2, <2>3, <2>4, <2>6 DEF Agrees
<1>3. CASE q.node \in {"and", "or"}
  <2> DEFINE a == Truth[<<q.left, x, fill>>]
             b == Truth[<<q.right, x, fill>>]
             S == dnf(q.left, n)
             T == dnf(q.right, n)
  <2>1. /\ <<q.left, n>> \in Signed /\ <<q.right, n>> \in Signed
        /\ <<q.left, x, fill>> \in Judged /\ <<q.right, x, fill>> \in Judged
        /\ q.left \in Predicates /\ q.right \in Predicates
        /\ Height[q.left] < Height[q] /\ Height[q.right] < Height[q]
    BY <1>3, Forms, Parts
  <2>2. /\ a = Wanted(n) <=> \E t \in S : Holds(t, x)
        /\ b = Wanted(n) <=> \E t \in T : Holds(t, x)
    BY <2>1 DEF Agrees
  <2>3. S \subseteq Seq(Leaves) /\ T \subseteq Seq(Leaves)
    BY <2>1, TermsDefined DEF dnf
  <2>4. a \in Truths /\ b \in Truths
    BY <2>1, TruthDefined
  <2>5. /\ q.node = "and" => Truth[<<q, x, fill>>] = AndTruth(a, b)
        /\ q.node = "or" => Truth[<<q, x, fill>>] = OrTruth(a, b)
    BY TruthEquations
  <2>6. /\ q.node = (IF n THEN "or" ELSE "and") => dnf(q, n) = Conjoined(S, T)
        /\ q.node = (IF n THEN "and" ELSE "or") => dnf(q, n) = S \cup T
    BY TermsEquations
  <2> HIDE DEF a, b, S, T
  <2>7. CASE q.node = (IF n THEN "or" ELSE "and")
    <3>1. (\E t \in dnf(q, n) : Holds(t, x)) <=> a = Wanted(n) /\ b = Wanted(n)
      BY <2>2, <2>3, <2>6, <2>7, ConjoinedHolds
    <3>2. Truth[<<q, x, fill>>] = Wanted(n) <=> a = Wanted(n) /\ b = Wanted(n)
      BY <2>4, <2>5, <2>7, Kleene DEF Wanted
    <3> QED BY <3>1, <3>2 DEF Agrees
  <2>8. CASE q.node = (IF n THEN "and" ELSE "or")
    <3>1. (\E t \in dnf(q, n) : Holds(t, x)) <=> a = Wanted(n) \/ b = Wanted(n)
      BY <2>2, <2>6, <2>8
    <3>2. Truth[<<q, x, fill>>] = Wanted(n) <=> a = Wanted(n) \/ b = Wanted(n)
      BY <2>4, <2>5, <2>8, Kleene DEF Wanted
    <3> QED BY <3>1, <3>2 DEF Agrees
  <2> QED BY <1>3, <2>7, <2>8
<1> QED BY <1>1, <1>2, <1>3, Forms

\* A predicate is true of an element, or its negation is, if and only if a term of
\* its disjunctive normal form holds: pushing NOT to the leaves and distributing AND
\* over OR (_to_dnf, query.py) loses no row to Kleene's unknown.
THEOREM NormalForm ==
  ASSUME fill \in Fills, NEW p \in Predicates, NEW negated \in BOOLEAN, NEW x \in Values
  PROVE  Agrees(p, negated, x)
<1> DEFINE P == {q \in Predicates : \A n \in BOOLEAN : Agrees(q, n, x)}
<1>1. \A q \in Predicates : (\A y \in Predicates : Height[y] < Height[q] => y \in P) => q \in P
  BY NormalFormStep
<1>2. Height \in [Predicates -> 0..MaxHeight] /\ MaxHeight \in Nat
  BY QueryAssumption
<1>3. Predicates \subseteq P
  <2> HIDE DEF P
  <2> QED BY <1>1, <1>2, MeasureInduction
<1> QED BY <1>3

-----------------------------------------------------------------------------
(* Leaves and steps.                                                       *)

\* What the state says to the lemmas about index kinds.
LEMMA SettingTypes ==
  ASSUME Setting
  PROVE  /\ nrows \in Nat /\ fill \in FillValue /\ fill \in Fills
         /\ \A r \in All : col[r] \in Values /\ col[r] \in Element
         /\ \A r \in 1..nrows : col[r] \in Element
         /\ where \in Predicates
         /\ Unread \notin SUBSET All
BY QueryAssumption DEF Setting, Element, FillValue, Signed, All

\* What a leaf of a normal form asks is well formed.
LEMMA LeafAsks ==
  ASSUME NEW leaf \in Leaves
  PROVE  Asks(leaf.op, leaf.v) /\ leaf.negated \in BOOLEAN
<1>1. PICK p \in Predicates, negated \in BOOLEAN : p.node = "pred" /\ leaf = Leaf(p, negated)
  BY DEF Leaves
<1>2. leaf.op = p.op /\ leaf.v = p.v /\ leaf.negated = negated
  BY <1>1 DEF Leaf
<1>3. Asks(p.op, p.v)
  BY <1>1, Forms
<1> QED BY <1>2, <1>3

\* The rows of a leaf.
RowsOf(leaf) == {r \in All : Matches(leaf, col[r])}

\* A value leaf that is not negated wants what an exact index answers.
LEMMA RowsOfExact ==
  ASSUME NEW leaf \in Leaves, ~leaf.negated, leaf.op \notin {"is_null", "is_valid"},
         NEW op, NEW v, \A r \in All : Compare(col[r], leaf.op, leaf.v) <=> Compare(col[r], op, v)
  PROVE  RowsOf(leaf) = Exact(col, nrows, fill, op, v)
<1>1. Asks(leaf.op, leaf.v) /\ leaf.negated = FALSE
  BY LeafAsks
<1>2. ASSUME NEW r \in All
      PROVE  Matches(leaf, col[r]) <=> ~is_missing(col[r], fill) /\ Compare(col[r], op, v)
  <2> DEFINE c == Compare(col[r], leaf.op, leaf.v)
  <2>1. c \in BOOLEAN
    BY <1>1, Comparable
  <2>2. Matches(leaf, col[r]) <=> ~is_missing(col[r], fill) /\ c # leaf.negated
    BY DEF Matches
  <2>3. c <=> Compare(col[r], op, v)
    OBVIOUS
  <2> HIDE DEF c
  <2> QED BY <1>1, <2>1, <2>2, <2>3
<1> QED BY <1>2 DEF RowsOf, Exact, All

\* SORTED_ROWS answers with the matching rows of the column.
LEMMA SortedAnswerRight ==
  ASSUME Setting, NEW op \in ScalarOps, NEW v \in Int
  PROVE  SortedAnswer(op, v) = Exact(col, nrows, fill, op, v)
BY SettingTypes, SortedExact DEF SortedAnswer

\* BITMAP, our own or another producer's, answers with them or not at all.
LEMMA BitmapAnswerRight ==
  ASSUME Setting, NEW vs, vs \subseteq Int
  PROVE  BitmapAnswer(vs) \in {Exact(col, nrows, fill, "in", vs), CannotSay}
<1> DEFINE content == IF health["bitmap"] = "partial"
                        THEN partial_bitmap(col, nrows, Enumerated)
                        ELSE compute_bitmap(col, nrows, fill)
<1>1. \/ content = compute_bitmap(col, nrows, fill)
      \/ \E values : content = partial_bitmap(col, nrows, values)
  OBVIOUS
<1>2. BitmapAnswer(vs) = bitmap_isin(content, vs, fill)
  BY DEF BitmapAnswer
<1> HIDE DEF content
<1> QED BY <1>1, <1>2, SettingTypes, BitmapExact

\* An index answers a leaf with its rows, or leaves it to the verification.
LEMMA ExactLeafRight ==
  ASSUME Setting, NEW leaf \in Leaves
  PROVE  exact_leaf(leaf) \in {Unread, RowsOf(leaf)}
<1> DEFINE labels == leaf.v \ {NoLabel}
           sorted == UNION {SortedAnswer("==", v) : v \in labels}
           bitmap == BitmapAnswer(IF leaf.op = "in" THEN labels ELSE {leaf.v})
<1>1. Asks(leaf.op, leaf.v)
  BY LeafAsks
<1>2. \A r \in All : col[r] # NoLabel
  BY SettingTypes, QueryAssumption DEF Element
<1>3. CASE leaf.negated \/ leaf.op \in {"is_null", "is_valid"}
  BY <1>3 DEF exact_leaf
<1>4. CASE ~leaf.negated /\ leaf.op = "in"
  <2>1. labels \subseteq Int
    BY <1>1, <1>4 DEF Asks, OrderOps
  <2>2. RowsOf(leaf) = Exact(col, nrows, fill, "in", labels)
    <3>1. \A r \in All : Compare(col[r], leaf.op, leaf.v) <=> Compare(col[r], "in", labels)
      BY <1>2, <1>4 DEF Compare
    <3> HIDE DEF labels
    <3> QED BY <1>4, <3>1, RowsOfExact
  <2>3. bitmap \in {RowsOf(leaf), CannotSay}
    <3> HIDE DEF labels
    <3> QED BY <1>4, <2>1, <2>2, BitmapAnswerRight
  <2>4. sorted = RowsOf(leaf)
    <3>1. \A v \in labels : SortedAnswer("==", v) =
                              {r \in All : ~is_missing(col[r], fill) /\ col[r] = v}
      <4> SUFFICES ASSUME NEW v \in labels
                   PROVE  SortedAnswer("==", v) =
                            {r \in All : ~is_missing(col[r], fill) /\ col[r] = v}
        OBVIOUS
      <4>1. SortedAnswer("==", v) = Exact(col, nrows, fill, "==", v)
        BY <2>1, SortedAnswerRight DEF ScalarOps
      <4> QED BY <4>1 DEF Exact, Compare, All
    <3>2. RowsOf(leaf) = {r \in All : ~is_missing(col[r], fill) /\ col[r] \in labels}
      BY <2>2 DEF Exact, Compare, All
    <3> HIDE DEF labels
    <3>3. ASSUME NEW r \in sorted PROVE r \in RowsOf(leaf)
      <4>1. PICK v \in labels : r \in SortedAnswer("==", v)
        OBVIOUS
      <4> QED BY <4>1, <3>1, <3>2
    <3>4. ASSUME NEW r \in RowsOf(leaf) PROVE r \in sorted
      <4>1. col[r] \in labels /\ r \in SortedAnswer("==", col[r])
        BY <3>1, <3>2
      <4> QED BY <4>1
    <3> HIDE DEF sorted
    <3> QED BY <3>3, <3>4
  <2>5. labels = {} => RowsOf(leaf) = {}
    BY <2>2 DEF Exact, Compare
  <2> HIDE DEF labels, sorted, bitmap
  <2>6. \/ exact_leaf(leaf) = Unread
        \/ labels = {} /\ exact_leaf(leaf) = {}
        \/ bitmap # CannotSay /\ exact_leaf(leaf) = bitmap
        \/ exact_leaf(leaf) = sorted
    BY <1>4 DEF exact_leaf, labels, sorted, bitmap
  <2> QED BY <2>3, <2>4, <2>5, <2>6
<1>5. CASE ~leaf.negated /\ leaf.op \in ScalarOps /\ leaf.v = NoLabel
  <2>1. leaf.op = "=="
    BY <1>1, <1>5, QueryAssumption DEF Asks, ScalarOps, OrderOps
  <2>2. Exact(col, nrows, fill, "==", NoLabel) = {}
    BY <1>2 DEF Exact, Compare, All
  <2>3. RowsOf(leaf) = Exact(col, nrows, fill, "==", NoLabel)
    BY <1>5, <2>1, RowsOfExact
  <2>4. exact_leaf(leaf) = {}
    BY <1>5, <2>1 DEF exact_leaf
  <2> QED BY <2>2, <2>3, <2>4
<1>6. CASE ~leaf.negated /\ leaf.op \in ScalarOps /\ leaf.v # NoLabel
  <2> DEFINE inorder == SortedAnswer(leaf.op, leaf.v)
             counted == BitmapAnswer({leaf.v})
  <2>1. leaf.op \notin {"is_null", "is_valid", "in"} /\ leaf.v \in Int
    BY <1>1, <1>6 DEF Asks, ScalarOps, OrderOps
  <2>2. inorder = RowsOf(leaf)
    <3>1. RowsOf(leaf) = Exact(col, nrows, fill, leaf.op, leaf.v)
      BY <1>6, <2>1, RowsOfExact
    <3> QED BY <1>6, <2>1, <3>1, SortedAnswerRight
  <2>3. leaf.op = "==" => counted \in {RowsOf(leaf), CannotSay}
    <3> SUFFICES ASSUME leaf.op = "==" PROVE counted \in {RowsOf(leaf), CannotSay}
      OBVIOUS
    <3>1. \A r \in All : Compare(col[r], leaf.op, leaf.v) <=> Compare(col[r], "in", {leaf.v})
      BY DEF Compare
    <3>2. RowsOf(leaf) = Exact(col, nrows, fill, "in", {leaf.v})
      BY <1>6, <2>1, <3>1, RowsOfExact
    <3>3. counted \in {Exact(col, nrows, fill, "in", {leaf.v}), CannotSay}
      BY <2>1, BitmapAnswerRight
    <3> QED BY <3>2, <3>3
  <2> HIDE DEF inorder, counted
  <2>4. \/ exact_leaf(leaf) = Unread
        \/ exact_leaf(leaf) = inorder
        \/ leaf.op = "==" /\ counted # CannotSay /\ exact_leaf(leaf) = counted
    BY <1>6, <2>1 DEF exact_leaf, inorder, counted
  <2> QED BY <2>2, <2>3, <2>4
<1> QED BY <1>1, <1>3, <1>4, <1>5, <1>6 DEF Asks, ScalarOps

\* What a leaf is read for contains its rows among those still there, so reading
\* leaves exactly these.
LEMMA VerifyLeafRight ==
  ASSUME Setting, NEW leaf \in Leaves, rows = Unread \/ rows \subseteq All
  PROVE  verify_leaf(leaf) = {r \in Now : Matches(leaf, col[r])}
<1>1. CASE rows # Unread
  BY <1>1 DEF verify_leaf, Candidates, Now
<1>2. CASE rows = Unread
  <2> DEFINE pruned == chunks_to_rows(prune(compute_chunk_minmax(col, nrows, fill),
                                            leaf.op, leaf.v, fill), nrows)
             seeded == /\ ~leaf.negated /\ leaf.op \in OrderOps \cup {"=="} /\ leaf.v # NoLabel
                       /\ Works("minmax")
  <2>1. Candidates(leaf) = IF seeded THEN pruned ELSE All
    BY <1>2 DEF Candidates
  <2>2. ASSUME seeded PROVE RowsOf(leaf) \subseteq pruned /\ pruned \subseteq All
    <3>1. leaf.op \in ScalarOps /\ leaf.op \notin {"is_null", "is_valid"} /\ leaf.v \in Int
      BY <2>2, LeafAsks DEF Asks, ScalarOps, OrderOps
    <3>2. RowsOf(leaf) = Exact(col, nrows, fill, leaf.op, leaf.v)
      BY <2>2, <3>1, RowsOfExact
    <3>3. Exact(col, nrows, fill, leaf.op, leaf.v) \subseteq pruned
      BY <3>1, SettingTypes, PruneKeepsMatches
    <3>4. pruned \subseteq All
      BY DEF chunks_to_rows, ChunkRows, All
    <3> QED BY <3>2, <3>3, <3>4
  <2>3. verify_leaf(leaf) = {r \in Candidates(leaf) : Matches(leaf, col[r])} /\ Now = All
    BY <1>2 DEF verify_leaf, Now
  <2> HIDE DEF pruned, seeded
  <2> QED BY <2>1, <2>2, <2>3 DEF RowsOf
<1> QED BY <1>1, <1>2

\* A term is read from its head, and grows at its end.
LEMMA HoldsParts ==
  ASSUME NEW x, NEW q \in Seq(Leaves)
  PROVE  /\ Holds(<<>>, x)
         /\ q # <<>> => /\ Head(q) \in Leaves /\ Tail(q) \in Seq(Leaves)
                        /\ Holds(q, x) <=> Matches(Head(q), x) /\ Holds(Tail(q), x)
         /\ \A leaf \in Leaves : /\ Append(q, leaf) \in Seq(Leaves)
                                 /\ Holds(Append(q, leaf), x) <=> Holds(q, x) /\ Matches(leaf, x)
<1>1. Holds(<<>>, x)
  BY DEF Holds
<1>2. ASSUME q # <<>>
      PROVE  /\ Head(q) \in Leaves /\ Tail(q) \in Seq(Leaves)
             /\ Holds(q, x) <=> Matches(Head(q), x) /\ Holds(Tail(q), x)
  <2>1. /\ Head(q) = q[1] /\ Head(q) \in Leaves /\ Tail(q) \in Seq(Leaves)
        /\ Len(q) \in Nat \ {0} /\ DOMAIN q = 1..Len(q)
        /\ DOMAIN Tail(q) = 1..(Len(q) - 1) /\ \A i \in 1..(Len(q) - 1) : Tail(q)[i] = q[i + 1]
    BY <1>2, HeadTailProperties
  <2>2. ASSUME Holds(q, x) PROVE Matches(Head(q), x) /\ Holds(Tail(q), x)
    <3>1. \A i \in 1..(Len(q) - 1) : i + 1 \in 1..Len(q)
      BY <2>1
    <3> QED BY <2>1, <2>2, <3>1 DEF Holds
  <2>3. ASSUME Matches(Head(q), x), Holds(Tail(q), x) PROVE Holds(q, x)
    <3> SUFFICES ASSUME NEW i \in 1..Len(q) PROVE Matches(q[i], x)
      BY <2>1 DEF Holds
    <3>1. i = 1 \/ (i - 1 \in 1..(Len(q) - 1) /\ q[i] = Tail(q)[i - 1])
      BY <2>1
    <3> QED BY <3>1, <2>1, <2>3 DEF Holds
  <2> QED BY <2>1, <2>2, <2>3
<1>3. ASSUME NEW leaf \in Leaves
      PROVE  /\ Append(q, leaf) \in Seq(Leaves)
             /\ Holds(Append(q, leaf), x) <=> Holds(q, x) /\ Matches(leaf, x)
  <2>1. /\ Append(q, leaf) \in Seq(Leaves) /\ Len(q) \in Nat
        /\ DOMAIN q = 1..Len(q) /\ DOMAIN Append(q, leaf) = 1..(Len(q) + 1)
        /\ \A i \in 1..Len(q) : Append(q, leaf)[i] = q[i]
        /\ Append(q, leaf)[Len(q) + 1] = leaf
    BY AppendProperties
  <2>2. \A i \in 1..(Len(q) + 1) : i \in 1..Len(q) \/ i = Len(q) + 1
    BY <2>1
  <2>3. \A i \in 1..Len(q) : i \in 1..(Len(q) + 1)
    BY <2>1
  <2>4. Len(q) + 1 \in 1..(Len(q) + 1)
    BY <2>1
  <2> QED BY <2>1, <2>2, <2>3, <2>4 DEF Holds
<1> QED BY <1>1, <1>2, <1>3

\* Pending, of a state yet to be reached.
PendingAt(step, survived, tried, put, r) ==
  /\ step \in {"exact", "verify", "union"} /\ r \in survived
  /\ step \in {"exact", "verify"} => Holds(tried, col[r])
  /\ step = "exact" => Holds(put, col[r])

\* A row that is true is kept by a step.
KeptAt(step, survived, tried, put, left, found, r) ==
  r \in found \/ PendingAt(step, survived, tried, put, r) \/ \E t \in left : Holds(t, col[r])

\* The invariant, row by row.
LEMMA KeptNow ==
  ASSUME QueryInv, pc # "idle", NEW r \in All
  PROVE  Truth[<<where, col[r], fill>>] = "true" <=>
           KeptAt(pc, Now, todo, verify, terms, result, r)
BY DEF QueryInv, Kept, KeptAt, Pending, PendingAt

\* The next state keeps a row for the same reasons, as the column stays.
LEMMA KeptNext ==
  ASSUME UNCHANGED table, pc' # "idle",
         \A r \in All : Truth[<<where, col[r], fill>>] = "true" <=>
                          KeptAt(pc', Now', todo', verify', terms', result', r)
  PROVE  Kept'
BY DEF table, Kept, KeptAt, Pending, PendingAt, Holds, Matches, All, Now

\* A step that leaves the table alone leaves the setting.
LEMMA SettingNext ==
  ASSUME Setting, UNCHANGED table
  PROVE  Setting'
BY DEF Setting, table, All

\* The invariant holds of every query about to run.
LEMMA QueryInit == Init => QueryInv
<1> SUFFICES ASSUME Init PROVE QueryInv
  OBVIOUS
<1>1. PICK case \in Cases :
        where = case.where /\ nrows \in case.rows /\ col \in [1..case.extent -> Values]
  BY DEF Init
<1>2. case.extent \in Nat /\ nrows \in 0..case.extent /\ where \in Predicates
      /\ \A S \in SUBSET (1..case.extent) : S # Unread
  BY <1>1, QueryAssumption
<1>3. All \subseteq 1..case.extent
  BY <1>2 DEF All
<1>4. Setting
  <2>1. \A r \in All : col[r] \in Values
    BY <1>1, <1>3
  <2>2. nrows \in Nat
    BY <1>2
  <2>3. <<where, FALSE>> \in Signed
    BY <1>2 DEF Signed
  <2>4. \A S \in SUBSET All : S # Unread
    BY <1>2, <1>3
  <2> QED BY <2>1, <2>2, <2>3, <2>4 DEF Setting, Init
<1>5. Shape /\ Kept
  BY DEF Init, Shape, Kept
<1> QED BY <1>4, <1>5 DEF QueryInv

\* Normalisation keeps the invariant: by NormalForm the terms hold where the
\* predicate is true.
LEMMA RunStep == QueryInv /\ Run => QueryInv'
<1> SUFFICES ASSUME QueryInv, Run PROVE QueryInv'
  OBVIOUS
<1>1. Setting /\ Shape /\ UNCHANGED table
  BY DEF QueryInv, Run, table
<1>2. dnf(where, FALSE) \subseteq Seq(Leaves)
  <2>1. <<where, FALSE>> \in Signed
    BY <1>1 DEF Setting
  <2> QED BY <2>1, TermsDefined DEF dnf
<1>3. Shape'
  BY <1>1, <1>2 DEF Run, Shape, table, All
<1>4. ASSUME NEW r \in All
      PROVE  Truth[<<where, col[r], fill>>] = "true" <=>
               KeptAt(pc', Now', todo', verify', terms', result', r)
  <2>1. fill \in Fills /\ where \in Predicates /\ col[r] \in Values
    BY <1>1, SettingTypes
  <2>2. Agrees(where, FALSE, col[r])
    BY <2>1, NormalForm
  <2>3. pc' = "term" /\ terms' = dnf(where, FALSE) /\ result' = {}
    BY <1>1 DEF Run, Shape
  <2> QED BY <2>2, <2>3 DEF Agrees, Wanted, KeptAt, PendingAt
<1>5. pc' # "idle"
  BY DEF Run
<1> QED BY <1>1, <1>3, <1>4, <1>5, SettingNext, KeptNext DEF QueryInv

\* A term taken up is pending on every row.
LEMMA BeginTermStep == QueryInv /\ BeginTerm => QueryInv'
<1> SUFFICES ASSUME QueryInv, BeginTerm PROVE QueryInv'
  OBVIOUS
<1>1. Setting /\ Shape /\ UNCHANGED table /\ UNCHANGED result /\ pc = "term" /\ pc' = "exact"
      /\ verify' = <<>> /\ rows' = Unread
  BY DEF QueryInv, BeginTerm, table
<1>2. todo' \in terms /\ terms' = terms \ {todo'}
  BY DEF BeginTerm
<1>3. Shape'
  BY <1>1, <1>2 DEF Shape, table, All
<1>4. ASSUME NEW r \in All
      PROVE  Truth[<<where, col[r], fill>>] = "true" <=>
               KeptAt(pc', Now', todo', verify', terms', result', r)
  <2>1. Now' = All
    BY <1>1 DEF Now, All, table
  <2>2. Holds(<<>>, col[r])
    BY DEF Holds
  <2>3. KeptAt(pc, Now, todo, verify, terms, result, r) <=>
          KeptAt(pc', Now', todo', verify', terms', result', r)
    BY <1>1, <1>2, <2>1, <2>2 DEF KeptAt, PendingAt
  <2> QED BY <2>3, <1>1, KeptNow
<1> QED BY <1>1, <1>3, <1>4, SettingNext, KeptNext DEF QueryInv

\* An exact answer intersects, a leaf without one is put off: neither drops a row
\* the term holds on, and an early end drops none that is left.
LEMMA ExactLeafStep == QueryInv /\ ExactLeaf => QueryInv'
<1> SUFFICES ASSUME QueryInv, ExactLeaf PROVE QueryInv'
  OBVIOUS
<1> DEFINE leaf   == Head(todo)
           answer == exact_leaf(leaf)
<1>1. /\ Setting /\ Shape /\ UNCHANGED table /\ UNCHANGED <<terms, result>>
      /\ pc = "exact" /\ todo # <<>> /\ todo' = Tail(todo)
      /\ rows' = IF answer = Unread THEN rows
                 ELSE IF rows = Unread THEN answer ELSE rows \intersect answer
      /\ verify' = IF answer = Unread THEN Append(verify, leaf) ELSE verify
      /\ pc' = IF rows' = {} THEN "union" ELSE "exact"
  BY DEF QueryInv, ExactLeaf, table
<1>2. todo \in Seq(Leaves) /\ verify \in Seq(Leaves) /\ leaf \in Leaves /\ todo' \in Seq(Leaves)
  BY <1>1, HoldsParts DEF Shape
<1>3. answer \in {Unread, RowsOf(leaf)}
  BY <1>1, <1>2, ExactLeafRight
<1>4. Unread \notin SUBSET All /\ RowsOf(leaf) \subseteq All
  BY <1>1, SettingTypes DEF RowsOf
<1>5. verify' \in Seq(Leaves)
  BY <1>1, <1>2, HoldsParts
<1> HIDE DEF leaf, answer
<1>6. rows = Unread \/ rows \subseteq All
  BY <1>1 DEF Shape
<1>7. rows' = Unread \/ rows' \subseteq All
  BY <1>1, <1>3, <1>4, <1>6
<1>8. Shape'
  BY <1>1, <1>2, <1>5, <1>7 DEF Shape, table, All
<1>9. ASSUME NEW r \in All
      PROVE  Truth[<<where, col[r], fill>>] = "true" <=>
               KeptAt(pc', Now', todo', verify', terms', result', r)
  <2>1. /\ Holds(todo, col[r]) <=> Matches(leaf, col[r]) /\ Holds(todo', col[r])
        /\ Holds(Append(verify, leaf), col[r]) <=> Holds(verify, col[r]) /\ Matches(leaf, col[r])
    BY <1>1, <1>2, HoldsParts DEF leaf
  <2>2. Now' = IF rows' = Unread THEN All ELSE rows'
    BY <1>1 DEF Now, All, table
  <2>3. CASE answer = Unread
    <3>1. Now' = Now
      BY <1>1, <2>2, <2>3 DEF Now
    <3>2. pc' = "exact" \/ Now = {}
      BY <1>1, <1>4, <2>3 DEF Now
    <3> QED BY <1>1, <2>1, <2>3, <3>1, <3>2, KeptNow DEF KeptAt, PendingAt
  <2>4. CASE answer = RowsOf(leaf) /\ answer # Unread
    <3>1. Now' = {q \in Now : Matches(leaf, col[q])}
      BY <1>1, <1>4, <1>6, <2>2, <2>4 DEF Now, RowsOf
    <3>2. pc' = "exact" \/ Now' = {}
      BY <1>1, <1>4, <2>2
    <3> QED BY <1>1, <2>1, <2>4, <3>1, <3>2, KeptNow DEF KeptAt, PendingAt
  <2> QED BY <1>3, <2>3, <2>4
<1>10. pc' # "idle"
  BY <1>1
<1> QED BY <1>1, <1>8, <1>9, <1>10, SettingNext, KeptNext DEF QueryInv

\* The leaves put off are the ones still to verify.
LEMMA EndExactStep == QueryInv /\ EndExact => QueryInv'
<1> SUFFICES ASSUME QueryInv, EndExact PROVE QueryInv'
  OBVIOUS
<1>1. /\ Setting /\ Shape /\ UNCHANGED table /\ UNCHANGED <<terms, rows, result>>
      /\ pc = "exact" /\ pc' = "verify" /\ todo = <<>> /\ todo' = verify /\ verify' = <<>>
  BY DEF QueryInv, EndExact, table
<1>2. Shape'
  BY <1>1 DEF Shape, table, All
<1>3. ASSUME NEW r \in All
      PROVE  Truth[<<where, col[r], fill>>] = "true" <=>
               KeptAt(pc', Now', todo', verify', terms', result', r)
  <2>1. Now' = Now
    BY <1>1 DEF Now, All, table
  <2>2. Holds(<<>>, col[r])
    BY DEF Holds
  <2> QED BY <1>1, <2>1, <2>2, KeptNow DEF KeptAt, PendingAt
<1> QED BY <1>1, <1>2, <1>3, SettingNext, KeptNext DEF QueryInv

\* Reading values leaves exactly the rows the leaf matches.
LEMMA VerifyLeafStep == QueryInv /\ VerifyLeaf => QueryInv'
<1> SUFFICES ASSUME QueryInv, VerifyLeaf PROVE QueryInv'
  OBVIOUS
<1> DEFINE leaf == Head(todo)
<1>1. /\ Setting /\ Shape /\ UNCHANGED table /\ UNCHANGED <<terms, verify, result>>
      /\ pc = "verify" /\ todo # <<>> /\ todo' = Tail(todo) /\ rows' = verify_leaf(leaf)
      /\ pc' = IF rows' = {} THEN "union" ELSE "verify"
  BY DEF QueryInv, VerifyLeaf, table
<1>2. todo \in Seq(Leaves) /\ leaf \in Leaves /\ todo' \in Seq(Leaves)
  BY <1>1, HoldsParts DEF Shape
<1>3. rows' = {q \in Now : Matches(leaf, col[q])} /\ Now \subseteq All
  BY <1>1, <1>2, VerifyLeafRight DEF Shape, Now
<1>4. rows' # Unread /\ rows' \subseteq All
  BY <1>1, <1>3, SettingTypes
<1> HIDE DEF leaf
<1>5. Shape'
  BY <1>1, <1>2, <1>4 DEF Shape, table, All
<1>6. ASSUME NEW r \in All
      PROVE  Truth[<<where, col[r], fill>>] = "true" <=>
               KeptAt(pc', Now', todo', verify', terms', result', r)
  <2>1. Holds(todo, col[r]) <=> Matches(leaf, col[r]) /\ Holds(todo', col[r])
    BY <1>1, <1>2, HoldsParts DEF leaf
  <2>2. Now' = rows'
    BY <1>4 DEF Now
  <2> QED BY <1>1, <1>3, <2>1, <2>2, KeptNow DEF KeptAt, PendingAt
<1>7. pc' # "idle"
  BY <1>1
<1> QED BY <1>1, <1>5, <1>6, <1>7, SettingNext, KeptNext DEF QueryInv

\* With no leaf left, the surviving rows are the term's.
LEMMA EndVerifyStep == QueryInv /\ EndVerify => QueryInv'
<1> SUFFICES ASSUME QueryInv, EndVerify PROVE QueryInv'
  OBVIOUS
<1>1. /\ Setting /\ Shape /\ UNCHANGED table /\ UNCHANGED <<terms, todo, verify, rows, result>>
      /\ pc = "verify" /\ pc' = "union" /\ todo = <<>>
  BY DEF QueryInv, EndVerify, table
<1>2. Shape'
  BY <1>1 DEF Shape, table, All
<1>3. ASSUME NEW r \in All
      PROVE  Truth[<<where, col[r], fill>>] = "true" <=>
               KeptAt(pc', Now', todo', verify', terms', result', r)
  <2>1. Now' = Now
    BY <1>1 DEF Now, All, table
  <2>2. Holds(<<>>, col[r])
    BY DEF Holds
  <2> QED BY <1>1, <2>1, <2>2, KeptNow DEF KeptAt, PendingAt
<1> QED BY <1>1, <1>2, <1>3, SettingNext, KeptNext DEF QueryInv

\* The rows of the term join the result.
LEMMA Union1dStep == QueryInv /\ Union1d => QueryInv'
<1> SUFFICES ASSUME QueryInv, Union1d PROVE QueryInv'
  OBVIOUS
<1>1. /\ Setting /\ Shape /\ UNCHANGED table /\ UNCHANGED <<terms, todo, verify, rows>>
      /\ pc = "union" /\ pc' = "term" /\ result' = result \cup Now
  BY DEF QueryInv, Union1d, Now, table
<1>2. Now \subseteq All
  BY <1>1 DEF Shape, Now
<1>3. Shape'
  BY <1>1, <1>2 DEF Shape, table, All
<1>4. ASSUME NEW r \in All
      PROVE  Truth[<<where, col[r], fill>>] = "true" <=>
               KeptAt(pc', Now', todo', verify', terms', result', r)
  BY <1>1, KeptNow DEF KeptAt, PendingAt
<1> QED BY <1>1, <1>3, <1>4, SettingNext, KeptNext DEF QueryInv

\* With no term left, nothing is pending.
LEMMA AnswerStep == QueryInv /\ Answer => QueryInv'
<1> SUFFICES ASSUME QueryInv, Answer PROVE QueryInv'
  OBVIOUS
<1>1. /\ Setting /\ Shape /\ UNCHANGED table /\ UNCHANGED <<terms, todo, verify, rows, result>>
      /\ pc = "term" /\ pc' = "done" /\ terms = {}
  BY DEF QueryInv, Answer, table
<1>2. Shape'
  BY <1>1 DEF Shape, table, All
<1>3. ASSUME NEW r \in All
      PROVE  Truth[<<where, col[r], fill>>] = "true" <=>
               KeptAt(pc', Now', todo', verify', terms', result', r)
  BY <1>1, KeptNow DEF KeptAt, PendingAt
<1> QED BY <1>1, <1>2, <1>3, SettingNext, KeptNext DEF QueryInv

\* A stuttering step keeps the invariant.
LEMMA QueryStutter == QueryInv /\ UNCHANGED vars => QueryInv'
<1> SUFFICES ASSUME QueryInv, UNCHANGED vars PROVE QueryInv'
  OBVIOUS
<1>1. /\ Setting /\ Shape /\ UNCHANGED table
      /\ UNCHANGED <<terms, todo, verify, rows, result, pc>>
  BY DEF QueryInv, vars, table
<1>2. Shape'
  BY <1>1 DEF Shape, table, All
<1>3. Kept'
  <2>1. CASE pc = "idle"
    BY <1>1, <2>1 DEF Kept
  <2>2. CASE pc # "idle"
    <3>1. Now' = Now
      BY <1>1 DEF Now, All, table
    <3> QED BY <1>1, <2>2, <3>1, KeptNow, KeptNext
  <2> QED BY <2>1, <2>2
<1> QED BY <1>1, <1>2, <1>3, SettingNext DEF QueryInv

\* In every reachable state of a query, the rows the predicate is true of are the
\* ones found, on their way, or in a term left (Table.select, _term_rows).
THEOREM EvaluationKeepsRows == Spec => []QueryInv
<1>1. QueryInv /\ [Next]_vars => QueryInv'
  BY RunStep, BeginTermStep, ExactLeafStep, EndExactStep, VerifyLeafStep, EndVerifyStep,
     Union1dStep, AnswerStep, QueryStutter DEF Next, Done
<1> QED BY <1>1, QueryInit, PTL DEF Spec

\* Table.select answers a query with exactly the committed rows its predicate is
\* true of, whatever indexes there are and in whatever state.
THEOREM SelectAnswers == Spec => []AnswersTheQuestion
<1>1. QueryInv => AnswersTheQuestion
  <2> SUFFICES ASSUME QueryInv, pc = "done"
               PROVE  result = {r \in All : Truth[<<where, col[r], fill>>] = "true"}
    BY DEF AnswersTheQuestion
  <2>1. terms = {} /\ result \subseteq All
    BY DEF QueryInv, Shape
  <2>2. \A r \in All : Truth[<<where, col[r], fill>>] = "true" <=> r \in result
    BY <2>1, KeptNow DEF KeptAt, PendingAt
  <2> QED BY <2>1, <2>2
<1> QED BY <1>1, EvaluationKeepsRows, PTL

\* Every index kind, built from the column, prunes no chunk with a match, finds
\* exactly the matches, or says that it cannot (indexes.py, searchindex.py).
THEOREM KindsAnswer == Spec => []IndexesAnswer
<1>1. QueryInv => IndexesAnswer
  <2> SUFFICES ASSUME QueryInv PROVE IndexesAnswer
    OBVIOUS
  <2> DEFINE numbers == Values \ {NaN}
             entries == compute_chunk_minmax(col, nrows, fill)
             content == compute_sorted_rows(col, nrows, fill)
             exact(op, v) == {r \in All : ~is_missing(col[r], fill) /\ Compare(col[r], op, v)}
             Ask(op, v) ==
               /\ exact(op, v) \subseteq chunks_to_rows(prune(entries, op, v, fill), nrows)
               /\ sorted_rows(col, nrows, content, op, v) = exact(op, v)
  <2>1. Setting /\ numbers \subseteq Int
    BY QueryAssumption DEF QueryInv
  <2>2. \A op, v : exact(op, v) = Exact(col, nrows, fill, op, v)
    BY DEF Exact, All
  <2> HIDE DEF numbers
  <2>3. ASSUME NEW op, NEW v,
               \/ op \in ScalarOps /\ v \in Int
               \/ op = "between" /\ v \in Int \X Int
        PROVE  Ask(op, v)
    <3>1. Exact(col, nrows, fill, op, v)
            \subseteq chunks_to_rows(prune(entries, op, v, fill), nrows)
      BY <2>1, <2>3, SettingTypes, PruneKeepsMatches
    <3>2. sorted_rows(col, nrows, content, op, v) = Exact(col, nrows, fill, op, v)
      BY <2>1, <2>3, SettingTypes, SortedExact
    <3> HIDE DEF exact, entries, content
    <3> QED BY <3>1, <3>2, <2>2
  <2>4. \A op \in OrderOps \cup {"=="}, v \in numbers : Ask(op, v)
    <3> HIDE DEF Ask
    <3> QED BY <2>1, <2>3 DEF ScalarOps
  <2>5. \A v \in numbers \X numbers : Ask("between", v)
    <3>1. \A v \in numbers \X numbers : v \in Int \X Int
      BY <2>1
    <3> HIDE DEF Ask
    <3> QED BY <3>1, <2>3
  <2>6. \A vs \in SUBSET numbers : BitmapAnswer(vs) \in {exact("in", vs), CannotSay}
    <3> SUFFICES ASSUME NEW vs \in SUBSET numbers
                 PROVE  BitmapAnswer(vs) \in {exact("in", vs), CannotSay}
      OBVIOUS
    <3>1. BitmapAnswer(vs) \in {Exact(col, nrows, fill, "in", vs), CannotSay}
      BY <2>1, BitmapAnswerRight
    <3>2. exact("in", vs) = Exact(col, nrows, fill, "in", vs)
      BY <2>2
    <3> HIDE DEF exact
    <3> QED BY <3>1, <3>2
  <2> QED BY <2>4, <2>5, <2>6 DEF IndexesAnswer, numbers
<1> QED BY <1>1, EvaluationKeepsRows, PTL
=============================================================================
