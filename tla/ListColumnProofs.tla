-------------------------- MODULE ListColumnProofs --------------------------
(***************************************************************************)
(* Proofs about ListColumn: the committed rows stay described at every     *)
(* level between any two writes (ListInv), so that they validate, read     *)
(* slice by slice and export; and the column implements AbstractTable.     *)
(* Every recursive function is taken from its CHOOSE to its equations by   *)
(* induction over the levels, the rows or a prefix.                        *)
(***************************************************************************)
EXTENDS ListColumnInvariant, NaturalsInduction, SequenceTheorems, WellFoundedInduction, TLAPS
-----------------------------------------------------------------------------
(* Induction, on sets.                                                     *)

\* A set of numbers that is not empty has a least element.
LEMMA LeastNat ==
  ASSUME NEW T, T \subseteq Nat, T # {}
  PROVE  \E x \in T : \A y \in T : x <= y
<1>1. IsWellFoundedOn(OpToRel(<, Nat), Nat)
  BY NatLessThanWellFounded, Zenon
<1>2. PICK x \in T : \A y \in T : ~(<<y, x>> \in OpToRel(<, Nat))
  BY <1>1, WFMin, Zenon
<1>3. \A y \in T : ~(y < x)
  BY <1>2 DEF OpToRel
<1> QED BY <1>3

\* Induction over the numbers.
LEMMA NatSetInduction ==
  ASSUME NEW S, 0 \in S, \A n \in Nat : n \in S => n + 1 \in S
  PROVE  Nat \subseteq S
<1> SUFFICES ASSUME Nat \ S # {} PROVE FALSE
  OBVIOUS
<1>1. PICK x \in Nat \ S : \A y \in Nat \ S : x <= y
  BY LeastNat
<1> QED BY <1>1

\* Induction over the levels, from the rows down.
LEMMA LevelsDown ==
  ASSUME NEW P, 1 \in P, \A l \in Level : l \in P => l + 1 \in P
  PROVE  1..Leaf \subseteq P
<1> DEFINE N == {k \in Nat : k < Leaf => k + 1 \in P}
<1>1. \A k \in Nat : k \in N => k + 1 \in N
  <2> SUFFICES ASSUME NEW k \in Nat, k \in N, k + 1 < Leaf PROVE (k + 1) + 1 \in P
    BY ListAssumption DEF Leaf
  <2>1. k + 1 \in Level /\ k + 1 \in P
    BY ListAssumption DEF Leaf, Level
  <2> QED BY <2>1
<1>2. Nat \subseteq N
  <2>1. 0 \in N
    OBVIOUS
  <2> HIDE DEF N
  <2> QED BY <1>1, <2>1, NatSetInduction
<1>3. ASSUME NEW l \in 1..Leaf PROVE l \in P
  <2>1. l - 1 \in Nat /\ l - 1 < Leaf
    BY ListAssumption DEF Leaf
  <2> QED BY <1>2, <2>1
<1> QED BY <1>3

\* And from the leaf up.
LEMMA LevelsUp ==
  ASSUME NEW P, Leaf \in P, \A l \in Level : l + 1 \in P => l \in P
  PROVE  1..Leaf \subseteq P
<1> DEFINE N == {k \in Nat : k < Leaf => Leaf - k \in P}
<1>1. \A k \in Nat : k \in N => k + 1 \in N
  <2> SUFFICES ASSUME NEW k \in Nat, k \in N, k + 1 < Leaf PROVE Leaf - (k + 1) \in P
    BY ListAssumption DEF Leaf
  <2>1. Leaf - (k + 1) \in Level /\ (Leaf - (k + 1)) + 1 = Leaf - k /\ Leaf - k \in P
    BY ListAssumption DEF Leaf, Level
  <2> QED BY <2>1
<1>2. Nat \subseteq N
  <2>1. 0 \in N
    BY ListAssumption DEF Leaf
  <2> HIDE DEF N
  <2> QED BY <1>1, <2>1, NatSetInduction
<1>3. ASSUME NEW l \in 1..Leaf PROVE l \in P
  <2>1. Leaf - l \in Nat /\ Leaf - l < Leaf /\ Leaf - (Leaf - l) = l
    BY ListAssumption DEF Leaf
  <2> QED BY <1>2, <2>1
<1> QED BY <1>3

\* What never decreases from one place to the next never decreases.
LEMMA Ascent ==
  ASSUME NEW s, NEW n \in Nat,
         \A i \in 1..(n + 1) : s[i] \in Int, \A i \in 1..n : s[i] <= s[i + 1]
  PROVE  \A i, j \in 1..(n + 1) : i <= j => s[i] <= s[j]
<1> DEFINE N == {k \in Nat : \A i \in 1..(n + 1) : i + k <= n + 1 => s[i] <= s[i + k]}
<1>1. \A k \in Nat : k \in N => k + 1 \in N
  <2> SUFFICES ASSUME NEW k \in Nat, k \in N, NEW i \in 1..(n + 1), i + (k + 1) <= n + 1
               PROVE  s[i] <= s[i + (k + 1)]
    OBVIOUS
  <2>1. s[i] <= s[i + k]
    OBVIOUS
  <2>2. i + k \in 1..n /\ (i + k) + 1 = i + (k + 1) /\ i + (k + 1) \in 1..(n + 1) /\ i + k \in 1..(n + 1)
    OBVIOUS
  <2>3. s[i + k] <= s[i + (k + 1)]
    BY <2>2
  <2>4. s[i] \in Int /\ s[i + k] \in Int /\ s[i + (k + 1)] \in Int
    BY <2>2
  <2> QED BY <2>1, <2>3, <2>4
<1>2. Nat \subseteq N
  <2>1. 0 \in N
    OBVIOUS
  <2> HIDE DEF N
  <2> QED BY <1>1, <2>1, NatSetInduction
<1>3. ASSUME NEW i \in 1..(n + 1), NEW j \in 1..(n + 1), i <= j PROVE s[i] <= s[j]
  <2>1. j - i \in Nat /\ i + (j - i) = j
    BY <1>3
  <2>2. j - i \in N
    BY <1>2, <2>1
  <2> QED BY <2>1, <2>2
<1> QED BY <1>3

-----------------------------------------------------------------------------
(* What the recursive functions of the model compute.                      *)

\* How many entries each level has is what the offsets o say, and nothing else.
Reach(o, count) ==
  CHOOSE n : n = [l \in 1..Leaf |-> IF l = 1 THEN count ELSE o[l - 1][n[l - 1] + 1]]

\* The entry counts of what is described are the ones the offsets lead to.
LEMMA DescribesCounts ==
  ASSUME NEW o, NEW m, NEW e, NEW count, NEW c, Describes(o, m, e, count, c)
  PROVE  c = Reach(o, count)
<1>0. c \in [1..Leaf -> Nat] /\ c[1] = count /\ \A l \in Level : c[l + 1] = o[l][c[l] + 1]
  BY DEF Describes
<1> DEFINE Body(n) == [l \in 1..Leaf |-> IF l = 1 THEN count ELSE o[l - 1][n[l - 1] + 1]]
           reach == CHOOSE r : r = Body(r)
<1>1. c = Body(c)
  <2>1. \A l \in 1..Leaf : c[l] = Body(c)[l]
    <3> TAKE l \in 1..Leaf
    <3>1. CASE l = 1
      BY <1>0, <3>1
    <3>2. CASE l # 1
      <4>1. l - 1 \in Level /\ (l - 1) + 1 = l
        BY <3>2, ListAssumption DEF Leaf, Level
      <4> QED BY <1>0, <3>2, <4>1
    <3> QED BY <3>1, <3>2
  <2> QED BY <1>0, <2>1
<1>2. reach = Body(reach)
  <2> HIDE DEF Body
  <2> QED BY <1>1
<1> HIDE DEF reach
<1> DEFINE P == {l \in 1..Leaf : reach[l] = c[l]}
<1>3. 1 \in P
  BY <1>0, <1>2, ListAssumption DEF Leaf
<1>4. ASSUME NEW l \in Level, l \in P PROVE l + 1 \in P
  <2>1. l + 1 \in 1..Leaf /\ l + 1 # 1 /\ (l + 1) - 1 = l
    BY ListAssumption DEF Leaf, Level
  <2>2. reach[l + 1] = o[l][reach[l] + 1]
    BY <1>2, <2>1
  <2> QED BY <1>0, <1>4, <2>1, <2>2
<1>5. 1..Leaf \subseteq P
  <2> HIDE DEF P
  <2> QED BY <1>3, <1>4, LevelsDown
<1>6. c = reach
  BY <1>0, <1>2, <1>5
<1> QED BY <1>6 DEF reach, Reach

\* The running sums of counts.
LEMMA RunningSums ==
  ASSUME NEW base \in Nat, NEW counts \in Seq(Nat)
  PROVE  \E sum \in [0..Len(counts) -> Nat] :
           /\ sum[0] = base /\ \A i \in DOMAIN counts : sum[i] = sum[i - 1] + counts[i]
           /\ Running(base, counts) = [i \in DOMAIN counts |-> sum[i]]
<1> DEFINE D == 0..Len(counts)
           Body(f) == [i \in D |-> IF i = 0 THEN base ELSE f[i - 1] + counts[i]]
           Right(f, k) == \A i \in D : i <= k => f[i] = Body(f)[i]
           N == {k \in Nat : \E f \in [D -> Nat] : Right(f, k)}
<1>0. Len(counts) \in Nat /\ \A i \in 1..Len(counts) : counts[i] \in Nat
  OBVIOUS
<1>1. 0 \in N
  <2>1. [i \in D |-> base] \in [D -> Nat] /\ Right([i \in D |-> base], 0)
    OBVIOUS
  <2> QED BY <2>1
<1>2. ASSUME NEW k \in Nat, k \in N PROVE k + 1 \in N
  <2>1. PICK f \in [D -> Nat] : Right(f, k)
    BY <1>2
  <2> DEFINE g == Body(f)
  <2>2. g \in [D -> Nat]
    BY <1>0
  <2>3. ASSUME NEW i \in D, i <= k + 1 PROVE g[i] = Body(g)[i]
    <3>1. CASE i = 0
      BY <3>1
    <3>2. CASE i # 0
      <4>1. i - 1 \in D /\ i - 1 <= k
        BY <3>2, <2>3, <1>0
      <4>2. f[i - 1] = g[i - 1]
        BY <2>1, <4>1
      <4>3. g[i] = f[i - 1] + counts[i] /\ Body(g)[i] = g[i - 1] + counts[i]
        BY <3>2
      <4> QED BY <4>2, <4>3
    <3> QED BY <3>1, <3>2
  <2> HIDE DEF g
  <2> QED BY <2>2, <2>3
<1>3. Nat \subseteq N
  <2> HIDE DEF N
  <2> QED BY <1>1, <1>2, NatSetInduction
<1>4. PICK f \in [D -> Nat] : Right(f, Len(counts))
  BY <1>0, <1>3
<1>5. f = Body(f)
  BY <1>4, <1>0
<1> DEFINE sum == CHOOSE h : h = Body(h)
<1>6. sum = Body(sum)
  <2> HIDE DEF Body
  <2> QED BY <1>5
<1> HIDE DEF sum
<1>7. sum \in [D -> Nat]
  <2> DEFINE M == {k \in Nat : k \in D => sum[k] \in Nat}
  <2>1. 0 \in M
    BY <1>6
  <2>2. ASSUME NEW k \in Nat, k \in M PROVE k + 1 \in M
    <3> SUFFICES ASSUME k + 1 \in D PROVE sum[k + 1] \in Nat
      OBVIOUS
    <3>1. k \in D /\ k + 1 # 0 /\ (k + 1) - 1 = k /\ k + 1 \in 1..Len(counts)
      BY <1>0
    <3>2. sum[k + 1] = sum[k] + counts[k + 1]
      BY <1>6, <3>1
    <3> QED BY <3>1, <3>2, <2>2, <1>0
  <2>3. Nat \subseteq M
    <3> HIDE DEF M
    <3> QED BY <2>1, <2>2, NatSetInduction
  <2>4. \A k \in D : k \in Nat /\ sum[k] \in Nat
    BY <2>3, <1>0
  <2>5. sum = [i \in D |-> sum[i]]
    <3> DEFINE B == [i \in D |-> IF i = 0 THEN base ELSE sum[i - 1] + counts[i]]
    <3>1. sum = B /\ DOMAIN B = D /\ B = [i \in D |-> B[i]]
      BY <1>6
    <3> HIDE DEF B
    <3> QED BY <3>1
  <2> HIDE DEF M
  <2> QED BY <2>4, <2>5
<1>8. /\ sum[0] = base /\ \A i \in DOMAIN counts : sum[i] = sum[i - 1] + counts[i]
      /\ Running(base, counts) = [i \in DOMAIN counts |-> sum[i]]
  <2>1. Running(base, counts) = [i \in DOMAIN counts |-> sum[i]]
    BY DEF Running, sum
  <2>2. DOMAIN counts = 1..Len(counts)
    OBVIOUS
  <2> QED BY <1>0, <1>6, <2>1, <2>2
<1> QED BY <1>7, <1>8

\* The first k of the sequences ss, run together to s, end where sum says.
Placed(ss, base, sum, s, k) ==
  /\ base <= sum[k] /\ Len(s) = sum[k] - base
  /\ \A i \in 1..k : /\ base <= sum[i - 1] /\ sum[i] <= sum[k]
                     /\ \A j \in 1..Len(ss[i]) : s[(sum[i - 1] - base) + j] = ss[i][j]

\* One more sequence run onto those already there.
LEMMA PlacedStep ==
  ASSUME NEW S, NEW n \in Nat, NEW ss, \A i \in 1..n : ss[i] \in Seq(S), NEW base \in Nat,
         NEW sum \in [0..n -> Nat], \A i \in 1..n : sum[i] = sum[i - 1] + Len(ss[i]),
         NEW k \in Nat, k < n, NEW s \in Seq(S), Placed(ss, base, sum, s, k)
  PROVE  s \o ss[k + 1] \in Seq(S) /\ Placed(ss, base, sum, s \o ss[k + 1], k + 1)
<1> DEFINE t == ss[k + 1]
<1>1. /\ t \in Seq(S) /\ Len(t) \in Nat /\ Len(s) \in Nat
      /\ sum[k] \in Nat /\ sum[k + 1] \in Nat /\ sum[k + 1] = sum[k] + Len(t)
  <2>1. k + 1 \in 1..n /\ k \in 0..n /\ k + 1 \in 0..n /\ (k + 1) - 1 = k
    OBVIOUS
  <2> QED BY <2>1, LenProperties
<1>2. /\ s \o t \in Seq(S) /\ Len(s \o t) = Len(s) + Len(t)
      /\ \A x \in 1..(Len(s) + Len(t)) : (s \o t)[x] = IF x <= Len(s) THEN s[x] ELSE t[x - Len(s)]
  <2> HIDE DEF t
  <2> QED BY <1>1, ConcatProperties
<1>3. base <= sum[k + 1] /\ Len(s \o t) = sum[k + 1] - base
  BY <1>1, <1>2 DEF Placed
<1>4. ASSUME NEW i \in 1..(k + 1)
      PROVE  /\ base <= sum[i - 1] /\ sum[i] <= sum[k + 1]
             /\ \A j \in 1..Len(ss[i]) : (s \o t)[(sum[i - 1] - base) + j] = ss[i][j]
  <2>1. CASE i = k + 1
    <3>1. i - 1 = k /\ sum[i - 1] - base = Len(s) /\ base <= sum[i - 1]
      BY <2>1, <1>1 DEF Placed
    <3>2. ASSUME NEW j \in 1..Len(t) PROVE (s \o t)[Len(s) + j] = t[j]
      <4>1. /\ Len(s) + j \in 1..(Len(s) + Len(t)) /\ ~(Len(s) + j <= Len(s))
            /\ (Len(s) + j) - Len(s) = j
        BY <1>1
      <4> HIDE DEF t
      <4> QED BY <4>1, <1>2
    <3>3. ASSUME NEW j \in 1..Len(ss[i]) PROVE (s \o t)[(sum[i - 1] - base) + j] = ss[i][j]
      <4>1. ss[i] = t
        BY <2>1
      <4> HIDE DEF t
      <4> QED BY <4>1, <3>1, <3>2
    <3>4. sum[i] <= sum[k + 1]
      BY <2>1, <1>1
    <3> QED BY <3>1, <3>3, <3>4
  <2>2. CASE i # k + 1
    <3>1. /\ i \in 1..k /\ i \in 0..n /\ i - 1 \in 0..n /\ i \in 1..n
      BY <2>2
    <3>2. /\ base <= sum[i - 1] /\ sum[i] <= sum[k]
          /\ \A j \in 1..Len(ss[i]) : s[(sum[i - 1] - base) + j] = ss[i][j]
      BY <3>1 DEF Placed
    <3>3. /\ sum[i] \in Nat /\ sum[i - 1] \in Nat /\ sum[i] = sum[i - 1] + Len(ss[i])
          /\ Len(ss[i]) \in Nat
      BY <3>1, LenProperties
    <3>4. ASSUME NEW j \in 1..Len(ss[i])
          PROVE  (s \o t)[(sum[i - 1] - base) + j] = s[(sum[i - 1] - base) + j]
      <4>1. Len(s) = sum[k] - base
        BY DEF Placed
      <4>2. (sum[i - 1] - base) + j \in 1..Len(s)
        <5>1. sum[k] \in Nat /\ sum[i] <= sum[k] /\ base <= sum[i - 1]
          BY <3>2, <1>1
        <5>2. j \in Int /\ 1 <= j /\ j <= Len(ss[i])
          BY <3>3
        <5> HIDE DEF t
        <5> QED BY <5>1, <5>2, <4>1, <3>3
      <4> HIDE DEF t
      <4> QED BY <4>2, <1>1, <1>2
    <3>5. sum[i] <= sum[k + 1]
      BY <3>2, <3>3, <1>1
    <3> HIDE DEF t
    <3> QED BY <3>2, <3>4, <3>5
  <2> QED BY <2>1, <2>2
<1> QED BY <1>2, <1>3, <1>4 DEF Placed

\* A sequence of sequences run together.
LEMMA FlattenPlaces ==
  ASSUME NEW S, NEW ss \in Seq(Seq(S)), NEW base \in Nat,
         NEW sum \in [0..Len(ss) -> Nat], sum[0] = base,
         \A i \in 1..Len(ss) : sum[i] = sum[i - 1] + Len(ss[i])
  PROVE  /\ FlattenSeq(ss) \in Seq(S)
         /\ Placed(ss, base, sum, FlattenSeq(ss), Len(ss))
<1> DEFINE n == Len(ss)
           Body(f) == [i \in 1..n |-> IF i = 1 THEN ss[i] ELSE f[i - 1] \o ss[i]]
           Right(f, k) == \A i \in 1..n : i <= k => f[i] = Body(f)[i]
           N == {k \in Nat : \E f : f = [i \in 1..n |-> f[i]] /\ Right(f, k)}
<1>0. n \in Nat /\ \A i \in 1..n : ss[i] \in Seq(S)
  BY LenProperties, ElementOfSeq
<1>1. 0 \in N
  <2> DEFINE h == [i \in 1..n |-> <<>>]
  <2>1. h = [i \in 1..n |-> h[i]]
    OBVIOUS
  <2>2. Right(h, 0)
    BY <1>0
  <2> HIDE DEF h, Right
  <2> QED BY <2>1, <2>2
<1>2. ASSUME NEW k \in Nat, k \in N PROVE k + 1 \in N
  <2>1. PICK f : f = [i \in 1..n |-> f[i]] /\ Right(f, k)
    BY <1>2
  <2> DEFINE g == Body(f)
  <2>2. g = [i \in 1..n |-> g[i]]
    OBVIOUS
  <2>3. ASSUME NEW i \in 1..n, i <= k + 1 PROVE g[i] = Body(g)[i]
    <3>1. CASE i = 1
      BY <3>1
    <3>2. CASE i # 1
      <4>1. i - 1 \in 1..n /\ i - 1 <= k
        BY <3>2, <2>3, <1>0
      <4>2. f[i - 1] = g[i - 1]
        BY <2>1, <4>1
      <4>3. g[i] = f[i - 1] \o ss[i] /\ Body(g)[i] = g[i - 1] \o ss[i]
        BY <3>2
      <4> QED BY <4>2, <4>3
    <3> QED BY <3>1, <3>2
  <2>4. Right(g, k + 1)
    <3> HIDE DEF g
    <3> QED BY <2>3
  <2> HIDE DEF g, Right
  <2> QED BY <2>2, <2>4
<1>3. Nat \subseteq N
  <2> HIDE DEF N
  <2> QED BY <1>1, <1>2, NatSetInduction
<1>4. PICK f : f = [i \in 1..n |-> f[i]] /\ Right(f, n)
  BY <1>0, <1>3
<1>5. f = Body(f)
  BY <1>4, <1>0
<1> DEFINE flat == CHOOSE f_1 : f_1 = Body(f_1)
<1>6. flat = Body(flat)
  <2> HIDE DEF Body
  <2> QED BY <1>5
<1> DEFINE first(k) == IF k = 0 THEN <<>> ELSE flat[k]
<1>7. FlattenSeq(ss) = first(n)
  <2>1. n = 0 => ss = <<>>
    BY EmptySeq, <1>0
  <2> QED BY <2>1, <1>0 DEF FlattenSeq
<1> HIDE DEF flat
<1>8. ASSUME NEW k \in Nat, k < n, first(k) \in Seq(S) PROVE first(k + 1) = first(k) \o ss[k + 1]
  <2>0. k + 1 \in 1..n /\ (k + 1) - 1 = k /\ k + 1 # 0
    BY <1>8, <1>0
  <2>1. CASE k = 0
    <3>1. flat[k + 1] = ss[k + 1]
      BY <1>6, <2>0, <2>1
    <3>2. <<>> \o ss[k + 1] = ss[k + 1]
      BY <1>0, <2>0, ConcatEmptySeq
    <3> QED BY <3>1, <3>2, <2>0, <2>1
  <2>2. CASE k # 0
    <3> DEFINE B == Body(flat)
    <3>1. B[k + 1] = flat[k] \o ss[k + 1]
      <4>1. k + 1 # 1
        BY <2>2
      <4> QED BY <2>0, <4>1
    <3>2. flat = B
      BY <1>6
    <3> HIDE DEF B
    <3> QED BY <3>1, <3>2, <2>0, <2>2
  <2> QED BY <2>1, <2>2
<1> DEFINE M == {k \in Nat : k <= n => first(k) \in Seq(S) /\ Placed(ss, base, sum, first(k), k)}
<1> HIDE DEF first, n
<1>9. 0 \in M
  <2>1. first(0) = <<>> /\ <<>> \in Seq(S) /\ Len(<<>>) = 0
    BY EmptySeq DEF first
  <2>2. Placed(ss, base, sum, <<>>, 0)
    BY EmptySeq DEF Placed
  <2> QED BY <2>1, <2>2
<1>10. ASSUME NEW k \in Nat, k \in M PROVE k + 1 \in M
  <2> SUFFICES ASSUME k < n
               PROVE  first(k + 1) \in Seq(S) /\ Placed(ss, base, sum, first(k + 1), k + 1)
    BY <1>0
  <2>1. first(k) \in Seq(S) /\ Placed(ss, base, sum, first(k), k)
    BY <1>10, <1>0
  <2>2. first(k + 1) = first(k) \o ss[k + 1]
    BY <2>1, <1>8
  <2>3. sum \in [0..n -> Nat] /\ \A i \in 1..n : sum[i] = sum[i - 1] + Len(ss[i])
    BY DEF n
  <2> HIDE DEF M
  <2>4. first(k) \o ss[k + 1] \in Seq(S) /\ Placed(ss, base, sum, first(k) \o ss[k + 1], k + 1)
    BY <1>0, <2>1, <2>3, PlacedStep
  <2> QED BY <2>2, <2>4
<1>11. Nat \subseteq M
  <2> HIDE DEF M
  <2> QED BY <1>9, <1>10, NatSetInduction
<1>12. first(n) \in Seq(S) /\ Placed(ss, base, sum, first(n), n)
  BY <1>0, <1>11
<1> QED BY <1>7, <1>12 DEF n

\* What the entries es of a level hold at the level below.
Inside(es) == [i \in DOMAIN es |-> Elements(es[i])]

\* The element lists of a level's entries.
LEMMA InsideEntries ==
  ASSUME NEW l \in Level, NEW es \in Seq(Entry[l])
  PROVE  /\ Inside(es) \in Seq(Seq(Entry[l + 1])) /\ Len(Inside(es)) = Len(es)
         /\ \A i \in 1..Len(es) : /\ Inside(es)[i] = Elements(es[i])
                                  /\ Inside(es)[i] \in Seq(Entry[l + 1])
                                  /\ Len(Inside(es)[i]) \in Nat
<1>1. Len(es) \in Nat /\ DOMAIN es = 1..Len(es)
  BY LenProperties
<1>2. ASSUME NEW i \in 1..Len(es) PROVE Elements(es[i]) \in Seq(Entry[l + 1])
  <2>1. es[i] \in Entry[l]
    BY ElementOfSeq
  <2>2. es[i] = Null \/ es[i] \in Seq(Entry[l + 1])
    BY <2>1, ListAssumption
  <2>3. <<>> \in Seq(Entry[l + 1])
    BY EmptySeq
  <2> QED BY <2>2, <2>3 DEF Elements
<1>3. Inside(es) = [i \in 1..Len(es) |-> Elements(es[i])]
  BY <1>1 DEF Inside
<1>4. Inside(es) \in Seq(Seq(Entry[l + 1])) /\ Len(Inside(es)) = Len(es)
  BY <1>1, <1>2, <1>3
<1> QED BY <1>2, <1>3, <1>4, LenProperties

\* The entries of rows at every level.
LEMMA EntriesOfRows ==
  ASSUME NEW rows \in Seq(Rows)
  PROVE  /\ Entries(rows)[1] = rows
         /\ \A l \in 1..Leaf : Entries(rows)[l] \in Seq(Entry[l])
         /\ \A l \in Level : Entries(rows)[l + 1] = FlattenSeq(Inside(Entries(rows)[l]))
<1> DEFINE L == 1..Leaf
           Body(f) == [l \in L |-> IF l = 1 THEN rows
                         ELSE FlattenSeq([i \in DOMAIN f[l - 1] |-> Elements(f[l - 1][i])])]
           Right(f, k) == \A l \in L : l <= k => f[l] = Body(f)[l]
           N == {k \in Nat : \E f : f = [l \in L |-> f[l]] /\ Right(f, k)}
<1>0. Leaf \in Nat /\ 1 \in L /\ \A l \in Level : l \in L /\ l + 1 \in L /\ l + 1 # 1 /\ (l + 1) - 1 = l
  BY ListAssumption DEF Leaf, Level
<1>1. 0 \in N
  <2> DEFINE h == [l \in L |-> <<>>]
  <2>1. h = [l \in L |-> h[l]]
    OBVIOUS
  <2>2. Right(h, 0)
    BY <1>0
  <2> HIDE DEF h, Right
  <2> QED BY <2>1, <2>2
<1>2. ASSUME NEW k \in Nat, k \in N PROVE k + 1 \in N
  <2>1. PICK f : f = [l \in L |-> f[l]] /\ Right(f, k)
    BY <1>2
  <2> DEFINE g == Body(f)
  <2>2. g = [l \in L |-> g[l]]
    OBVIOUS
  <2>3. ASSUME NEW l \in L, l <= k + 1 PROVE g[l] = Body(g)[l]
    <3>1. CASE l = 1
      BY <3>1
    <3>2. CASE l # 1
      <4>1. l - 1 \in L /\ l - 1 <= k
        BY <3>2, <2>3, <1>0
      <4>2. f[l - 1] = g[l - 1]
        BY <2>1, <4>1
      <4>3. /\ g[l] = FlattenSeq([i \in DOMAIN f[l - 1] |-> Elements(f[l - 1][i])])
            /\ Body(g)[l] = FlattenSeq([i \in DOMAIN g[l - 1] |-> Elements(g[l - 1][i])])
        BY <3>2
      <4> HIDE DEF g, Body
      <4> QED BY <4>2, <4>3
    <3> QED BY <3>1, <3>2
  <2>4. Right(g, k + 1)
    <3> HIDE DEF g
    <3> QED BY <2>3
  <2> HIDE DEF g, Right
  <2>5. \E f_1 : f_1 = [l \in L |-> f_1[l]] /\ Right(f_1, k + 1)
    BY <2>2, <2>4, Zenon
  <2>6. k + 1 \in Nat
    OBVIOUS
  <2> QED BY <2>5, <2>6, Zenon
<1>3. Nat \subseteq N
  <2> HIDE DEF N
  <2> QED BY <1>1, <1>2, NatSetInduction
<1>4. PICK f : f = [l \in L |-> f[l]] /\ Right(f, Leaf)
  BY <1>0, <1>3
<1>5. f = Body(f)
  <2>1. \A l \in L : f[l] = Body(f)[l]
    <3> HIDE DEF Body
    <3> QED BY <1>4, <1>0
  <2> HIDE DEF Right
  <2>2. f = [l \in L |-> Body(f)[l]]
    BY <2>1, <1>4
  <2> QED BY <2>2
<1> DEFINE E == CHOOSE f_1 : f_1 = Body(f_1)
<1>6. E = Body(E)
  <2> HIDE DEF Body
  <2> QED BY <1>5
<1>7. Entries(rows) = E
  BY DEF Entries
<1> HIDE DEF E
<1>8. E[1] = rows
  BY <1>6, <1>0
<1>9. ASSUME NEW l \in Level PROVE E[l + 1] = FlattenSeq(Inside(E[l]))
  <2>1. Body(E)[l + 1] = FlattenSeq([i \in DOMAIN E[l] |-> Elements(E[l][i])])
    BY <1>0
  <2>2. Inside(E[l]) = [i \in DOMAIN E[l] |-> Elements(E[l][i])]
    BY DEF Inside
  <2> HIDE DEF Body
  <2> QED BY <2>1, <2>2, <1>6
<1> DEFINE P == {l \in L : E[l] \in Seq(Entry[l])}
<1>10. 1 \in P
  BY <1>0, <1>8 DEF Rows
<1>11. ASSUME NEW l \in Level, l \in P PROVE l + 1 \in P
  <2>1. /\ Inside(E[l]) \in Seq(Seq(Entry[l + 1])) /\ Len(Inside(E[l])) \in Nat
        /\ \A i \in 1..Len(Inside(E[l])) : Len(Inside(E[l])[i]) \in Nat
    <3>1. E[l] \in Seq(Entry[l])
      BY <1>11
    <3> QED BY <3>1, InsideEntries, LenProperties
  <2> DEFINE lens == [i \in 1..Len(Inside(E[l])) |-> Len(Inside(E[l])[i])]
  <2>2. lens \in Seq(Nat) /\ Len(lens) = Len(Inside(E[l]))
    BY <2>1
  <2>3. PICK sum \in [0..Len(lens) -> Nat] :
          sum[0] = 0 /\ \A i \in DOMAIN lens : sum[i] = sum[i - 1] + lens[i]
    <3> HIDE DEF lens
    <3>1. \E sum \in [0..Len(lens) -> Nat] :
            /\ sum[0] = 0 /\ \A i \in DOMAIN lens : sum[i] = sum[i - 1] + lens[i]
            /\ Running(0, lens) = [i \in DOMAIN lens |-> sum[i]]
      BY <2>2, RunningSums
    <3> QED BY <3>1
  <2>4. /\ sum \in [0..Len(Inside(E[l])) -> Nat]
        /\ \A i \in 1..Len(Inside(E[l])) : sum[i] = sum[i - 1] + Len(Inside(E[l])[i])
    BY <2>2, <2>3
  <2>5. FlattenSeq(Inside(E[l])) \in Seq(Entry[l + 1])
    <3> HIDE DEF lens, P
    <3> QED BY <2>1, <2>3, <2>4, FlattenPlaces
  <2> QED BY <2>5, <1>9, <1>0
<1>12. 1..Leaf \subseteq P
  <2> HIDE DEF P
  <2> QED BY <1>10, <1>11, LevelsDown
<1> QED BY <1>7, <1>8, <1>9, <1>12

\* The number of elements of each entry, and where they end, from base on.
CountsOf(es) == [i \in DOMAIN es |-> Len(Elements(es[i]))]

\* At a level the running sums of the counts are where each entry's elements
\* start in the level below.
LEMMA LevelSums ==
  ASSUME NEW rows \in Seq(Rows), NEW l \in Level, NEW base \in Nat
  PROVE  LET es == Entries(rows)[l]
             n  == Len(es)
         IN  /\ es \in Seq(Entry[l]) /\ n \in Nat /\ Entries(rows)[l + 1] \in Seq(Entry[l + 1])
             /\ CountsOf(es) \in Seq(Nat) /\ Len(CountsOf(es)) = n
             /\ \E sum \in [0..n -> Nat] :
                  /\ sum[0] = base
                  /\ \A i \in 1..n : sum[i] = sum[i - 1] + CountsOf(es)[i]
                  /\ Running(base, CountsOf(es)) = [i \in 1..n |-> sum[i]]
                  /\ Placed(Inside(es), base, sum, Entries(rows)[l + 1], n)
<1> DEFINE es == Entries(rows)[l]
           n  == Len(es)
           below == Entries(rows)[l + 1]
<1>1. es \in Seq(Entry[l]) /\ below = FlattenSeq(Inside(es)) /\ below \in Seq(Entry[l + 1])
  <2>1. l \in 1..Leaf /\ l + 1 \in 1..Leaf
    BY ListAssumption DEF Leaf, Level
  <2> QED BY <2>1, EntriesOfRows
<1> HIDE DEF es, below
<1>2. n \in Nat /\ DOMAIN es = 1..n
  BY <1>1, LenProperties
<1>3. /\ Inside(es) \in Seq(Seq(Entry[l + 1])) /\ Len(Inside(es)) = n
      /\ \A i \in 1..n : Inside(es)[i] = Elements(es[i]) /\ Len(Inside(es)[i]) \in Nat
  BY <1>1, InsideEntries
<1>4. CountsOf(es) = [i \in 1..n |-> Len(Inside(es)[i])]
  BY <1>2, <1>3 DEF CountsOf
<1>5. CountsOf(es) \in Seq(Nat) /\ Len(CountsOf(es)) = n /\ DOMAIN CountsOf(es) = 1..n
  BY <1>2, <1>3, <1>4
<1>6. PICK sum \in [0..n -> Nat] :
        /\ sum[0] = base
        /\ \A i \in 1..n : sum[i] = sum[i - 1] + CountsOf(es)[i]
        /\ Running(base, CountsOf(es)) = [i \in 1..n |-> sum[i]]
  <2> DEFINE counts == CountsOf(es)
  <2> HIDE DEF counts
  <2>1. counts \in Seq(Nat) /\ Len(counts) = n /\ DOMAIN counts = 1..n
    BY <1>5 DEF counts
  <2>2. \E sum \in [0..Len(counts) -> Nat] :
          /\ sum[0] = base /\ \A i \in DOMAIN counts : sum[i] = sum[i - 1] + counts[i]
          /\ Running(base, counts) = [i \in DOMAIN counts |-> sum[i]]
    <3> HIDE DEF n
    <3> QED BY <2>1, RunningSums
  <2>3. \E sum \in [0..n -> Nat] :
          /\ sum[0] = base /\ \A i \in 1..n : sum[i] = sum[i - 1] + counts[i]
          /\ Running(base, counts) = [i \in 1..n |-> sum[i]]
    <3> HIDE DEF n
    <3> QED BY <2>1, <2>2, Zenon
  <2> QED BY <2>3 DEF counts
<1>7. \A i \in 1..n : sum[i] = sum[i - 1] + Len(Inside(es)[i])
  BY <1>4, <1>6
<1>8. Placed(Inside(es), base, sum, below, n)
  <2> HIDE DEF n
  <2> QED BY <1>1, <1>3, <1>6, <1>7, FlattenPlaces
<1> QED BY <1>1, <1>2, <1>5, <1>6, <1>8 DEF es, below

-----------------------------------------------------------------------------
(* Resizing and writing.                                                   *)

\* Dataset.resize only adds, and adds enough.
LEMMA ExtendKeeps ==
  ASSUME NEW T, NEW s \in Seq(T), NEW n \in Nat, NEW default \in T
  PROVE  LET x == extend_to(s, n, default)
         IN  /\ x \in Seq(T) /\ Len(x) >= Len(s) /\ Len(x) >= n
             /\ \A i \in 1..Len(s) : x[i] = s[i]
<1>1. CASE Len(s) < n
  <2> DEFINE m == n - Len(s)
             new == [i \in 1..m |-> default]
  <2>1. Len(s) \in Nat /\ m \in Nat
    BY <1>1, LenProperties
  <2>2. new \in Seq(T) /\ Len(new) = m
    BY <2>1
  <2>3. extend_to(s, n, default) = s \o new
    BY <1>1 DEF extend_to
  <2> HIDE DEF new
  <2>4. /\ s \o new \in Seq(T) /\ Len(s \o new) = Len(s) + m
        /\ \A i \in 1..(Len(s) + m) : (s \o new)[i] = IF i <= Len(s) THEN s[i] ELSE new[i - Len(s)]
    BY <2>2, ConcatProperties
  <2> QED BY <2>1, <2>3, <2>4
<1>2. CASE ~(Len(s) < n)
  <2>1. extend_to(s, n, default) = s /\ Len(s) \in Nat
    BY <1>2, LenProperties DEF extend_to
  <2> QED BY <1>2, <2>1
<1> QED BY <1>1, <1>2

\* A write behind place p, or part of one, leaves what is before it.
LEMMA WrittenKeeps ==
  ASSUME NEW T, NEW s \in Seq(T), NEW p \in Nat, NEW new \in Seq(T),
         NEW which \in SUBSET DOMAIN new
  PROVE  /\ Written(s, p, new, which) \in Seq(T) /\ Len(Written(s, p, new, which)) = Len(s)
         /\ \A i \in 1..Len(s) : i <= p => Written(s, p, new, which)[i] = s[i]
         /\ Behind(s, p, new) /\ which = DOMAIN new => Holds(Written(s, p, new, which), p, new)
<1> DEFINE w == Written(s, p, new, which)
<1>1. /\ Len(s) \in Nat /\ DOMAIN s = 1..Len(s) /\ \A i \in 1..Len(s) : s[i] \in T
      /\ Len(new) \in Nat /\ DOMAIN new = 1..Len(new) /\ \A i \in 1..Len(new) : new[i] \in T
  BY LenProperties, ElementOfSeq
<1>2. w = [i \in 1..Len(s) |-> IF i - p \in which THEN new[i - p] ELSE s[i]]
  BY <1>1 DEF Written
<1>3. \A i \in 1..Len(s) : (IF i - p \in which THEN new[i - p] ELSE s[i]) \in T
  BY <1>1
<1>4. w \in Seq(T) /\ Len(w) = Len(s)
  <2> HIDE DEF w
  <2> QED BY <1>1, <1>2, <1>3
<1>5. ASSUME NEW i \in 1..Len(s), i <= p PROVE w[i] = s[i]
  <2>1. i - p \notin which
    BY <1>1, <1>5
  <2> QED BY <1>2, <2>1
<1>6. ASSUME Behind(s, p, new), which = DOMAIN new PROVE Holds(w, p, new)
  <2>1. \A i \in DOMAIN new : p + i \in 1..Len(s) /\ (p + i) - p = i
    BY <1>1, <1>6 DEF Behind
  <2>2. \A i \in DOMAIN new : w[p + i] = new[i]
    <3> HIDE DEF w
    <3> QED BY <2>1, <1>2, <1>6
  <2> HIDE DEF w
  <2> QED BY <1>4, <1>6, <2>2 DEF Holds, Behind
<1> HIDE DEF w
<1>7. /\ w \in Seq(T) /\ Len(w) = Len(s) /\ \A i \in 1..Len(s) : i <= p => w[i] = s[i]
      /\ Behind(s, p, new) /\ which = DOMAIN new => Holds(w, p, new)
  BY <1>4, <1>5, <1>6
<1> QED BY <1>7 DEF w

-----------------------------------------------------------------------------
(* The committed rows.                                                     *)

\* x is s up to place p, and may go on differently.
Keeps(x, s, p) == Len(x) >= Len(s) /\ \A i \in 1..Len(s) : i <= p => x[i] = s[i]

\* Datasets that differ behind what is described are described alike.
LEMMA DescribesKept ==
  ASSUME NEW o, NEW m, NEW e, NEW count, NEW c, Describes(o, m, e, count, c),
         NEW o2, NEW m2, NEW e2,
         \A l \in Level : /\ Len(o[l]) \in Nat /\ Len(o2[l]) \in Nat
                          /\ Len(m[l]) \in Nat /\ Len(m2[l]) \in Nat
                          /\ Keeps(o2[l], o[l], c[l] + 1) /\ Keeps(m2[l], m[l], c[l]),
         Len(e) \in Nat, Len(e2) \in Nat, Len(e2) >= Len(e)
  PROVE  Describes(o2, m2, e2, count, c)
<1>1. c \in [1..Leaf -> Nat] /\ c[1] = count
  BY DEF Describes
<1>2. ASSUME NEW l \in Level
      PROVE  /\ Len(o2[l]) >= c[l] + 1 /\ o2[l][1] = 0
             /\ c[l + 1] = o2[l][c[l] + 1]
             /\ \A i \in 1..c[l] : o2[l][i] <= o2[l][i + 1]
             /\ l \in Nullable => /\ Len(m2[l]) >= c[l]
                                  /\ \A i \in 1..c[l] : ~m2[l][i] => o2[l][i] = o2[l][i + 1]
  <2>1. l \in 1..Leaf /\ c[l] \in Nat
    BY <1>1, ListAssumption DEF Leaf, Level
  <2>2. /\ Len(o[l]) >= c[l] + 1 /\ o[l][1] = 0
        /\ c[l + 1] = o[l][c[l] + 1]
        /\ \A i \in 1..c[l] : o[l][i] <= o[l][i + 1]
        /\ l \in Nullable => /\ Len(m[l]) >= c[l]
                             /\ \A i \in 1..c[l] : ~m[l][i] => o[l][i] = o[l][i + 1]
    BY DEF Describes
  <2>3. \A i \in 1..(c[l] + 1) : o2[l][i] = o[l][i]
    BY <2>1, <2>2 DEF Keeps
  <2>4. l \in Nullable => \A i \in 1..c[l] : m2[l][i] = m[l][i]
    BY <2>1, <2>2 DEF Keeps
  <2>5. \A i \in 1..c[l] : i \in 1..(c[l] + 1) /\ i + 1 \in 1..(c[l] + 1)
    BY <2>1
  <2>6. Len(o2[l]) >= Len(o[l]) /\ Len(m2[l]) >= Len(m[l]) /\ 1 \in 1..(c[l] + 1) /\ c[l] + 1 \in 1..(c[l] + 1)
    BY <2>1 DEF Keeps
  <2>7. /\ Len(o2[l]) >= c[l] + 1 /\ o2[l][1] = 0 /\ c[l + 1] = o2[l][c[l] + 1]
        /\ l \in Nullable => Len(m2[l]) >= c[l]
    <3>1. /\ Len(o[l]) \in Nat /\ Len(o2[l]) \in Nat /\ Len(m[l]) \in Nat /\ Len(m2[l]) \in Nat
      OBVIOUS
    <3>2. Len(o2[l]) >= c[l] + 1
      BY <3>1, <2>1, <2>2, <2>6
    <3>3. o2[l][1] = 0 /\ c[l + 1] = o2[l][c[l] + 1]
      BY <2>2, <2>3, <2>6
    <3>4. l \in Nullable => Len(m2[l]) >= c[l]
      BY <3>1, <2>1, <2>2, <2>6
    <3> QED BY <3>2, <3>3, <3>4
  <2>8. \A i \in 1..c[l] : o2[l][i] <= o2[l][i + 1]
    BY <2>2, <2>3, <2>5
  <2>9. l \in Nullable => \A i \in 1..c[l] : ~m2[l][i] => o2[l][i] = o2[l][i + 1]
    BY <2>2, <2>3, <2>4, <2>5
  <2> QED BY <2>7, <2>8, <2>9
<1>3. Len(e2) >= c[Leaf]
  <2>1. Len(e) >= c[Leaf] /\ Leaf \in 1..Leaf
    BY ListAssumption DEF Describes, Leaf
  <2> QED BY <2>1, <1>1
<1> QED BY <1>1, <1>2, <1>3 DEF Describes

\* Starts is what the offsets lead to, before a step and after it.
LEMMA StartsReach == Starts = Reach(offs, nrows) /\ Starts' = Reach(offs', nrows')
BY DEF Starts, Counts, Reach

\* The first of the committed rows are described too.
LEMMA FewerDescribed ==
  ASSUME TypeOK, NEW c, Describes(offs, mask, leaf, nrows, c), NEW n \in 0..nrows
  PROVE  \E d : Describes(offs, mask, leaf, n, d) /\ \A l \in 1..Leaf : d[l] <= c[l]
<1> DEFINE L == 1..Leaf
           Body(f) == [l \in L |-> IF l = 1 THEN n ELSE offs[l - 1][f[l - 1] + 1]]
           Right(f, k) == \A l \in L : l <= k => f[l] = Body(f)[l]
           N == {k \in Nat : \E f : f = [l \in L |-> f[l]] /\ Right(f, k)}
<1>0. Leaf \in Nat /\ 1 \in L /\ \A l \in Level : l \in L /\ l + 1 \in L /\ l + 1 # 1 /\ (l + 1) - 1 = l
  BY ListAssumption DEF Leaf, Level
<1>1. 0 \in N
  <2> DEFINE h == [l \in L |-> 0]
  <2>1. h = [l \in L |-> h[l]]
    OBVIOUS
  <2>2. Right(h, 0)
    BY <1>0
  <2> HIDE DEF h, Right
  <2> QED BY <2>1, <2>2
<1>2. ASSUME NEW k \in Nat, k \in N PROVE k + 1 \in N
  <2>1. PICK f : f = [l \in L |-> f[l]] /\ Right(f, k)
    BY <1>2
  <2> DEFINE g == Body(f)
  <2>2. g = [l \in L |-> g[l]]
    OBVIOUS
  <2>3. ASSUME NEW l \in L, l <= k + 1 PROVE g[l] = Body(g)[l]
    <3>1. CASE l = 1
      BY <3>1
    <3>2. CASE l # 1
      <4>1. l - 1 \in L /\ l - 1 <= k
        BY <3>2, <2>3, <1>0
      <4>2. f[l - 1] = g[l - 1]
        BY <2>1, <4>1
      <4>3. /\ g[l] = offs[l - 1][f[l - 1] + 1]
            /\ Body(g)[l] = offs[l - 1][g[l - 1] + 1]
        BY <3>2
      <4> HIDE DEF g, Body
      <4> QED BY <4>2, <4>3
    <3> QED BY <3>1, <3>2
  <2>4. Right(g, k + 1)
    <3> HIDE DEF g
    <3> QED BY <2>3
  <2> HIDE DEF g, Right
  <2>5. \E f_1 : f_1 = [l \in L |-> f_1[l]] /\ Right(f_1, k + 1)
    BY <2>2, <2>4, Zenon
  <2>6. k + 1 \in Nat
    OBVIOUS
  <2> QED BY <2>5, <2>6, Zenon
<1>3. Nat \subseteq N
  <2> HIDE DEF N
  <2> QED BY <1>1, <1>2, NatSetInduction
<1>4. PICK d : d = [l \in L |-> d[l]] /\ Right(d, Leaf)
  BY <1>0, <1>3
<1>5. d[1] = n /\ \A l \in Level : d[l + 1] = offs[l][d[l] + 1]
  <2>1. \A l \in L : d[l] = Body(d)[l]
    <3> HIDE DEF Body
    <3> QED BY <1>4, <1>0
  <2> HIDE DEF Right
  <2> QED BY <2>1, <1>0
<1> HIDE DEF Right
<1>6. c \in [1..Leaf -> Nat] /\ c[1] = nrows /\ nrows \in Nat /\ n \in Nat /\ n <= nrows
  BY DEF Describes, TypeOK
<1> DEFINE P == {l \in L : d[l] \in Nat /\ d[l] <= c[l]}
<1>7. 1 \in P
  BY <1>0, <1>5, <1>6
<1>8. ASSUME NEW l \in Level, l \in P PROVE l + 1 \in P
  <2>1. d[l] \in Nat /\ d[l] <= c[l] /\ c[l] \in Nat /\ c[l + 1] \in Nat /\ offs[l] \in Seq(Nat)
    BY <1>0, <1>6, <1>8 DEF TypeOK
  <2>2. Len(offs[l]) >= c[l] + 1 /\ c[l + 1] = offs[l][c[l] + 1] /\ \A i \in 1..c[l] : offs[l][i] <= offs[l][i + 1]
    BY DEF Describes
  <2>3. Len(offs[l]) \in Nat /\ \A i \in 1..Len(offs[l]) : offs[l][i] \in Nat
    BY <2>1, LenProperties, ElementOfSeq
  <2>4. \A i \in 1..(c[l] + 1) : offs[l][i] \in Nat
    BY <2>1, <2>2, <2>3
  <2>5. \A i, j \in 1..(c[l] + 1) : i <= j => offs[l][i] <= offs[l][j]
    <3>1. \A i \in 1..(c[l] + 1) : offs[l][i] \in Int
      BY <2>4
    <3> HIDE DEF P, N
    <3> QED BY <2>1, <2>2, <3>1, Ascent, Zenon
  <2>6. d[l] + 1 \in 1..(c[l] + 1) /\ c[l] + 1 \in 1..(c[l] + 1) /\ d[l] + 1 <= c[l] + 1
    BY <2>1
  <2>7. offs[l][d[l] + 1] \in Nat /\ offs[l][d[l] + 1] <= c[l + 1]
    BY <2>2, <2>4, <2>5, <2>6
  <2> QED BY <2>7, <1>5, <1>0
<1>9. 1..Leaf \subseteq P
  <2> HIDE DEF P
  <2> QED BY <1>7, <1>8, LevelsDown
<1>10. d \in [1..Leaf -> Nat] /\ \A l \in 1..Leaf : d[l] <= c[l]
  <2>1. \A l \in 1..Leaf : d[l] \in Nat /\ d[l] <= c[l]
    BY <1>9
  <2> QED BY <2>1, <1>4
<1>11. ASSUME NEW l \in Level
      PROVE  /\ Len(offs[l]) >= d[l] + 1 /\ offs[l][1] = 0
             /\ \A i \in 1..d[l] : offs[l][i] <= offs[l][i + 1]
             /\ l \in Nullable => /\ Len(mask[l]) >= d[l]
                                  /\ \A i \in 1..d[l] : ~mask[l][i] => offs[l][i] = offs[l][i + 1]
  <2>1. d[l] \in Nat /\ c[l] \in Nat /\ d[l] <= c[l] /\ Len(offs[l]) \in Nat /\ Len(mask[l]) \in Nat
    <3>1. offs[l] \in Seq(Nat) /\ mask[l] \in Seq(BOOLEAN)
      BY DEF TypeOK
    <3> QED BY <3>1, <1>0, <1>6, <1>10, LenProperties
  <2>2. \A i \in 1..d[l] : i \in 1..c[l]
    BY <2>1
  <2>3. /\ Len(offs[l]) >= c[l] + 1 /\ offs[l][1] = 0
        /\ \A i \in 1..c[l] : offs[l][i] <= offs[l][i + 1]
        /\ l \in Nullable => /\ Len(mask[l]) >= c[l]
                             /\ \A i \in 1..c[l] : ~mask[l][i] => offs[l][i] = offs[l][i + 1]
    BY DEF Describes
  <2>4. Len(offs[l]) >= d[l] + 1 /\ (l \in Nullable => Len(mask[l]) >= d[l])
    BY <2>1, <2>3
  <2> QED BY <2>2, <2>3, <2>4
<1>12. Len(leaf) >= d[Leaf]
  <2>1. Leaf \in L /\ Len(leaf) >= c[Leaf]
    BY <1>0, ListAssumption DEF Describes, Leaf
  <2>2. Len(leaf) \in Nat /\ c[Leaf] \in Nat /\ d[Leaf] \in Nat /\ d[Leaf] <= c[Leaf]
    BY <2>1, <1>6, <1>10, LenProperties DEF TypeOK
  <2> QED BY <2>1, <2>2
<1>13. Describes(offs, mask, leaf, n, d)
  <2> HIDE DEF P, N
  <2> QED BY <1>5, <1>10, <1>11, <1>12 DEF Describes
<1> QED BY <1>10, <1>13

-----------------------------------------------------------------------------
(* Reading.                                                                *)

\* A slice without the set its elements are in.
LEMMA SliceIs ==
  ASSUME NEW s, NEW x \in Nat, NEW y \in Nat, x <= y
  PROVE  SubSeq(s, x + 1, y) = [k \in 1..(y - x) |-> s[x + k]]
<1>1. SubSeq(s, x + 1, y) = [i \in 1..(1 + y - (x + 1)) |-> s[i + (x + 1) - 1]]
  OBVIOUS
<1>2. 1 + y - (x + 1) = y - x /\ \A i \in 1..(y - x) : i + (x + 1) - 1 = x + i
  OBVIOUS
<1> QED BY <1>1, <1>2

Shown(x) == IF LeafFill /\ x = Fill THEN Null ELSE x

LeafSlice(e, s, n) ==
  LET raw == SubSeq(e, s + 1, IF s + n < Len(e) THEN s + n ELSE Len(e))
  IN  [i \in DOMAIN raw |-> IF LeafFill /\ raw[i] = Fill THEN Null ELSE raw[i]]

\* A level of the datasets o, m and e, read over what the level below reads.
Block(o, m, e, l, below) ==
  [s \in Nat |-> [n \in Int |->
     IF n <= 0 THEN <<>>
     ELSE IF l = Leaf THEN LeafSlice(e, s, n)
     ELSE LET lo(i)  == o[l][s + i]
              hi(i)  == o[l][s + i + 1]
              child  == below[lo(1)][hi(n) - lo(1)]
          IN  [i \in 1..n |->
                 IF l \in Nullable /\ ~m[l][s + i] THEN Null
                 ELSE SubSeq(child, lo(i) - lo(1) + 1, hi(i) - lo(1))]]]

Reader(o, m, e) == CHOOSE read : read = [l \in 1..Leaf |-> Block(o, m, e, l, read[l + 1])]

\* Read is Reader on the column's own datasets, before a step and after it.
LEMMA ReadIsReader ==
  ASSUME NEW l, NEW s, NEW n
  PROVE  /\ Read(l, s, n) = Reader(offs, mask, leaf)[l][s][n]
         /\ Read(l, s, n)' = Reader(offs', mask', leaf')[l][s][n]
BY DEF Read, Reader, Block, ReadLeaf, LeafSlice

\* The leaf is read without a level below.
LEMMA BlockOfLeaf ==
  ASSUME NEW o, NEW m, NEW e, NEW f, NEW g
  PROVE  Block(o, m, e, Leaf, f) = Block(o, m, e, Leaf, g)
BY DEF Block

\* The recursion of Read is well-founded: every level is its block over the one
\* below.
LEMMA ReaderBlocks ==
  ASSUME NEW o, NEW m, NEW e
  PROVE  \A l \in 1..Leaf : Reader(o, m, e)[l] = Block(o, m, e, l, Reader(o, m, e)[l + 1])
<1> DEFINE L == 1..Leaf
           Body(f) == [l \in L |-> Block(o, m, e, l, f[l + 1])]
           Right(f, l) == \A k \in L : k >= l => f[k] = Block(o, m, e, k, f[k + 1])
           P == {l \in L : \E f : f = [k \in L |-> f[k]] /\ Right(f, l)}
<1>0. Leaf \in Nat /\ 1 \in L /\ Leaf \in L /\ L \subseteq Nat /\ \A l \in Level : l \in L /\ l + 1 \in L
  BY ListAssumption DEF Leaf, Level
<1>1. Leaf \in P
  <2> DEFINE h == [k \in L |-> Block(o, m, e, k, <<>>)]
  <2>1. h = [k \in L |-> h[k]]
    OBVIOUS
  <2>2. Right(h, Leaf)
    <3> SUFFICES ASSUME NEW k \in L, k >= Leaf PROVE h[k] = Block(o, m, e, k, h[k + 1])
      OBVIOUS
    <3>1. k = Leaf
      BY <1>0
    <3>2. Block(o, m, e, Leaf, <<>>) = Block(o, m, e, Leaf, h[k + 1])
      BY BlockOfLeaf
    <3> QED BY <3>1, <3>2
  <2> HIDE DEF h, Right
  <2>3. \E f : f = [k \in L |-> f[k]] /\ Right(f, Leaf)
    BY <2>1, <2>2, Zenon
  <2> QED BY <2>3, <1>0
<1>2. ASSUME NEW l \in Level, l + 1 \in P PROVE l \in P
  <2>1. PICK f : f = [k \in L |-> f[k]] /\ Right(f, l + 1)
    BY <1>2
  <2> DEFINE g == [k \in L |-> Block(o, m, e, k, f[k + 1])]
  <2>2. g = [k \in L |-> g[k]]
    OBVIOUS
  <2>3. ASSUME NEW k \in L, k >= l PROVE g[k] = Block(o, m, e, k, g[k + 1])
    <3>1. CASE k = Leaf
      <4>1. Block(o, m, e, Leaf, f[k + 1]) = Block(o, m, e, Leaf, g[k + 1])
        BY BlockOfLeaf
      <4> QED BY <3>1, <4>1
    <3>2. CASE k # Leaf
      <4>1. k + 1 \in L /\ k + 1 >= l + 1
        BY <2>3, <3>2, <1>0 DEF Level
      <4>2. f[k + 1] = g[k + 1]
        BY <2>1, <4>1
      <4> QED BY <4>2
    <3> QED BY <3>1, <3>2
  <2>4. Right(g, l)
    <3> HIDE DEF g
    <3> QED BY <2>3
  <2> HIDE DEF g, Right
  <2>5. \E f_1 : f_1 = [k \in L |-> f_1[k]] /\ Right(f_1, l)
    BY <2>2, <2>4, Zenon
  <2> QED BY <2>5, <1>0
<1>3. 1..Leaf \subseteq P
  <2> HIDE DEF P
  <2> QED BY <1>1, <1>2, LevelsUp
<1>4. PICK f : f = [k \in L |-> f[k]] /\ Right(f, 1)
  BY <1>0, <1>3
<1>5. f = Body(f)
  <2>1. \A k \in L : f[k] = Body(f)[k]
    BY <1>4, <1>0
  <2>2. f = [k \in L |-> Body(f)[k]]
    BY <2>1, <1>4
  <2> QED BY <2>2
<1>6. Reader(o, m, e) = Body(Reader(o, m, e))
  <2>1. Reader(o, m, e) = CHOOSE read : read = Body(read)
    BY DEF Reader
  <2> HIDE DEF Body
  <2> QED BY <1>5, <2>1
<1> DEFINE R == Reader(o, m, e)
<1> HIDE DEF R
<1>7. R = [l \in L |-> Block(o, m, e, l, R[l + 1])]
  BY <1>6 DEF R
<1>8. \A l \in L : R[l] = Block(o, m, e, l, R[l + 1])
  BY <1>7
<1> QED BY <1>8 DEF R

\* Entry j of level l, of the datasets o, m and e, given what the levels read.
Item(o, m, e, w, l, j) ==
  IF l = Leaf THEN Shown(e[j])
  ELSE IF l \in Nullable /\ ~m[l][j] THEN Null
  ELSE SubSeq(w[l + 1], o[l][j] + 1, o[l][j + 1])

\* What the levels read, whole.
Whole(o, m, e, c) == [l \in 1..Leaf |-> Reader(o, m, e)[l][0][c[l]]]

\* The datasets of a column.
Sets(o, m, e) == /\ o \in [Level -> Seq(Nat)] /\ m \in [Level -> Seq(BOOLEAN)]
                 /\ e \in Seq(Entry[Leaf] \cup {Fill})

\* Datasets have lengths.
LEMMA SetLengths ==
  ASSUME NEW o, NEW m, NEW e, Sets(o, m, e)
  PROVE  Len(e) \in Nat /\ \A l \in Level : Len(o[l]) \in Nat /\ Len(m[l]) \in Nat
BY LenProperties DEF Sets

\* The offsets of what is described never decrease.
LEMMA OffsetsAscend ==
  ASSUME NEW o, NEW m, NEW e, NEW count, NEW c, Sets(o, m, e), Describes(o, m, e, count, c),
         NEW l \in Level
  PROVE  /\ c[l] \in Nat /\ c[l + 1] \in Nat /\ c[l + 1] = o[l][c[l] + 1]
         /\ \A i \in 1..(c[l] + 1) : o[l][i] \in Nat /\ o[l][i] <= c[l + 1]
         /\ \A i, j \in 1..(c[l] + 1) : i <= j => o[l][i] <= o[l][j]
<1>1. /\ c[l] \in Nat /\ c[l + 1] \in Nat /\ c[l + 1] = o[l][c[l] + 1]
      /\ Len(o[l]) >= c[l] + 1 /\ \A i \in 1..c[l] : o[l][i] <= o[l][i + 1]
  <2>1. l \in 1..Leaf /\ l + 1 \in 1..Leaf
    BY ListAssumption DEF Leaf, Level
  <2> QED BY <2>1 DEF Describes
<1> DEFINE s == o[l]
           n == c[l]
<1>2. \A i \in 1..(n + 1) : s[i] \in Nat /\ s[i] \in Int
  <2>1. s \in Seq(Nat)
    BY DEF Sets
  <2> QED BY <1>1, <2>1
<1>3. n \in Nat /\ \A i \in 1..n : s[i] <= s[i + 1]
  BY <1>1
<1> HIDE DEF s, n
<1>4. \A i, j \in 1..(n + 1) : i <= j => s[i] <= s[j]
  BY <1>2, <1>3, Ascent
<1>5. \A i \in 1..(n + 1) : s[i] <= s[n + 1]
  BY <1>3, <1>4
<1> QED BY <1>1, <1>2, <1>4, <1>5 DEF s, n

\* A range of the leaf, within the leaf.
LEMMA LeafSliceItems ==
  ASSUME NEW e, NEW s \in Nat, NEW n \in Nat, Len(e) \in Nat, s + n <= Len(e)
  PROVE  LeafSlice(e, s, n) = [i \in 1..n |-> Shown(e[s + i])]
<1>1. (IF s + n < Len(e) THEN s + n ELSE Len(e)) = s + n
  OBVIOUS
<1> DEFINE raw == SubSeq(e, s + 1, s + n)
<1>2. LeafSlice(e, s, n) = [i \in DOMAIN raw |-> Shown(raw[i])]
  BY <1>1 DEF LeafSlice, Shown
<1>3. raw = [k \in 1..n |-> e[s + k]]
  <2>1. s + n \in Nat /\ s <= s + n /\ (s + n) - s = n
    OBVIOUS
  <2>2. raw = [k \in 1..((s + n) - s) |-> e[s + k]]
    BY <2>1, SliceIs
  <2> QED BY <2>1, <2>2
<1> HIDE DEF raw
<1> QED BY <1>2, <1>3

\* A range of a level reads its items, whatever the range.
LEMMA RangeItems ==
  ASSUME NEW o, NEW m, NEW e, NEW count, NEW c, Sets(o, m, e), Describes(o, m, e, count, c)
  PROVE  \A l \in 1..Leaf : \A s, n \in Nat : s + n <= c[l] =>
           Reader(o, m, e)[l][s][n] = [i \in 1..n |-> Item(o, m, e, Whole(o, m, e, c), l, s + i)]
<1> DEFINE R == Reader(o, m, e)
           w == Whole(o, m, e, c)
           Reads(l) == \A s, n \in Nat : s + n <= c[l] =>
                         R[l][s][n] = [i \in 1..n |-> Item(o, m, e, w, l, s + i)]
           P == {l \in 1..Leaf : Reads(l)}
<1>0. /\ Leaf \in 1..Leaf /\ \A l \in Level : l \in 1..Leaf /\ l + 1 \in 1..Leaf /\ l # Leaf
      /\ c \in [1..Leaf -> Nat] /\ Len(e) >= c[Leaf] /\ Len(e) \in Nat
  BY ListAssumption, SetLengths DEF Describes, Leaf, Level
<1>1. \A l \in 1..Leaf : R[l] = Block(o, m, e, l, R[l + 1])
  BY ReaderBlocks
<1>2. \A l \in 1..Leaf : w[l] = R[l][0][c[l]]
  BY DEF Whole
<1> HIDE DEF R, w
<1>3. ASSUME NEW s \in Nat, NEW n \in Nat, s + n <= c[Leaf]
      PROVE  R[Leaf][s][n] = [i \in 1..n |-> Item(o, m, e, w, Leaf, s + i)]
  <2>1. n \in Int
    OBVIOUS
  <2>2. R[Leaf][s][n] = IF n <= 0 THEN <<>> ELSE LeafSlice(e, s, n)
    <3> DEFINE below == R[Leaf + 1]
    <3>1. R[Leaf] = Block(o, m, e, Leaf, below)
      BY <1>0, <1>1
    <3> HIDE DEF below
    <3>2. Block(o, m, e, Leaf, below)[s][n] = IF n <= 0 THEN <<>> ELSE LeafSlice(e, s, n)
      BY <2>1 DEF Block
    <3> QED BY <3>1, <3>2
  <2>3. CASE n = 0
    BY <2>2, <2>3
  <2>4. CASE n # 0
    <3>4. LeafSlice(e, s, n) = [i \in 1..n |-> Shown(e[s + i])]
      <4>1. s + n <= Len(e)
        BY <1>0, <1>3
      <4> QED BY <4>1, <1>0, LeafSliceItems
    <3>5. [i \in 1..n |-> Item(o, m, e, w, Leaf, s + i)] = [i \in 1..n |-> Shown(e[s + i])]
      BY DEF Item
    <3>6. R[Leaf][s][n] = LeafSlice(e, s, n)
      BY <2>2, <2>4
    <3> QED BY <3>4, <3>5, <3>6
  <2> QED BY <2>3, <2>4
<1>4. ASSUME NEW l \in Level, Reads(l + 1), NEW s \in Nat, NEW n \in Nat, s + n <= c[l]
      PROVE  R[l][s][n] = [i \in 1..n |-> Item(o, m, e, w, l, s + i)]
  <2>0. /\ c[l] \in Nat /\ c[l + 1] \in Nat
        /\ \A i \in 1..(c[l] + 1) : o[l][i] \in Nat /\ o[l][i] <= c[l + 1]
        /\ \A i, j \in 1..(c[l] + 1) : i <= j => o[l][i] <= o[l][j]
    BY OffsetsAscend
  <2> DEFINE A == o[l][s + 1]
             B == o[l][s + n + 1]
             child == R[l + 1][A][B - A]
  <2>1. R[l][s][n] = IF n <= 0 THEN <<>>
                     ELSE [i \in 1..n |->
                             IF l \in Nullable /\ ~m[l][s + i] THEN Null
                             ELSE SubSeq(child, o[l][s + i] - A + 1, o[l][s + i + 1] - A)]
    <3>1. R[l] = Block(o, m, e, l, R[l + 1]) /\ l # Leaf
      BY <1>0, <1>1
    <3>2. n \in Int
      OBVIOUS
    <3> QED BY <3>1, <3>2 DEF Block
  <2>2. CASE n = 0
    BY <2>1, <2>2
  <2>3. CASE n # 0
    <3>1. /\ s + 1 \in 1..(c[l] + 1) /\ s + n + 1 \in 1..(c[l] + 1)
          /\ \A i \in 1..n : /\ s + i \in 1..(c[l] + 1) /\ s + i + 1 \in 1..(c[l] + 1)
                             /\ s + 1 <= s + i /\ s + i <= s + i + 1 /\ s + i + 1 <= s + n + 1
      BY <1>4, <2>0, <2>3
    <3>2. /\ A \in Nat /\ B \in Nat /\ A <= B /\ B <= c[l + 1]
          /\ \A i \in 1..n : /\ o[l][s + i] \in Nat /\ o[l][s + i + 1] \in Nat
                             /\ A <= o[l][s + i] /\ o[l][s + i] <= o[l][s + i + 1] /\ o[l][s + i + 1] <= B
      <4>1. s + 1 <= s + n + 1
        OBVIOUS
      <4> QED BY <2>0, <3>1, <4>1
    <3> HIDE DEF A, B
    <3>3. child = [k \in 1..(B - A) |-> Item(o, m, e, w, l + 1, A + k)]
      <4>1. B - A \in Nat /\ A + (B - A) <= c[l + 1]
        BY <2>0, <3>2
      <4> QED BY <4>1, <3>2, <1>4
    <3>4. w[l + 1] = [k \in 1..c[l + 1] |-> Item(o, m, e, w, l + 1, k)]
      <4>1. R[l + 1][0][c[l + 1]] = [k \in 1..c[l + 1] |-> Item(o, m, e, w, l + 1, 0 + k)]
        <5>1. 0 \in Nat /\ c[l + 1] \in Nat /\ 0 + c[l + 1] <= c[l + 1]
          BY <2>0
        <5> QED BY <5>1, <1>4
      <4>2. w[l + 1] = R[l + 1][0][c[l + 1]]
        BY <1>0, <1>2
      <4>3. \A k \in 1..c[l + 1] : 0 + k = k
        OBVIOUS
      <4> QED BY <4>1, <4>2, <4>3
    <3> HIDE DEF child
    <3>5. ASSUME NEW x \in Nat, NEW y \in Nat, A <= x, x <= y, y <= B
          PROVE  SubSeq(child, x - A + 1, y - A) = SubSeq(w[l + 1], x + 1, y)
      <4>1. x - A \in Nat /\ y - A \in Nat /\ x - A <= y - A /\ (y - A) - (x - A) = y - x
        BY <3>2, <3>5
      <4>2. SubSeq(child, x - A + 1, y - A) = [k \in 1..(y - x) |-> child[(x - A) + k]]
        <5>1. SubSeq(child, (x - A) + 1, y - A) = [k \in 1..((y - A) - (x - A)) |-> child[(x - A) + k]]
          BY <4>1, SliceIs
        <5> QED BY <4>1, <5>1
      <4>3. SubSeq(w[l + 1], x + 1, y) = [k \in 1..(y - x) |-> w[l + 1][x + k]]
        BY <3>5, SliceIs
      <4>4. ASSUME NEW k \in 1..(y - x) PROVE child[(x - A) + k] = w[l + 1][x + k]
        <5>1. /\ (x - A) + k \in 1..(B - A) /\ A + ((x - A) + k) = x + k
              /\ x + k \in 1..c[l + 1]
          BY <3>2, <3>5, <2>0
        <5> QED BY <5>1, <3>3, <3>4
      <4> QED BY <4>2, <4>3, <4>4
    <3>6. \A i \in 1..n : SubSeq(child, o[l][s + i] - A + 1, o[l][s + i + 1] - A)
                          = SubSeq(w[l + 1], o[l][s + i] + 1, o[l][s + i + 1])
      BY <3>2, <3>5
    <3>7. \A i \in 1..n : Item(o, m, e, w, l, s + i) =
                            IF l \in Nullable /\ ~m[l][s + i] THEN Null
                            ELSE SubSeq(child, o[l][s + i] - A + 1, o[l][s + i + 1] - A)
      <4>1. l # Leaf
        BY <1>0
      <4> QED BY <3>6, <4>1 DEF Item
    <3>8. R[l][s][n] = [i \in 1..n |->
                             IF l \in Nullable /\ ~m[l][s + i] THEN Null
                             ELSE SubSeq(child, o[l][s + i] - A + 1, o[l][s + i + 1] - A)]
      BY <2>1, <2>3
    <3> QED BY <3>7, <3>8
  <2> QED BY <2>2, <2>3
<1>5. Leaf \in P
  BY <1>0, <1>3
<1>6. ASSUME NEW l \in Level, l + 1 \in P PROVE l \in P
  <2>1. Reads(l + 1)
    BY <1>6
  <2>2. Reads(l)
    BY <2>1, <1>4
  <2> HIDE DEF Reads
  <2> QED BY <2>2, <1>0
<1>7. 1..Leaf \subseteq P
  <2> HIDE DEF P
  <2> QED BY <1>5, <1>6, LevelsUp
<1>8. \A l \in 1..Leaf : Reads(l)
  <2> HIDE DEF Reads
  <2> QED BY <1>7
<1> QED BY <1>8 DEF R, w

\* A level read whole is its items.
LEMMA WholeItems ==
  ASSUME NEW o, NEW m, NEW e, NEW count, NEW c, Sets(o, m, e), Describes(o, m, e, count, c)
  PROVE  \A l \in 1..Leaf :
           /\ c[l] \in Nat
           /\ Whole(o, m, e, c)[l] = [i \in 1..c[l] |-> Item(o, m, e, Whole(o, m, e, c), l, i)]
<1> TAKE l \in 1..Leaf
<1> DEFINE w == Whole(o, m, e, c)
<1>1. c[l] \in Nat /\ 0 \in Nat /\ 0 + c[l] <= c[l]
  BY DEF Describes
<1>2. w[l] = Reader(o, m, e)[l][0][c[l]]
  BY DEF Whole
<1> HIDE DEF w
<1>3. Reader(o, m, e)[l][0][c[l]] = [i \in 1..c[l] |-> Item(o, m, e, w, l, 0 + i)]
  BY <1>1, RangeItems DEF w
<1>4. \A i \in 1..c[l] : 0 + i = i
  OBVIOUS
<1> QED BY <1>1, <1>2, <1>3, <1>4 DEF w

\* Any range of a level is that range of the whole level.
LEMMA RangeOfWhole ==
  ASSUME NEW o, NEW m, NEW e, NEW count, NEW c, Sets(o, m, e), Describes(o, m, e, count, c),
         NEW l \in 1..Leaf, NEW s \in Nat, NEW n \in Nat, s + n <= c[l]
  PROVE  Reader(o, m, e)[l][s][n] = SubSeq(Whole(o, m, e, c)[l], s + 1, s + n)
<1> DEFINE w == Whole(o, m, e, c)
<1>1. c[l] \in Nat /\ w[l] = [i \in 1..c[l] |-> Item(o, m, e, w, l, i)]
  BY WholeItems
<1>2. Reader(o, m, e)[l][s][n] = [i \in 1..n |-> Item(o, m, e, w, l, s + i)]
  BY RangeItems
<1> HIDE DEF w
<1> DEFINE x == w[l]
<1>3. SubSeq(x, s + 1, s + n) = [k \in 1..n |-> x[s + k]]
  <2> HIDE DEF x
  <2>1. s + n \in Nat /\ s <= s + n /\ (s + n) - s = n
    OBVIOUS
  <2>2. SubSeq(x, s + 1, s + n) = [k \in 1..((s + n) - s) |-> x[s + k]]
    BY <2>1, SliceIs
  <2> QED BY <2>1, <2>2
<1>4. \A k \in 1..n : s + k \in 1..c[l]
  BY <1>1
<1>5. \A k \in 1..n : x[s + k] = Item(o, m, e, w, l, s + k)
  BY <1>1, <1>4
<1> QED BY <1>2, <1>3, <1>5 DEF w

\* The items of a level are the same when what is described is the same and the
\* level below reads the same.
LEMMA WholeKept ==
  ASSUME NEW o, NEW m, NEW e, NEW count, NEW c, Sets(o, m, e), Describes(o, m, e, count, c),
         NEW o2, NEW m2, NEW e2, Sets(o2, m2, e2), Describes(o2, m2, e2, count, c),
         \A l \in Level : Keeps(o2[l], o[l], c[l] + 1) /\ Keeps(m2[l], m[l], c[l]),
         Keeps(e2, e, c[Leaf])
  PROVE  Whole(o2, m2, e2, c) = Whole(o, m, e, c)
<1> DEFINE w == Whole(o, m, e, c)
           w2 == Whole(o2, m2, e2, c)
           P == {l \in 1..Leaf : w2[l] = w[l]}
<1>0. /\ Leaf \in 1..Leaf /\ \A l \in Level : l \in 1..Leaf /\ l + 1 \in 1..Leaf /\ l # Leaf
      /\ c \in [1..Leaf -> Nat] /\ Len(e) >= c[Leaf] /\ Len(e) \in Nat
  BY ListAssumption, SetLengths DEF Describes, Leaf, Level
<1>1. \A l \in 1..Leaf : /\ w[l] = [i \in 1..c[l] |-> Item(o, m, e, w, l, i)]
                         /\ w2[l] = [i \in 1..c[l] |-> Item(o2, m2, e2, w2, l, i)]
  BY WholeItems
<1>2. w = [l \in 1..Leaf |-> w[l]] /\ w2 = [l \in 1..Leaf |-> w2[l]]
  BY DEF Whole
<1> HIDE DEF w, w2
<1>3. Leaf \in P
  <2>1. \A i \in 1..c[Leaf] : e2[i] = e[i]
    BY <1>0 DEF Keeps
  <2>2. \A i \in 1..c[Leaf] : Item(o2, m2, e2, w2, Leaf, i) = Item(o, m, e, w, Leaf, i)
    BY <2>1 DEF Item
  <2> QED BY <2>2, <1>0, <1>1
<1>4. ASSUME NEW l \in Level, l + 1 \in P PROVE l \in P
  <2>1. w2[l + 1] = w[l + 1]
    BY <1>4
  <2>2. c[l] \in Nat /\ Len(o[l]) >= c[l] + 1 /\ Len(o[l]) \in Nat /\ (l \in Nullable => Len(m[l]) >= c[l])
    BY <1>0, SetLengths DEF Describes
  <2>3. \A i \in 1..(c[l] + 1) : o2[l][i] = o[l][i]
    BY <2>2 DEF Keeps
  <2>4. l \in Nullable => \A i \in 1..c[l] : m2[l][i] = m[l][i]
    BY <2>2 DEF Keeps
  <2>5. \A i \in 1..c[l] : i \in 1..(c[l] + 1) /\ i + 1 \in 1..(c[l] + 1)
    BY <2>2
  <2>6. ASSUME NEW i \in 1..c[l] PROVE Item(o2, m2, e2, w2, l, i) = Item(o, m, e, w, l, i)
    <3>1. o2[l][i] = o[l][i] /\ o2[l][i + 1] = o[l][i + 1]
      BY <2>3, <2>5
    <3> QED BY <3>1, <2>1, <2>4, <1>0 DEF Item
  <2>7. w2[l] = w[l]
    <3>1. /\ w[l] = [i \in 1..c[l] |-> Item(o, m, e, w, l, i)]
          /\ w2[l] = [i \in 1..c[l] |-> Item(o2, m2, e2, w2, l, i)]
      BY <1>0, <1>1
    <3> QED BY <2>6, <3>1
  <2> QED BY <2>7, <1>0
<1>5. 1..Leaf \subseteq P
  <2> HIDE DEF P
  <2> QED BY <1>3, <1>4, LevelsUp
<1>6. w2 = w
  BY <1>2, <1>5
<1> QED BY <1>6 DEF w, w2

\* The committed rows, of what is described.
LEMMA CommittedIs ==
  ASSUME NEW c, Describes(offs, mask, leaf, nrows, c)
  PROVE  Committed = Whole(offs, mask, leaf, c)[1]
<1>1. 1 \in 1..Leaf /\ c[1] = nrows
  BY ListAssumption DEF Leaf, Describes
<1>2. Committed = Reader(offs, mask, leaf)[1][0][nrows]
  BY ReadIsReader DEF Committed
<1> QED BY <1>1, <1>2 DEF Whole

\* The same after a step.
LEMMA CommittedIsNext ==
  ASSUME NEW c, Describes(offs', mask', leaf', nrows', c)
  PROVE  Committed' = Whole(offs', mask', leaf', c)[1]
<1>1. 1 \in 1..Leaf /\ c[1] = nrows'
  BY ListAssumption DEF Leaf, Describes
<1>2. Committed' = Reader(offs', mask', leaf')[1][0][nrows']
  BY ReadIsReader DEF Committed
<1> QED BY <1>1, <1>2 DEF Whole

Files == Sets(offs, mask, leaf)

\* Slices of the committed rows, of what is described.
LEMMA InvSliceReads == ASSUME Files, CommittedFit, nrows \in Nat PROVE SliceReads
<1> DEFINE c == Starts
<1>1. Describes(offs, mask, leaf, nrows, c)
  BY DEF CommittedFit
<1>2. 1 \in 1..Leaf /\ c[1] = nrows
  BY <1>1, ListAssumption DEF Leaf, Describes
<1> HIDE DEF c
<1>3. ASSUME NEW s \in 0..nrows, NEW n \in 0..(nrows - s)
      PROVE  Read(1, s, n) = SubSeq(Read(1, 0, nrows), s + 1, s + n)
  <2>1. s \in Nat /\ n \in Nat /\ s + n <= c[1]
    BY <1>2
  <2>2. Reader(offs, mask, leaf)[1][s][n] = SubSeq(Whole(offs, mask, leaf, c)[1], s + 1, s + n)
    BY <1>1, <1>2, <2>1, RangeOfWhole DEF Files
  <2>3. Read(1, 0, nrows) = Whole(offs, mask, leaf, c)[1]
    BY <1>1, CommittedIs DEF Committed
  <2>4. Read(1, s, n) = Reader(offs, mask, leaf)[1][s][n]
    BY ReadIsReader
  <2> QED BY <2>2, <2>3, <2>4
<1> QED BY <1>3 DEF SliceReads

\* What Arrow reads from an export is what the levels read.
LEMMA ArrowWhole ==
  ASSUME Files, NEW c, Describes(offs, mask, leaf, nrows, c), c = Starts
  PROVE  LET array == list_array(nrows)
         IN  /\ \A l \in Level : /\ array[l].count = c[l]
                                 /\ array[l].offsets = [i \in 1..(c[l] + 1) |-> offs[l][i]]
             /\ array[Leaf].count = c[Leaf] /\ array[Leaf].elements = Whole(offs, mask, leaf, c)[Leaf]
             /\ ArrowRows(array) = Whole(offs, mask, leaf, c)[1]
<1> DEFINE array == list_array(nrows)
           w == Whole(offs, mask, leaf, c)
<1>0. /\ Leaf \in 1..Leaf /\ 1 \in 1..Leaf /\ \A l \in Level : l \in 1..Leaf /\ l + 1 \in 1..Leaf /\ l # Leaf
      /\ \A l \in 1..Leaf : l = Leaf \/ l \in Level
      /\ c \in [1..Leaf -> Nat] /\ Len(leaf) >= c[Leaf] /\ Len(leaf) \in Nat
  BY ListAssumption, SetLengths DEF Describes, Leaf, Level, Files
<1>1. c = Counts(nrows)
  BY DEF Starts
<1>2. \A l \in 1..Leaf : w[l] = [i \in 1..c[l] |-> Item(offs, mask, leaf, w, l, i)]
  BY WholeItems DEF Files
<1>3. w = [l \in 1..Leaf |-> w[l]]
  BY DEF Whole
<1>4. array[Leaf] = [count |-> c[Leaf], elements |-> ReadLeaf(0, c[Leaf])]
  BY <1>0, <1>1 DEF list_array
<1>5. \A l \in Level : /\ array[l].count = c[l] /\ array[l].valid = mask_validity(l, c[l])
                       /\ array[l].offsets = offsets_buffer(l, c[l])
  <2> TAKE l \in Level
  <2>1. array[l] = [count |-> c[l], valid |-> mask_validity(l, c[l]), offsets |-> offsets_buffer(l, c[l])]
    BY <1>0, <1>1 DEF list_array
  <2> HIDE DEF array
  <2> QED BY <2>1
<1> HIDE DEF w, array
<1>6. array[Leaf].elements = w[Leaf]
  <2>1. ReadLeaf(0, c[Leaf]) = LeafSlice(leaf, 0, c[Leaf])
    BY DEF ReadLeaf, LeafSlice
  <2>2. LeafSlice(leaf, 0, c[Leaf]) = [i \in 1..c[Leaf] |-> Shown(leaf[0 + i])]
    <3>1. c[Leaf] \in Nat /\ 0 + c[Leaf] <= Len(leaf)
      BY <1>0
    <3> QED BY <3>1, <1>0, LeafSliceItems
  <2>3. \A i \in 1..c[Leaf] : 0 + i = i
    OBVIOUS
  <2>4. w[Leaf] = [i \in 1..c[Leaf] |-> Shown(leaf[i])]
    BY <1>0, <1>2 DEF Item
  <2>5. LeafSlice(leaf, 0, c[Leaf]) = w[Leaf]
    BY <2>2, <2>3, <2>4
  <2> QED BY <2>1, <2>5, <1>4
<1>7. ASSUME NEW l \in Level PROVE array[l].offsets = [i \in 1..(c[l] + 1) |-> offs[l][i]]
  <2>1. c[l] + 1 \in Nat /\ 0 <= c[l] + 1 /\ (c[l] + 1) - 0 = c[l] + 1
    BY <1>0
  <2> DEFINE s == offs[l]
             n == c[l] + 1
  <2> HIDE DEF s
  <2>2. SubSeq(s, 0 + 1, n) = [k \in 1..(n - 0) |-> s[0 + k]]
    BY <2>1, SliceIs
  <2>3. \A k \in 1..n : 0 + k = k
    OBVIOUS
  <2>4. SubSeq(s, 1, n) = [k \in 1..n |-> s[k]]
    BY <2>1, <2>2, <2>3
  <2>5. array[l].offsets = SubSeq(s, 1, n)
    <3>1. array[l].offsets = offsets_buffer(l, c[l])
      BY <1>5
    <3> QED BY <3>1 DEF offsets_buffer, s
  <2> QED BY <2>4, <2>5 DEF s
<1> DEFINE Body(v) == [l \in 1..Leaf |->
             IF l = Leaf THEN array[l].elements
             ELSE [i \in 1..array[l].count |->
                     IF ~array[l].valid[i] THEN Null
                     ELSE SubSeq(v[l + 1], array[l].offsets[i] + 1, array[l].offsets[i + 1])]]
<1>8. ASSUME NEW v, NEW l \in Level, v[l + 1] = w[l + 1] PROVE Body(v)[l] = w[l]
  <2>1. c[l] \in Nat /\ array[l].count = c[l] /\ l # Leaf /\ l \in 1..Leaf
    BY <1>0, <1>5
  <2>2. \A i \in 1..c[l] : /\ array[l].valid[i] = (l \in Nullable => mask[l][i])
                           /\ array[l].offsets[i] = offs[l][i] /\ array[l].offsets[i + 1] = offs[l][i + 1]
    <3>1. \A i \in 1..c[l] : array[l].valid[i] = (l \in Nullable => mask[l][i])
      <4>1. array[l].valid = [i \in 1..c[l] |-> l \in Nullable => mask[l][i]]
        BY <1>5 DEF mask_validity
      <4> QED BY <4>1
    <3>2. \A i \in 1..c[l] : i \in 1..(c[l] + 1) /\ i + 1 \in 1..(c[l] + 1)
      BY <2>1
    <3> QED BY <3>1, <3>2, <1>7
  <2>3. Body(v)[l] = [i \in 1..c[l] |->
                       IF ~array[l].valid[i] THEN Null
                       ELSE SubSeq(w[l + 1], array[l].offsets[i] + 1, array[l].offsets[i + 1])]
    BY <2>1, <1>8
  <2>4. \A i \in 1..c[l] : Item(offs, mask, leaf, w, l, i) =
                             IF ~array[l].valid[i] THEN Null
                             ELSE SubSeq(w[l + 1], array[l].offsets[i] + 1, array[l].offsets[i + 1])
    BY <2>1, <2>2 DEF Item
  <2>5. w[l] = [i \in 1..c[l] |-> Item(offs, mask, leaf, w, l, i)]
    BY <2>1, <1>2
  <2> QED BY <2>3, <2>4, <2>5
<1>9. \A v : Body(v)[Leaf] = w[Leaf]
  BY <1>0, <1>6
<1>10. w = Body(w)
  <2>1. \A l \in 1..Leaf : w[l] = Body(w)[l]
    <3> HIDE DEF Body
    <3> QED BY <1>0, <1>8, <1>9
  <2>2. Body(w) = [l \in 1..Leaf |-> Body(w)[l]]
    OBVIOUS
  <2> HIDE DEF Body
  <2> QED BY <2>1, <2>2, <1>3
<1> DEFINE values == CHOOSE v : v = Body(v)
<1>11. values = Body(values)
  <2> HIDE DEF Body
  <2> QED BY <1>10
<1>12. ArrowRows(array) = values[1]
  BY DEF ArrowRows
<1> HIDE DEF values
<1> DEFINE P == {l \in 1..Leaf : values[l] = w[l]}
<1>13. 1..Leaf \subseteq P
  <2> HIDE DEF Body
  <2>1. Leaf \in P
    BY <1>0, <1>9, <1>11
  <2>2. ASSUME NEW l \in Level, l + 1 \in P PROVE l \in P
    BY <2>2, <1>0, <1>8, <1>11
  <2> HIDE DEF P
  <2> QED BY <2>1, <2>2, LevelsUp
<1>14. ArrowRows(array) = w[1]
  BY <1>0, <1>12, <1>13
<1>15. array[Leaf].count = c[Leaf]
  BY <1>4
<1>16. /\ \A l \in Level : /\ array[l].count = c[l]
                           /\ array[l].offsets = [i \in 1..(c[l] + 1) |-> offs[l][i]]
       /\ array[Leaf].count = c[Leaf] /\ array[Leaf].elements = w[Leaf]
       /\ ArrowRows(array) = w[1]
  BY <1>5, <1>6, <1>7, <1>14, <1>15
<1> QED BY <1>16 DEF array, w

\* The export of the committed rows, of what is described.
LEMMA InvExports == ASSUME Files, CommittedFit PROVE ExportsCommitted
<1> DEFINE c == Starts
           array == list_array(nrows)
<1>1. Describes(offs, mask, leaf, nrows, c)
  BY DEF CommittedFit
<1>2. c = Starts
  OBVIOUS
<1>3. /\ Leaf \in 1..Leaf /\ \A l \in Level : l \in 1..Leaf /\ l + 1 \in 1..Leaf
      /\ \A l \in Level : l + 1 = Leaf \/ l + 1 \in Level
  BY ListAssumption DEF Leaf, Level
<1> HIDE DEF c
<1>4. /\ \A l \in Level : /\ array[l].count = c[l]
                          /\ array[l].offsets = [i \in 1..(c[l] + 1) |-> offs[l][i]]
      /\ array[Leaf].count = c[Leaf] /\ array[Leaf].elements = Whole(offs, mask, leaf, c)[Leaf]
      /\ ArrowRows(array) = Whole(offs, mask, leaf, c)[1]
  BY <1>1, <1>2, ArrowWhole
<1> HIDE DEF array
<1>5. ASSUME NEW l \in Level
      PROVE  /\ offsets_accepted(array[l].offsets, array[l].count)
             /\ array[l].offsets[array[l].count + 1] <= array[l + 1].count
  <2>1. /\ c[l] \in Nat /\ c[l + 1] \in Nat /\ c[l + 1] = offs[l][c[l] + 1]
        /\ offs[l][1] = 0 /\ \A i \in 1..c[l] : offs[l][i] <= offs[l][i + 1]
    BY <1>1, <1>3 DEF Describes
  <2>2. array[l + 1].count = c[l + 1]
    BY <1>3, <1>4
  <2> DEFINE a == array[l].offsets
  <2>3. a = [i \in 1..(c[l] + 1) |-> offs[l][i]] /\ array[l].count = c[l]
    BY <1>4
  <2> HIDE DEF a
  <2>4. Len(a) = c[l] + 1
    BY <2>1, <2>3
  <2>5. a[1] = 0 /\ a[c[l] + 1] = c[l + 1]
    BY <2>1, <2>3
  <2>6. \A i \in 1..c[l] : a[i] <= a[i + 1]
    <3>1. \A i \in 1..c[l] : i \in 1..(c[l] + 1) /\ i + 1 \in 1..(c[l] + 1)
      BY <2>1
    <3> QED BY <3>1, <2>1, <2>3
  <2>7. offsets_accepted(a, c[l])
    BY <2>4, <2>5, <2>6 DEF offsets_accepted
  <2> QED BY <2>1, <2>2, <2>3, <2>5, <2>7 DEF a
<1>6. Len(array[Leaf].elements) = array[Leaf].count
  <2>1. c[Leaf] \in Nat /\ Whole(offs, mask, leaf, c)[Leaf]
          = [i \in 1..c[Leaf] |-> Item(offs, mask, leaf, Whole(offs, mask, leaf, c), Leaf, i)]
    BY <1>1, <1>3, WholeItems DEF Files
  <2> QED BY <2>1, <1>4
<1>7. ArrowRows(array) = Committed
  BY <1>1, <1>4, CommittedIs
<1> QED BY <1>5, <1>6, <1>7 DEF ExportsCommitted, array

-----------------------------------------------------------------------------
(* The plan of an append.                                                  *)

\* What a running append writes, level by level.
LEMMA PlanFacts ==
  ASSUME CommittedFit, PlanFits, Appending
  PROVE  LET E == Entries(plan.rows)
         IN  /\ plan.rows \in Seq(Rows) /\ plan.n = nrows + Len(plan.rows) /\ plan.n \in 0..MaxRows
             /\ plan.start = Starts /\ Starts \in [1..Leaf -> Nat] /\ Starts[1] = nrows
             /\ plan.elems \in Seq(Entry[Leaf] \cup {Fill}) /\ Len(plan.elems) = Len(E[Leaf])
             /\ \A i \in 1..Len(E[Leaf]) :
                  plan.elems[i] = IF E[Leaf][i] = Null THEN Fill ELSE E[Leaf][i]
             /\ \A l \in Level :
                  /\ plan.counts[l] = CountsOf(E[l])
                  /\ plan.present[l] \in Seq(BOOLEAN) /\ Len(plan.present[l]) = Len(E[l])
                  /\ \A i \in 1..Len(E[l]) : plan.present[l][i] = (E[l][i] # Null)
<1> DEFINE rows == plan.rows
           E == Entries(rows)
<1>1. /\ rows \in Seq(Rows) \ {<<>>} /\ plan = Plan(rows) /\ plan.n <= MaxRows
      /\ nrows \in Nat /\ MaxRows \in Nat
  <2>1. Starts \in [1..Leaf -> Nat] /\ Starts[1] = nrows
    BY DEF CommittedFit, Describes
  <2>2. 1 \in 1..Leaf
    BY ListAssumption DEF Leaf
  <2> QED BY <2>1, <2>2, ListAssumption DEF PlanFits
<1> HIDE DEF rows
<1>2. /\ plan.n = nrows + Len(rows) /\ plan.start = Starts
      /\ plan.counts = [l \in Level |-> [i \in DOMAIN E[l] |-> Len(Elements(E[l][i]))]]
      /\ plan.present = [l \in Level |-> [i \in DOMAIN E[l] |-> E[l][i] # Null]]
      /\ plan.elems = [i \in DOMAIN E[Leaf] |-> IF E[Leaf][i] = Null THEN Fill ELSE E[Leaf][i]]
  BY <1>1 DEF Plan
<1>3. plan.n \in 0..MaxRows
  BY <1>1, <1>2, LenProperties
<1>4. Starts \in [1..Leaf -> Nat] /\ Starts[1] = nrows
  BY DEF CommittedFit, Describes
<1>5. /\ E[Leaf] \in Seq(Entry[Leaf]) /\ \A l \in Level : E[l] \in Seq(Entry[l])
  <2>1. Leaf \in 1..Leaf /\ \A l \in Level : l \in 1..Leaf
    BY ListAssumption DEF Leaf, Level
  <2> QED BY <1>1, <2>1, EntriesOfRows
<1> HIDE DEF E
<1>6. /\ plan.elems \in Seq(Entry[Leaf] \cup {Fill}) /\ Len(plan.elems) = Len(E[Leaf])
      /\ \A i \in 1..Len(E[Leaf]) :
           plan.elems[i] = IF E[Leaf][i] = Null THEN Fill ELSE E[Leaf][i]
  <2>1. Len(E[Leaf]) \in Nat /\ DOMAIN E[Leaf] = 1..Len(E[Leaf]) /\ \A i \in 1..Len(E[Leaf]) : E[Leaf][i] \in Entry[Leaf]
    BY <1>5, LenProperties, ElementOfSeq
  <2>2. plan.elems = [i \in 1..Len(E[Leaf]) |-> IF E[Leaf][i] = Null THEN Fill ELSE E[Leaf][i]]
    BY <1>2, <2>1
  <2>3. \A i \in 1..Len(E[Leaf]) : (IF E[Leaf][i] = Null THEN Fill ELSE E[Leaf][i]) \in Entry[Leaf] \cup {Fill}
    BY <2>1
  <2> QED BY <2>1, <2>2, <2>3
<1>7. ASSUME NEW l \in Level
      PROVE  /\ plan.counts[l] = CountsOf(E[l])
             /\ plan.present[l] \in Seq(BOOLEAN) /\ Len(plan.present[l]) = Len(E[l])
             /\ \A i \in 1..Len(E[l]) : plan.present[l][i] = (E[l][i] # Null)
  <2>1. Len(E[l]) \in Nat /\ DOMAIN E[l] = 1..Len(E[l])
    BY <1>5, LenProperties
  <2>2. plan.counts[l] = CountsOf(E[l])
    BY <1>2 DEF CountsOf
  <2>3. plan.present[l] = [i \in 1..Len(E[l]) |-> E[l][i] # Null]
    BY <1>2, <2>1
  <2> QED BY <2>1, <2>2, <2>3
<1> QED BY <1>1, <1>2, <1>3, <1>4, <1>6, <1>7 DEF E, rows

\* The running sums of the new entries of a level.
SumsTo(l, es, below, sum) ==
  /\ sum \in [0..Len(es) -> Nat] /\ sum[0] = Starts[l + 1]
  /\ \A i \in 1..Len(es) : sum[i] = sum[i - 1] + Len(Elements(es[i]))
  /\ Sums(l) = [i \in 1..Len(es) |-> sum[i]]
  /\ Placed(Inside(es), Starts[l + 1], sum, below, Len(es))

\* The new offsets of a level are where its entries' elements are placed.
LEMMA SumsFacts ==
  ASSUME CommittedFit, PlanFits, Appending, NEW l \in Level
  PROVE  LET E == Entries(plan.rows)
         IN  /\ E[l] \in Seq(Entry[l]) /\ Len(E[l]) \in Nat /\ Len(E[l + 1]) \in Nat
             /\ Sums(l) \in Seq(Nat) /\ Len(Sums(l)) = Len(E[l]) /\ Len(plan.counts[l]) = Len(E[l])
             /\ \E sum : SumsTo(l, E[l], E[l + 1], sum)
<1> DEFINE E == Entries(plan.rows)
           es == E[l]
           n  == Len(es)
<1>1. /\ plan.rows \in Seq(Rows) /\ plan.start = Starts /\ Starts[l + 1] \in Nat
      /\ plan.counts[l] = CountsOf(es)
  <2>1. l + 1 \in 1..Leaf
    BY ListAssumption DEF Leaf, Level
  <2> QED BY <2>1, PlanFacts
<1>2. /\ es \in Seq(Entry[l]) /\ n \in Nat /\ E[l + 1] \in Seq(Entry[l + 1])
      /\ CountsOf(es) \in Seq(Nat) /\ Len(CountsOf(es)) = n
      /\ \E sum \in [0..n -> Nat] :
           /\ sum[0] = Starts[l + 1]
           /\ \A i \in 1..n : sum[i] = sum[i - 1] + CountsOf(es)[i]
           /\ Running(Starts[l + 1], CountsOf(es)) = [i \in 1..n |-> sum[i]]
           /\ Placed(Inside(es), Starts[l + 1], sum, E[l + 1], n)
  BY <1>1, LevelSums
<1> HIDE DEF E, es
<1>3. PICK sum \in [0..n -> Nat] :
           /\ sum[0] = Starts[l + 1]
           /\ \A i \in 1..n : sum[i] = sum[i - 1] + CountsOf(es)[i]
           /\ Running(Starts[l + 1], CountsOf(es)) = [i \in 1..n |-> sum[i]]
           /\ Placed(Inside(es), Starts[l + 1], sum, E[l + 1], n)
  BY <1>2
<1>4. Sums(l) = [i \in 1..n |-> sum[i]]
  BY <1>1, <1>3 DEF Sums
<1>5. \A i \in 1..n : CountsOf(es)[i] = Len(Elements(es[i]))
  <2>1. DOMAIN es = 1..n
    BY <1>2, LenProperties
  <2> QED BY <2>1 DEF CountsOf
<1>6. Sums(l) \in Seq(Nat) /\ Len(Sums(l)) = n
  <2>1. n \in Nat
    BY <1>2
  <2>2. sum \in [0..n -> Nat]
    BY <1>3
  <2> HIDE DEF n
  <2>3. \A i \in 1..n : sum[i] \in Nat
    BY <2>1, <2>2
  <2> QED BY <2>1, <2>3, <1>4
<1>7. SumsTo(l, es, E[l + 1], sum)
  BY <1>3, <1>4, <1>5 DEF SumsTo
<1>8. Len(E[l + 1]) \in Nat /\ Len(plan.counts[l]) = n
  BY <1>1, <1>2, LenProperties
<1> QED BY <1>2, <1>6, <1>7, <1>8 DEF E, es

\* Once every level is written, the committed and the new entries of every
\* level are described together.
Grown == [l \in 1..Leaf |-> Starts[l] + Len(Entries(plan.rows)[l])]

\* A level written whole is described with its new entries.
LEMMA GrownLevel ==
  ASSUME TypeOK, CommittedFit, PlanFits, Appending, NEW l \in Level, MaskDone(l), OffsetsDone(l)
  PROVE  /\ Len(offs[l]) >= Grown[l] + 1 /\ offs[l][1] = 0
         /\ Grown[l + 1] = offs[l][Grown[l] + 1]
         /\ \A i \in 1..Grown[l] : offs[l][i] <= offs[l][i + 1]
         /\ l \in Nullable => /\ Len(mask[l]) >= Grown[l]
                              /\ \A i \in 1..Grown[l] : ~mask[l][i] => offs[l][i] = offs[l][i + 1]
<1> DEFINE E == Entries(plan.rows)
           n == Len(E[l])
           c == Starts[l]
<1>1. /\ l \in 1..Leaf /\ l + 1 \in 1..Leaf
  BY ListAssumption DEF Leaf, Level
<1>2. /\ c \in Nat /\ Starts[l + 1] \in Nat
      /\ Len(offs[l]) >= c + 1 /\ offs[l][1] = 0 /\ Starts[l + 1] = offs[l][c + 1]
      /\ \A i \in 1..c : offs[l][i] <= offs[l][i + 1]
      /\ l \in Nullable => /\ Len(mask[l]) >= c
                           /\ \A i \in 1..c : ~mask[l][i] => offs[l][i] = offs[l][i + 1]
  BY <1>1 DEF CommittedFit, Describes
<1>3. n \in Nat /\ E[l] \in Seq(Entry[l]) /\ Len(E[l + 1]) \in Nat /\ Len(Sums(l)) = n
  BY SumsFacts
<1>4. PICK sum : SumsTo(l, E[l], E[l + 1], sum)
  BY SumsFacts
<1>5. /\ plan.start = Starts /\ plan.present[l] \in Seq(BOOLEAN) /\ Len(plan.present[l]) = n
      /\ \A i \in 1..n : plan.present[l][i] = (E[l][i] # Null)
  BY PlanFacts
<1>6. Grown[l] = c + n /\ Grown[l + 1] = Starts[l + 1] + Len(E[l + 1])
  BY <1>1 DEF Grown
<1> HIDE DEF E, n, c, Grown
<1>7. /\ \A i \in 0..n : sum[i] \in Nat
      /\ sum[0] = Starts[l + 1] /\ \A i \in 1..n : sum[i] = sum[i - 1] + Len(Elements(E[l][i]))
      /\ \A i \in 1..n : Sums(l)[i] = sum[i]
      /\ DOMAIN Sums(l) = 1..n
  BY <1>3, <1>4 DEF SumsTo, n
<1>8. Len(E[l + 1]) = sum[n] - Starts[l + 1]
  BY <1>4 DEF SumsTo, Placed, n
<1>9. Len(offs[l]) >= (c + 1) + n
  BY <1>3, <1>5 DEF OffsetsDone, Holds, Behind, c
<1>10. \A j \in 0..n : offs[l][c + 1 + j] = sum[j]
  <2>1. ASSUME NEW j \in 1..n PROVE offs[l][(c + 1) + j] = sum[j]
    BY <1>5, <1>7 DEF OffsetsDone, Holds, c
  <2>2. offs[l][c + 1 + 0] = sum[0]
    BY <1>2, <1>7
  <2> QED BY <2>1, <2>2, <1>2, <1>3
<1>11. Len(offs[l]) >= Grown[l] + 1 /\ Grown[l + 1] = offs[l][Grown[l] + 1]
  <2>1. Grown[l] + 1 = c + 1 + n /\ n \in 0..n
    BY <1>2, <1>3, <1>6
  <2>2. offs[l][Grown[l] + 1] = sum[n]
    BY <1>10, <2>1
  <2>3. Len(offs[l]) \in Nat
    BY LenProperties DEF TypeOK
  <2> QED BY <2>1, <2>2, <2>3, <1>2, <1>3, <1>6, <1>7, <1>8, <1>9
<1>12. ASSUME NEW i \in 1..Grown[l], ~(i <= c)
       PROVE  /\ i - c \in 1..n
              /\ offs[l][i] = sum[(i - c) - 1] /\ offs[l][i + 1] = sum[i - c]
  <2>1. /\ i - c \in 1..n /\ (i - c) - 1 \in 0..n /\ i - c \in 0..n
        /\ c + 1 + ((i - c) - 1) = i /\ c + 1 + (i - c) = i + 1
    BY <1>2, <1>3, <1>6, <1>12
  <2> QED BY <2>1, <1>10
<1>13. \A k \in 1..n : /\ Len(Elements(E[l][k])) \in Nat
                       /\ sum[k - 1] <= sum[k]
                       /\ E[l][k] = Null => sum[k - 1] = sum[k]
  <2> TAKE k \in 1..n
  <2>1. Len(Elements(E[l][k])) \in Nat
    BY <1>3, InsideEntries DEF n
  <2>2. sum[k - 1] \in Nat /\ sum[k] \in Nat /\ sum[k] = sum[k - 1] + Len(Elements(E[l][k]))
    BY <1>3, <1>7
  <2>3. E[l][k] = Null => Len(Elements(E[l][k])) = 0
    BY DEF Elements
  <2> QED BY <2>1, <2>2, <2>3
<1>14. \A i \in 1..Grown[l] : offs[l][i] <= offs[l][i + 1]
  <2> TAKE i \in 1..Grown[l]
  <2>1. CASE i <= c
    BY <2>1, <1>2
  <2>2. CASE ~(i <= c)
    BY <2>2, <1>12, <1>13
  <2> QED BY <2>1, <2>2
<1>15. ASSUME l \in Nullable
       PROVE  /\ Len(mask[l]) >= Grown[l]
              /\ \A i \in 1..Grown[l] : ~mask[l][i] => offs[l][i] = offs[l][i + 1]
  <2>1. Len(mask[l]) >= c + n /\ \A k \in 1..n : mask[l][c + k] = plan.present[l][k]
    <3>1. DOMAIN plan.present[l] = 1..n
      BY <1>5, LenProperties
    <3> QED BY <3>1, <1>5, <1>15 DEF MaskDone, Holds, Behind, c
  <2>2. ASSUME NEW i \in 1..Grown[l], ~mask[l][i] PROVE offs[l][i] = offs[l][i + 1]
    <3>1. CASE i <= c
      BY <3>1, <2>2, <1>2, <1>15
    <3>2. CASE ~(i <= c)
      <4>1. i - c \in 1..n /\ c + (i - c) = i
        BY <3>2, <1>12, <1>2
      <4>2. mask[l][i] = plan.present[l][i - c]
        BY <4>1, <2>1
      <4>3. E[l][i - c] = Null
        BY <4>1, <4>2, <2>2, <1>5
      <4> QED BY <4>1, <4>3, <3>2, <1>12, <1>13
    <3> QED BY <3>1, <3>2
  <2> QED BY <2>1, <2>2, <1>6
<1> QED BY <1>2, <1>11, <1>14, <1>15

\* Once every level is written, the committed and the new rows are described.
LEMMA GrownDescribed ==
  ASSUME TypeOK, CommittedFit, PlanFits, Appending,
         LeafDone, \A l \in Level : MaskDone(l) /\ OffsetsDone(l)
  PROVE  Describes(offs, mask, leaf, plan.n, Grown)
<1> DEFINE E == Entries(plan.rows)
<1>1. 1 \in 1..Leaf /\ Leaf \in 1..Leaf
  BY ListAssumption DEF Leaf
<1>2. /\ plan.rows \in Seq(Rows) /\ plan.n = nrows + Len(plan.rows)
      /\ plan.start = Starts /\ Starts \in [1..Leaf -> Nat] /\ Starts[1] = nrows
      /\ Len(plan.elems) = Len(E[Leaf])
  BY PlanFacts
<1>3. E[1] = plan.rows /\ \A l \in 1..Leaf : E[l] \in Seq(Entry[l])
  BY <1>2, EntriesOfRows
<1> HIDE DEF E
<1>4. Grown = [l \in 1..Leaf |-> Starts[l] + Len(E[l])]
  BY DEF Grown, E
<1>5. Grown \in [1..Leaf -> Nat] /\ Grown[1] = plan.n
  <2>1. \A l \in 1..Leaf : Len(E[l]) \in Nat
    BY <1>3, LenProperties
  <2> QED BY <2>1, <1>1, <1>2, <1>3, <1>4
<1>6. Len(leaf) >= Grown[Leaf]
  BY <1>1, <1>2, <1>4 DEF LeafDone, Holds, Behind
<1> QED BY <1>5, <1>6, GrownLevel DEF Describes

\* Concatenation, without the set the elements are in.
LEMMA JoinIs ==
  ASSUME NEW n \in Nat, NEW k \in Nat, NEW s, NEW t, s = [i \in 1..n |-> s[i]], t = [i \in 1..k |-> t[i]]
  PROVE  s \o t = [i \in 1..(n + k) |-> IF i <= n THEN s[i] ELSE t[i - n]]
<1> DEFINE S == {s[i] : i \in 1..n} \cup {t[i] : i \in 1..k}
<1>1. s \in [1..n -> S] /\ t \in [1..k -> S]
  OBVIOUS
<1> HIDE DEF S
<1>2. s \in Seq(S) /\ Len(s) = n /\ t \in Seq(S) /\ Len(t) = k
  BY <1>1
<1>3. /\ s \o t \in Seq(S) /\ Len(s \o t) = n + k
      /\ \A i \in 1..(n + k) : (s \o t)[i] = IF i <= n THEN s[i] ELSE t[i - n]
  BY <1>2, ConcatProperties
<1>4. s \o t = [i \in 1..(n + k) |-> (s \o t)[i]]
  BY <1>3, LenProperties
<1> QED BY <1>3, <1>4

\* A sequence is the function of its elements.
LEMMA SeqIs == ASSUME NEW S, NEW s \in Seq(S) PROVE s = [i \in 1..Len(s) |-> s[i]]
BY LenProperties

\* Once every level is written, the grown levels read the committed entries and
\* then the new ones.
Joined(l) == Whole(offs, mask, leaf, Grown)[l] = Whole(offs, mask, leaf, Starts)[l] \o Entries(plan.rows)[l]

\* Of a level, given the level below.
LEMMA JoinedLevel ==
  ASSUME TypeOK, Files, CommittedFit, PlanFits, Appending, NEW l \in Level,
         LeafDone, \A k \in Level : MaskDone(k) /\ OffsetsDone(k), Joined(l + 1)
  PROVE  Joined(l)
<1> DEFINE E == Entries(plan.rows)
           c == Starts
           w == Whole(offs, mask, leaf, c)
           w2 == Whole(offs, mask, leaf, Grown)
           n == Len(E[l])
           k == Len(E[l + 1])
<1>1. Describes(offs, mask, leaf, nrows, c) /\ Describes(offs, mask, leaf, plan.n, Grown)
  BY GrownDescribed DEF CommittedFit
<1>2. /\ l \in 1..Leaf /\ l + 1 \in 1..Leaf /\ l # Leaf
      /\ c[l] \in Nat /\ c[l + 1] \in Nat
  BY <1>1, ListAssumption DEF Leaf, Level, Describes
<1>3. /\ E[l] \in Seq(Entry[l]) /\ E[l + 1] \in Seq(Entry[l + 1]) /\ n \in Nat /\ k \in Nat
  <2>1. plan.rows \in Seq(Rows)
    BY PlanFacts
  <2>2. E[l] \in Seq(Entry[l]) /\ E[l + 1] \in Seq(Entry[l + 1])
    BY <1>2, <2>1, EntriesOfRows
  <2> HIDE DEF E
  <2> QED BY <2>2, LenProperties
<1>4. PICK sum : SumsTo(l, E[l], E[l + 1], sum)
  BY SumsFacts
<1>5. Grown[l] = c[l] + n /\ Grown[l + 1] = c[l + 1] + k
  BY <1>2 DEF Grown
<1>6. /\ w[l] = [i \in 1..c[l] |-> Item(offs, mask, leaf, w, l, i)]
      /\ w[l + 1] = [i \in 1..c[l + 1] |-> Item(offs, mask, leaf, w, l + 1, i)]
  BY <1>1, <1>2, WholeItems DEF Files
<1>7. w2[l] = [i \in 1..Grown[l] |-> Item(offs, mask, leaf, w2, l, i)]
  BY <1>1, <1>2, WholeItems DEF Files
<1>8. w2[l + 1] = w[l + 1] \o E[l + 1]
  BY DEF Joined
<1>9. /\ \A i \in 1..c[l] : /\ offs[l][i] \in Nat /\ offs[l][i + 1] \in Nat
                           /\ offs[l][i] <= offs[l][i + 1] /\ offs[l][i + 1] <= c[l + 1]
      /\ offs[l][c[l] + 1] = c[l + 1]
  <2>1. /\ \A i \in 1..(c[l] + 1) : offs[l][i] \in Nat /\ offs[l][i] <= c[l + 1]
        /\ \A i, j \in 1..(c[l] + 1) : i <= j => offs[l][i] <= offs[l][j]
        /\ c[l + 1] = offs[l][c[l] + 1]
    BY <1>1, OffsetsAscend DEF Files
  <2>2. \A i \in 1..c[l] : i \in 1..(c[l] + 1) /\ i + 1 \in 1..(c[l] + 1) /\ i <= i + 1
    BY <1>2
  <2> QED BY <2>1, <2>2
<1>10. /\ plan.start = c /\ plan.present[l] \in Seq(BOOLEAN) /\ Len(plan.present[l]) = n
       /\ \A i \in 1..n : plan.present[l][i] = (E[l][i] # Null)
  BY PlanFacts
<1>11. l \notin Nullable => \A i \in 1..n : E[l][i] # Null
  <2>1. Encodable(plan.rows) /\ DOMAIN E[l] = 1..n
    BY <1>3, LenProperties DEF PlanFits
  <2> QED BY <2>1 DEF Encodable, Range
<1> HIDE DEF E, c, w, w2, k
<1>12. \A i \in 1..(c[l + 1] + k) : w2[l + 1][i] = IF i <= c[l + 1] THEN w[l + 1][i] ELSE E[l + 1][i - c[l + 1]]
  <2>1. w[l + 1] = [i \in 1..c[l + 1] |-> w[l + 1][i]]
    BY <1>6
  <2>2. E[l + 1] = [i \in 1..k |-> E[l + 1][i]]
    BY <1>3, SeqIs DEF k
  <2> DEFINE s == w[l + 1]
             t == E[l + 1]
             cc == c[l + 1]
  <2> HIDE DEF s, t, cc
  <2>3. s \o t = [i \in 1..(cc + k) |-> IF i <= cc THEN s[i] ELSE t[i - cc]]
    BY <2>1, <2>2, <1>2, <1>3, JoinIs DEF s, t, cc
  <2> QED BY <2>3, <1>8 DEF s, t, cc
<1>13. ASSUME NEW i \in 1..c[l] PROVE Item(offs, mask, leaf, w2, l, i) = Item(offs, mask, leaf, w, l, i)
  <2> DEFINE x == offs[l][i]
             y == offs[l][i + 1]
  <2>1. x \in Nat /\ y \in Nat /\ x <= y /\ y <= c[l + 1]
    BY <1>9
  <2> HIDE DEF x, y
  <2> DEFINE s == w[l + 1]
             s2 == w2[l + 1]
  <2>2. \A j \in 1..(y - x) : s2[x + j] = s[x + j]
    <3>1. \A j \in 1..(y - x) : x + j \in 1..(c[l + 1] + k) /\ x + j <= c[l + 1]
      BY <2>1, <1>2, <1>3 DEF k
    <3> QED BY <3>1, <1>12
  <2> HIDE DEF s, s2
  <2>3. SubSeq(s, x + 1, y) = [j \in 1..(y - x) |-> s[x + j]] /\ SubSeq(s2, x + 1, y) = [j \in 1..(y - x) |-> s2[x + j]]
    BY <2>1, SliceIs
  <2>4. SubSeq(s, x + 1, y) = SubSeq(s2, x + 1, y)
    BY <2>2, <2>3
  <2> QED BY <2>4, <1>2 DEF Item, s, s2, x, y
<1>14. /\ \A j \in 0..n : sum[j] \in Nat
       /\ \A i \in 1..n : /\ Sums(l)[i] = sum[i] /\ sum[i] = sum[i - 1] + Len(Elements(E[l][i]))
                          /\ c[l + 1] <= sum[i - 1] /\ sum[i] <= sum[n]
                          /\ \A j \in 1..Len(Elements(E[l][i])) :
                               E[l + 1][(sum[i - 1] - c[l + 1]) + j] = Elements(E[l][i])[j]
       /\ sum[0] = c[l + 1] /\ k = sum[n] - c[l + 1]
       /\ DOMAIN Sums(l) = 1..n
  <2>1. \A i \in 1..n : Inside(E[l])[i] = Elements(E[l][i])
    BY <1>3, InsideEntries
  <2>2. SumsTo(l, E[l], E[l + 1], sum) /\ c[l + 1] = Starts[l + 1]
    BY <1>4 DEF E, c
  <2> QED BY <2>1, <2>2 DEF SumsTo, Placed, k
<1>15. \A i \in 1..n : offs[l][c[l] + i] = sum[i - 1] /\ offs[l][c[l] + i + 1] = sum[i]
  <2>1. \A j \in 1..n : offs[l][(c[l] + 1) + j] = sum[j]
    BY <1>10, <1>14 DEF OffsetsDone, Holds
  <2> TAKE i \in 1..n
  <2>2. offs[l][c[l] + i + 1] = sum[i]
    <3>1. (c[l] + 1) + i = c[l] + i + 1
      BY <1>2
    <3> QED BY <2>1, <3>1
  <2>3. CASE i = 1
    BY <2>2, <2>3, <1>9, <1>14
  <2>4. CASE i # 1
    <3>1. i - 1 \in 1..n /\ (c[l] + 1) + (i - 1) = c[l] + i
      BY <2>4, <1>2, <1>3
    <3> QED BY <2>1, <2>2, <3>1
  <2> QED BY <2>3, <2>4
<1>16. ASSUME NEW i \in 1..n PROVE Item(offs, mask, leaf, w2, l, c[l] + i) = E[l][i]
  <2>1. l \in Nullable => mask[l][c[l] + i] = plan.present[l][i]
    <3>1. DOMAIN plan.present[l] = 1..n
      BY <1>10, LenProperties
    <3> QED BY <3>1, <1>10 DEF MaskDone, Holds
  <2>2. l \in Nullable => (~mask[l][c[l] + i] <=> E[l][i] = Null)
    BY <2>1, <1>10
  <2>3. CASE l \in Nullable /\ E[l][i] = Null
    BY <2>2, <2>3, <1>2 DEF Item
  <2>4. CASE ~(l \in Nullable /\ E[l][i] = Null)
    <3>1. E[l][i] # Null
      BY <2>4, <1>11
    <3>2. Item(offs, mask, leaf, w2, l, c[l] + i) = SubSeq(w2[l + 1], sum[i - 1] + 1, sum[i])
      BY <3>1, <2>2, <1>2, <1>15 DEF Item
    <3> DEFINE x == sum[i - 1]
               y == sum[i]
               entry == E[l][i]
               s2 == w2[l + 1]
    <3>3. entry = Elements(E[l][i])
      BY <3>1 DEF Elements
    <3>4. Len(entry) \in Nat /\ entry \in Seq(Entry[l + 1])
      <4>1. Elements(E[l][i]) \in Seq(Entry[l + 1])
        BY <1>3, InsideEntries
      <4> QED BY <4>1, <3>3, LenProperties
    <3>5. x \in Nat /\ y \in Nat /\ y = x + Len(entry) /\ c[l + 1] <= x /\ y <= c[l + 1] + k
      <4>1. i - 1 \in 0..n /\ i \in 0..n /\ n \in 0..n
        BY <1>3
      <4>2. x \in Nat /\ y \in Nat /\ sum[n] \in Nat
        BY <4>1, <1>14
      <4>3. y = x + Len(entry)
        BY <3>3, <1>14
      <4>4. c[l + 1] <= x /\ y <= sum[n] /\ k = sum[n] - c[l + 1]
        BY <1>14
      <4> HIDE DEF x, y, entry
      <4> QED BY <4>2, <4>3, <4>4, <1>2
    <3>6. \A j \in 1..Len(entry) : E[l + 1][(x - c[l + 1]) + j] = entry[j]
      BY <3>3, <1>14
    <3> HIDE DEF x, y, entry
    <3>7. ASSUME NEW j \in 1..(y - x) PROVE s2[x + j] = entry[j]
      <4>1. /\ x + j \in 1..(c[l + 1] + k) /\ ~(x + j <= c[l + 1])
            /\ (x + j) - c[l + 1] = (x - c[l + 1]) + j /\ j \in 1..Len(entry)
        BY <3>4, <3>5, <1>2, <1>3 DEF k
      <4> QED BY <4>1, <3>6, <1>12
    <3> HIDE DEF s2
    <3>8. SubSeq(s2, x + 1, y) = [j \in 1..(y - x) |-> s2[x + j]]
      <4>1. x <= y
        BY <3>4, <3>5
      <4> QED BY <4>1, <3>5, SliceIs
    <3>9. y - x = Len(entry)
      BY <3>4, <3>5
    <3>10. entry = [j \in 1..Len(entry) |-> entry[j]]
      BY <3>4, SeqIs
    <3>11. SubSeq(s2, x + 1, y) = entry
      BY <3>7, <3>8, <3>9, <3>10
    <3> QED BY <3>2, <3>11 DEF x, y, entry, s2
  <2> QED BY <2>3, <2>4
<1>17. w[l] \o E[l] = [i \in 1..(c[l] + n) |-> IF i <= c[l] THEN w[l][i] ELSE E[l][i - c[l]]]
  <2> DEFINE s == w[l]
             t == E[l]
             cc == c[l]
  <2>1. s = [i \in 1..cc |-> s[i]]
    BY <1>6
  <2>2. t = [i \in 1..n |-> t[i]]
    BY <1>3, SeqIs
  <2>3. cc \in Nat /\ n \in Nat
    BY <1>2, <1>3
  <2> HIDE DEF s, t, cc, n
  <2>4. s \o t = [i \in 1..(cc + n) |-> IF i <= cc THEN s[i] ELSE t[i - cc]]
    BY <2>1, <2>2, <2>3, JoinIs
  <2> QED BY <2>4 DEF s, t, cc
<1>18. ASSUME NEW i \in 1..(c[l] + n)
       PROVE  Item(offs, mask, leaf, w2, l, i) = IF i <= c[l] THEN w[l][i] ELSE E[l][i - c[l]]
  <2>1. CASE i <= c[l]
    <3>1. i \in 1..c[l]
      BY <2>1, <1>2
    <3> QED BY <2>1, <3>1, <1>6, <1>13
  <2>2. CASE ~(i <= c[l])
    <3>1. i - c[l] \in 1..n /\ c[l] + (i - c[l]) = i
      BY <2>2, <1>2, <1>3
    <3> QED BY <2>2, <3>1, <1>16
  <2> QED BY <2>1, <2>2
<1>19. w2[l] = w[l] \o E[l]
  <2> HIDE DEF n
  <2>1. w2[l] = [i \in 1..(c[l] + n) |-> Item(offs, mask, leaf, w2, l, i)]
    BY <1>5, <1>7
  <2> QED BY <2>1, <1>17, <1>18
<1> QED BY <1>19 DEF Joined, E, c, w, w2

\* Of every level, from the leaf up.
LEMMA GrownJoined ==
  ASSUME TypeOK, Files, CommittedFit, PlanFits, Appending,
         LeafDone, \A k \in Level : MaskDone(k) /\ OffsetsDone(k)
  PROVE  \A l \in 1..Leaf : Joined(l)
<1> DEFINE E == Entries(plan.rows)
           c == Starts
           w == Whole(offs, mask, leaf, c)
           w2 == Whole(offs, mask, leaf, Grown)
           n == Len(E[Leaf])
           P == {l \in 1..Leaf : Joined(l)}
<1>1. Describes(offs, mask, leaf, nrows, c) /\ Describes(offs, mask, leaf, plan.n, Grown)
  BY GrownDescribed DEF CommittedFit
<1>2. Leaf \in 1..Leaf /\ c[Leaf] \in Nat /\ \A l \in Level : l \in 1..Leaf
  BY <1>1, ListAssumption DEF Leaf, Describes, Level
<1>3. /\ plan.rows \in Seq(Rows) /\ plan.start = c /\ Len(plan.elems) = n
      /\ plan.elems \in Seq(Entry[Leaf] \cup {Fill})
      /\ \A i \in 1..n : plan.elems[i] = IF E[Leaf][i] = Null THEN Fill ELSE E[Leaf][i]
  BY PlanFacts
<1>4. E[Leaf] \in Seq(Entry[Leaf]) /\ n \in Nat
  <2>1. E[Leaf] \in Seq(Entry[Leaf])
    BY <1>2, <1>3, EntriesOfRows
  <2> HIDE DEF E
  <2> QED BY <2>1, LenProperties
<1>5. Grown[Leaf] = c[Leaf] + n
  BY <1>2 DEF Grown
<1>6. /\ w[Leaf] = [i \in 1..c[Leaf] |-> Item(offs, mask, leaf, w, Leaf, i)]
      /\ w2[Leaf] = [i \in 1..Grown[Leaf] |-> Item(offs, mask, leaf, w2, Leaf, i)]
  BY <1>1, <1>2, WholeItems DEF Files
<1>7. Encodable(plan.rows)
  BY DEF PlanFits
<1>8. DOMAIN E[Leaf] = 1..n /\ \A i \in 1..n : E[Leaf][i] \in Entry[Leaf]
  BY <1>4, LenProperties, ElementOfSeq
<1>9. LeafFill \/ \A i \in 1..n : E[Leaf][i] # Null
  BY <1>7, <1>8 DEF Encodable, Range
<1> HIDE DEF E, c, w, w2, n
<1>10. ASSUME NEW i \in 1..n PROVE Shown(leaf[c[Leaf] + i]) = E[Leaf][i]
  <2>1. leaf[c[Leaf] + i] = plan.elems[i]
    <3>1. DOMAIN plan.elems = 1..n
      BY <1>3, LenProperties
    <3> QED BY <3>1, <1>3 DEF LeafDone, Holds
  <2>2. LeafFill => E[Leaf][i] # Fill
    BY <1>8, ListAssumption
  <2> QED BY <2>1, <2>2, <1>3, <1>9 DEF Shown
<1>11. w[Leaf] \o E[Leaf] = [i \in 1..(c[Leaf] + n) |-> IF i <= c[Leaf] THEN w[Leaf][i] ELSE E[Leaf][i - c[Leaf]]]
  <2> DEFINE s == w[Leaf]
             t == E[Leaf]
             cc == c[Leaf]
  <2>1. s = [i \in 1..cc |-> s[i]]
    BY <1>6
  <2>2. t = [i \in 1..n |-> t[i]]
    BY <1>4, SeqIs DEF n
  <2>3. cc \in Nat /\ n \in Nat
    BY <1>2, <1>4
  <2> HIDE DEF s, t, cc
  <2>4. s \o t = [i \in 1..(cc + n) |-> IF i <= cc THEN s[i] ELSE t[i - cc]]
    BY <2>1, <2>2, <2>3, JoinIs
  <2> QED BY <2>4 DEF s, t, cc
<1>12. ASSUME NEW i \in 1..(c[Leaf] + n)
       PROVE  Item(offs, mask, leaf, w2, Leaf, i) = IF i <= c[Leaf] THEN w[Leaf][i] ELSE E[Leaf][i - c[Leaf]]
  <2>1. CASE i <= c[Leaf]
    <3>1. i \in 1..c[Leaf]
      BY <2>1, <1>2
    <3>2. w[Leaf][i] = Item(offs, mask, leaf, w, Leaf, i)
      BY <3>1, <1>6
    <3> QED BY <2>1, <3>2 DEF Item
  <2>2. CASE ~(i <= c[Leaf])
    <3>1. i - c[Leaf] \in 1..n /\ c[Leaf] + (i - c[Leaf]) = i
      BY <2>2, <1>2, <1>4
    <3> QED BY <2>2, <3>1, <1>10 DEF Item
  <2> QED BY <2>1, <2>2
<1>13. w2[Leaf] = w[Leaf] \o E[Leaf]
  <2>1. w2[Leaf] = [i \in 1..(c[Leaf] + n) |-> Item(offs, mask, leaf, w2, Leaf, i)]
    BY <1>5, <1>6
  <2> QED BY <2>1, <1>11, <1>12
<1>14. Joined(Leaf)
  BY <1>13 DEF Joined, E, c, w, w2
<1>15. Leaf \in P
  BY <1>2, <1>14
<1>16. ASSUME NEW l \in Level, l + 1 \in P PROVE l \in P
  <2>1. Joined(l + 1)
    BY <1>16
  <2>2. Joined(l)
    BY <2>1, JoinedLevel
  <2> QED BY <2>2, <1>2
<1>17. 1..Leaf \subseteq P
  <2> HIDE DEF P
  <2> QED BY <1>15, <1>16, LevelsUp
<1> QED BY <1>17

-----------------------------------------------------------------------------
(* The inductive invariant.                                                *)

\* The committed rows stay as they are when what follows them changes.
LEMMA CommittedKept ==
  ASSUME Files, Files', CommittedFit, nrows' = nrows,
         \A l \in Level : Keeps(offs'[l], offs[l], Starts[l] + 1) /\ Keeps(mask'[l], mask[l], Starts[l]),
         Keeps(leaf', leaf, Starts[Leaf])
  PROVE  CommittedFit' /\ Starts' = Starts /\ Committed' = Committed
<1>0. Sets(offs, mask, leaf) /\ Sets(offs', mask', leaf')
  BY DEF Files
<1>1. /\ \A l \in Level : /\ Len(offs[l]) \in Nat /\ Len(offs'[l]) \in Nat
                          /\ Len(mask[l]) \in Nat /\ Len(mask'[l]) \in Nat
      /\ Len(leaf) \in Nat /\ Len(leaf') \in Nat /\ Len(leaf') >= Len(leaf)
  BY <1>0, SetLengths DEF Keeps
<1>2. Describes(offs, mask, leaf, nrows, Starts)
  BY DEF CommittedFit
<1> DEFINE c == Starts
<1>3. Describes(offs', mask', leaf', nrows, c)
  <2> HIDE DEF c
  <2>1. /\ Describes(offs, mask, leaf, nrows, c)
        /\ \A l \in Level : Keeps(offs'[l], offs[l], c[l] + 1) /\ Keeps(mask'[l], mask[l], c[l])
    BY <1>2 DEF c
  <2> QED BY <1>1, <2>1, DescribesKept
<1>4. c = Reach(offs', nrows)
  <2> HIDE DEF c
  <2> QED BY <1>3, DescribesCounts
<1>5. Starts' = Starts
  BY <1>4, StartsReach
<1>6. Committed' = Committed
  <2> HIDE DEF c
  <2>1. /\ Describes(offs, mask, leaf, nrows, c)
        /\ \A l \in Level : Keeps(offs'[l], offs[l], c[l] + 1) /\ Keeps(mask'[l], mask[l], c[l])
        /\ Keeps(leaf', leaf, c[Leaf])
    BY <1>2 DEF c
  <2>2. Whole(offs', mask', leaf', c) = Whole(offs, mask, leaf, c)
    BY <1>0, <1>3, <2>1, WholeKept
  <2>3. Committed = Whole(offs, mask, leaf, c)[1]
    BY <2>1, CommittedIs
  <2>4. Committed' = Whole(offs', mask', leaf', c)[1]
    BY <1>3, CommittedIsNext
  <2> QED BY <2>2, <2>3, <2>4
<1> QED BY <1>3, <1>5, <1>6 DEF CommittedFit

\* A new number of rows with their entries.
LEMMA CommittedAnew ==
  ASSUME NEW n, NEW c, Describes(offs, mask, leaf, n, c), nrows' = n, UNCHANGED <<offs, mask, leaf>>
  PROVE  CommittedFit' /\ Starts' = c
<1>1. c = Reach(offs, n)
  BY DescribesCounts
<1>2. Starts' = c
  BY <1>1, StartsReach
<1> QED BY <1>2 DEF CommittedFit

\* A write leaves the plan valid.
LEMMA PlanKept ==
  ASSUME PlanFits, Appending, UNCHANGED <<plan, nrows>>, Starts' = Starts,
         pc' \in Writing \cup {"commit"}
  PROVE  PlanFits' /\ Appending'
<1>1. plan.rows \in Seq(Rows) \ {<<>>} /\ Encodable(plan.rows) /\ plan = Plan(plan.rows) /\ plan.n <= MaxRows
  BY DEF PlanFits
<1>2. Plan(plan.rows)' = Plan(plan.rows)
  BY DEF Plan
<1>3. Appending'
  BY <1>1 DEF Appending
<1> QED BY <1>1, <1>2, <1>3 DEF PlanFits, Writing, MaskSteps, OffsetSteps

\* The three datasets of a level, and what resizing or writing them keeps.
LEMMA LeafKept ==
  ASSUME Files, Files', CommittedFit, UNCHANGED <<nrows, offs, mask>>,
         Keeps(leaf', leaf, Starts[Leaf])
  PROVE  CommittedFit' /\ Starts' = Starts /\ Committed' = Committed
<1>1. Len(leaf) \in Nat /\ \A l \in Level : Len(offs[l]) \in Nat /\ Len(mask[l]) \in Nat
  BY SetLengths DEF Files
<1>2. \A l \in Level : Keeps(offs'[l], offs[l], Starts[l] + 1) /\ Keeps(mask'[l], mask[l], Starts[l])
  BY <1>1 DEF Keeps
<1> QED BY <1>2, CommittedKept

\* Resizing or writing the MASK at hand, behind what is committed.
LEMMA MaskKept ==
  ASSUME Files, CommittedFit, UNCHANGED <<nrows, offs, leaf>>, at \in Level,
         NEW s \in Seq(BOOLEAN), Keeps(s, mask[at], Starts[at]), mask' = [mask EXCEPT ![at] = s]
  PROVE  Files' /\ CommittedFit' /\ Starts' = Starts /\ Committed' = Committed
<1>1. \A l \in Level : Len(offs[l]) \in Nat /\ Len(mask[l]) \in Nat
  BY SetLengths DEF Files
<1>2. \A l \in Level : Keeps(offs'[l], offs[l], Starts[l] + 1) /\ Keeps(mask'[l], mask[l], Starts[l])
  <2> TAKE l \in Level
  <2>1. Keeps(offs'[l], offs[l], Starts[l] + 1)
    BY <1>1 DEF Keeps
  <2>2. CASE l = at
    BY <2>1, <2>2 DEF Files, Sets
  <2>3. CASE l # at
    BY <2>1, <2>3, <1>1 DEF Keeps, Files, Sets
  <2> QED BY <2>2, <2>3
<1>3. Files'
  BY DEF Files, Sets
<1>4. Keeps(leaf', leaf, Starts[Leaf])
  BY SetLengths DEF Files, Keeps
<1> QED BY <1>2, <1>3, <1>4, CommittedKept

\* Resizing or writing the OFFSETS at hand, behind what is committed.
LEMMA OffsetsKept ==
  ASSUME Files, CommittedFit, UNCHANGED <<nrows, mask, leaf>>, at \in Level,
         NEW s \in Seq(Nat), Keeps(s, offs[at], Starts[at] + 1), offs' = [offs EXCEPT ![at] = s]
  PROVE  Files' /\ CommittedFit' /\ Starts' = Starts /\ Committed' = Committed
<1>1. \A l \in Level : Len(offs[l]) \in Nat /\ Len(mask[l]) \in Nat
  BY SetLengths DEF Files
<1>2. \A l \in Level : Keeps(offs'[l], offs[l], Starts[l] + 1) /\ Keeps(mask'[l], mask[l], Starts[l])
  <2> TAKE l \in Level
  <2>1. Keeps(mask'[l], mask[l], Starts[l])
    BY <1>1 DEF Keeps
  <2>2. CASE l = at
    BY <2>1, <2>2 DEF Files, Sets
  <2>3. CASE l # at
    BY <2>1, <2>3, <1>1 DEF Keeps, Files, Sets
  <2> QED BY <2>2, <2>3
<1>3. Files'
  BY DEF Files, Sets
<1>4. Keeps(leaf', leaf, Starts[Leaf])
  BY SetLengths DEF Files, Keeps
<1> QED BY <1>2, <1>3, <1>4, CommittedKept

\* What leaves the file alone leaves the committed rows alone.
LEMMA FileKept ==
  ASSUME ListInv, UNCHANGED <<nrows, offs, mask, leaf>>
  PROVE  /\ Files' /\ CommittedFit' /\ Starts' = Starts /\ Committed' = Committed
         /\ nrows' \in 0..MaxRows
<1>1. Files' /\ nrows' \in 0..MaxRows
  BY DEF ListInv, TypeOK, Files, Sets
<1> DEFINE c == Starts
<1>2. Describes(offs, mask, leaf, nrows, c)
  BY DEF ListInv, CommittedFit
<1> HIDE DEF c
<1>3. CommittedFit' /\ Starts' = c
  BY <1>2, CommittedAnew
<1>4. Committed' = Committed
  BY ReadIsReader DEF Committed
<1> QED BY <1>1, <1>3, <1>4 DEF c

\* The write that follows level l, once everything from it on is written.
LEMMA AboveFits ==
  ASSUME NEW l \in 1..Leaf, Above(l), LeafDone',
         \A k \in Level : k >= l => MaskDone(k)' /\ OffsetsDone(k)'
  PROVE  WritesFit' /\ pc' \in Writing \cup {"commit"} /\ at' \in 1..Leaf /\ plan' = plan
<1>1. Leaf = Depth + 1 /\ Depth \in Nat \ {0} /\ Level = 1..Depth /\ Nullable \subseteq Level /\ Level \subseteq Nat
  BY ListAssumption DEF Leaf, Level
<1>2. CASE l = 1 /\ Goto("commit", 1)
  <2>1. \A k \in Level : k >= l
    BY <1>1, <1>2
  <2> QED BY <1>1, <1>2, <2>1 DEF Goto, WritesFit, Writing, MaskSteps, OffsetSteps
<1>3. CASE l - 1 \in Nullable /\ Goto("extend_mask", l - 1)
  <2>1. l - 1 \in Level /\ l - 1 \in 1..Leaf /\ \A k \in Level : k > l - 1 => k >= l
    BY <1>1, <1>3
  <2> QED BY <1>3, <2>1 DEF Goto, WritesFit, Writing, MaskSteps, OffsetSteps
<1>4. CASE l - 1 \in Level \ Nullable /\ Goto("extend_offsets", l - 1)
  <2>1. l - 1 \in Level /\ l - 1 \in 1..Leaf /\ \A k \in Level : k > l - 1 => k >= l
    BY <1>1, <1>4
  <2>2. MaskDone(at)'
    BY <1>4 DEF Goto, MaskDone
  <2> QED BY <1>4, <2>1, <2>2 DEF Goto, WritesFit, Writing, MaskSteps, OffsetSteps
<1> QED BY <1>2, <1>3, <1>4 DEF Above

\* An empty column.
LEMMA InitInv == Init => ListInv
<1> SUFFICES ASSUME Init PROVE ListInv
  OBVIOUS
<1>1. /\ Leaf \in Nat /\ Leaf \in 1..Leaf /\ 1 \in 1..Leaf /\ MaxRows \in Nat
      /\ \A l \in Level : l \in 1..Leaf /\ l + 1 \in 1..Leaf
  BY ListAssumption DEF Leaf, Level
<1>2. TypeOK
  <2>1. <<0>> \in Seq(Nat) /\ <<>> \in Seq(BOOLEAN) /\ <<>> \in Seq(Entry[Leaf] \cup {Fill})
    BY EmptySeq
  <2> QED BY <1>1, <2>1 DEF Init, TypeOK, Writing
<1> DEFINE c == [l \in 1..Leaf |-> 0]
<1>3. Describes(offs, mask, leaf, nrows, c)
  <2>1. c \in [1..Leaf -> Nat] /\ c[1] = nrows /\ Len(leaf) >= c[Leaf]
    BY <1>1 DEF Init
  <2>2. \A l \in Level : c[l] = 0 /\ c[l + 1] = 0 /\ offs[l] = <<0>> /\ Len(mask[l]) = 0
    BY <1>1 DEF Init
  <2> HIDE DEF c
  <2>3. \A l \in Level : /\ Len(offs[l]) >= c[l] + 1 /\ offs[l][1] = 0 /\ c[l + 1] = offs[l][c[l] + 1]
                         /\ Len(mask[l]) >= c[l] /\ \A i \in 1..c[l] : FALSE
    BY <2>2
  <2> QED BY <2>1, <2>3 DEF Describes
<1>4. CommittedFit
  <2> HIDE DEF c
  <2>1. c = Starts
    BY <1>3, DescribesCounts, StartsReach
  <2> QED BY <1>3, <2>1 DEF CommittedFit
<1>5. PlanFits /\ WritesFit
  BY DEF Init, PlanFits, WritesFit, Appending, Writing, MaskSteps, OffsetSteps
<1>6. Committed = <<>>
  <2>1. Sets(offs, mask, leaf)
    BY <1>2 DEF TypeOK, Sets
  <2>2. c[1] = 0
    BY <1>1
  <2> HIDE DEF c
  <2> DEFINE w == Whole(offs, mask, leaf, c)
  <2>3. w[1] = [i \in 1..c[1] |-> Item(offs, mask, leaf, w, 1, i)]
    BY <1>1, <1>3, <2>1, WholeItems
  <2>4. Committed = w[1]
    BY <1>3, CommittedIs
  <2> HIDE DEF w
  <2> QED BY <2>2, <2>3, <2>4
<1>7. RowsRead
  BY <1>6, EmptySeq DEF RowsRead
<1> QED BY <1>2, <1>4, <1>5, <1>7 DEF ListInv

\* Table.append begins, or its rows are refused.
LEMMA AppendRowsInv ==
  ASSUME ListInv, NEW rows \in Seq(Rows), AppendRows(rows)
  PROVE  ListInv' /\ Committed' = Committed
<1>1. pc = "idle" /\ rows # <<>> /\ nrows + Len(rows) <= MaxRows /\ UNCHANGED <<nrows, offs, mask, leaf>>
  BY DEF AppendRows, fileVars
<1>2. CommittedFit' /\ Starts' = Starts /\ Committed' = Committed
  BY <1>1, FileKept
<1>3. CASE Encodable(rows)
  <2>1. plan' = Plan(rows) /\ pc' = "extend_leaf" /\ at' = Leaf
    BY <1>3 DEF AppendRows
  <2>2. Plan(rows).rows = rows /\ Plan(rows).n = nrows + Len(rows) /\ Plan(rows)' = Plan(rows)
    BY <1>1, <1>2 DEF Plan
  <2>3. PlanFits'
    <3>1. plan'.rows = rows /\ plan'.n <= MaxRows /\ plan' = Plan(rows)'
      BY <1>1, <2>1, <2>2
    <3> QED BY <1>1, <1>3, <2>1, <3>1 DEF PlanFits, Appending, Writing
  <2>4. WritesFit'
    BY <2>1 DEF WritesFit, MaskSteps, OffsetSteps
  <2>5. TypeOK'
    <3>1. Leaf \in 1..Leaf
      BY ListAssumption DEF Leaf
    <3> QED BY <1>1, <2>1, <3>1 DEF ListInv, TypeOK, Writing
  <2> QED BY <1>2, <2>3, <2>4, <2>5 DEF ListInv, RowsRead
<1>4. CASE ~Encodable(rows)
  <2>1. UNCHANGED vars
    BY <1>1, <1>4 DEF AppendRows, vars, fileVars
  <2>2. pc' = "idle" /\ TypeOK'
    BY <1>1, <2>1 DEF ListInv, TypeOK, vars, fileVars
  <2>3. PlanFits' /\ WritesFit'
    BY <2>2 DEF PlanFits, WritesFit, Appending, Writing, MaskSteps, OffsetSteps
  <2> QED BY <1>2, <2>2, <2>3 DEF ListInv, RowsRead
<1> QED BY <1>3, <1>4

\* What holds between two writes.
LEMMA RunningPlan ==
  ASSUME ListInv, pc \in Writing
  PROVE  /\ Files /\ TypeOK /\ CommittedFit /\ PlanFits /\ WritesFit /\ Appending
         /\ plan.start = Starts /\ Starts \in [1..Leaf -> Nat]
BY PlanFacts DEF ListInv, TypeOK, Files, Sets, Appending

\* The leaf is resized.
LEMMA ExtendLeafInv == ASSUME ListInv, ExtendLeaf PROVE ListInv' /\ Committed' = Committed
<1>1. pc = "extend_leaf" /\ UNCHANGED <<nrows, offs, mask, plan>> /\ pc' = "write_leaf" /\ at' = Leaf
  BY DEF ExtendLeaf, Goto
<1>2. pc \in Writing /\ pc' \in Writing
  BY <1>1 DEF Writing
<1>3. /\ Files /\ TypeOK /\ CommittedFit /\ PlanFits /\ Appending
      /\ plan.start = Starts /\ Starts \in [1..Leaf -> Nat] /\ Leaf \in 1..Leaf
  BY <1>2, RunningPlan, ListAssumption DEF Leaf
<1>4. plan.elems \in Seq(Entry[Leaf] \cup {Fill})
  BY <1>3, PlanFacts
<1> DEFINE T == Entry[Leaf] \cup {Fill}
           n == plan.start[Leaf] + Len(plan.elems)
<1>5. leaf \in Seq(T) /\ n \in Nat /\ Fill \in T
  BY <1>3, <1>4, LenProperties DEF Files, Sets
<1>6. leaf' = extend_to(leaf, n, Fill)
  BY DEF ExtendLeaf
<1> HIDE DEF T, n
<1>7. leaf' \in Seq(T) /\ Len(leaf') >= n /\ Keeps(leaf', leaf, Starts[Leaf])
  <2>1. /\ leaf' \in Seq(T) /\ Len(leaf') >= Len(leaf) /\ Len(leaf') >= n
        /\ \A i \in 1..Len(leaf) : leaf'[i] = leaf[i]
    BY <1>5, <1>6, ExtendKeeps
  <2> QED BY <2>1 DEF Keeps
<1>8. Files'
  BY <1>1, <1>3, <1>7 DEF Files, Sets, T
<1>9. CommittedFit' /\ Starts' = Starts /\ Committed' = Committed
  BY <1>1, <1>3, <1>7, <1>8, LeafKept
<1>10. PlanFits'
  BY <1>1, <1>2, <1>3, <1>9, PlanKept
<1>11. WritesFit'
  BY <1>1, <1>7 DEF WritesFit, MaskSteps, OffsetSteps, Behind, n
<1>12. TypeOK'
  BY <1>1, <1>2, <1>3, <1>8 DEF TypeOK, Files, Sets
<1> QED BY <1>9, <1>10, <1>11, <1>12 DEF ListInv, RowsRead

\* A write of the leaf, whole or in part.
LEMMA WriteLeafKeeps ==
  ASSUME ListInv, pc = "write_leaf", UNCHANGED nrows,
         NEW which \in SUBSET DOMAIN plan.elems, WriteLeaf(which)
  PROVE  /\ Files' /\ CommittedFit' /\ Starts' = Starts /\ Committed' = Committed
         /\ which = DOMAIN plan.elems /\ plan' = plan => LeafDone'
<1>1. pc \in Writing
  BY DEF Writing
<1>2. /\ Files /\ CommittedFit /\ PlanFits /\ WritesFit /\ Appending
      /\ plan.start = Starts /\ Starts \in [1..Leaf -> Nat] /\ Leaf \in 1..Leaf
  BY <1>1, RunningPlan, ListAssumption DEF Leaf
<1> DEFINE T == Entry[Leaf] \cup {Fill}
           p == plan.start[Leaf]
           new == plan.elems
<1>3. new \in Seq(T) /\ leaf \in Seq(T) /\ p \in Nat /\ which \in SUBSET DOMAIN new
  BY <1>2, PlanFacts DEF Files, Sets
<1>4. leaf' = Written(leaf, p, new, which) /\ UNCHANGED <<offs, mask>>
  BY DEF WriteLeaf
<1>5. Behind(leaf, p, new)
  BY <1>2 DEF WritesFit
<1> HIDE DEF T, p, new
<1>6. /\ leaf' \in Seq(T) /\ Len(leaf') = Len(leaf)
      /\ \A i \in 1..Len(leaf) : i <= p => leaf'[i] = leaf[i]
      /\ which = DOMAIN new => Holds(leaf', p, new)
  BY <1>3, <1>4, <1>5, WrittenKeeps
<1>7. Files'
  BY <1>2, <1>4, <1>6 DEF Files, Sets, T
<1>8. Keeps(leaf', leaf, Starts[Leaf])
  <2>1. p = Starts[Leaf] /\ Len(leaf) \in Nat
    BY <1>2, <1>3, LenProperties DEF p
  <2> QED BY <1>6, <2>1 DEF Keeps
<1>9. CommittedFit' /\ Starts' = Starts /\ Committed' = Committed
  BY <1>2, <1>4, <1>7, <1>8, LeafKept
<1>10. which = DOMAIN plan.elems /\ plan' = plan => LeafDone'
  BY <1>6 DEF LeafDone, p, new
<1> QED BY <1>7, <1>9, <1>10

\* The leaf is written.
LEMMA FinishLeafInv == ASSUME ListInv, FinishLeaf PROVE ListInv' /\ Committed' = Committed
<1>1. pc = "write_leaf" /\ WriteLeaf(DOMAIN plan.elems) /\ Above(Leaf)
  BY DEF FinishLeaf
<1>2. pc \in Writing /\ UNCHANGED <<nrows, plan>>
  BY <1>1 DEF Writing, Above, Goto
<1>3. Files' /\ CommittedFit' /\ Starts' = Starts /\ Committed' = Committed /\ LeafDone'
  BY <1>1, <1>2, WriteLeafKeeps
<1>4. TypeOK /\ PlanFits /\ Appending
  BY <1>2, RunningPlan
<1>5. Leaf \in 1..Leaf /\ \A k \in Level : ~(k >= Leaf)
  BY ListAssumption DEF Leaf, Level
<1>6. WritesFit' /\ pc' \in Writing \cup {"commit"} /\ at' \in 1..Leaf
  BY <1>1, <1>3, <1>5, AboveFits
<1>7. PlanFits'
  BY <1>2, <1>3, <1>4, <1>6, PlanKept
<1>8. TypeOK'
  BY <1>2, <1>3, <1>4, <1>6 DEF TypeOK, Files, Sets
<1> QED BY <1>3, <1>6, <1>7, <1>8 DEF ListInv, RowsRead

\* The level being written, and everything below it.
LEMMA LevelAtHand ==
  ASSUME ListInv, pc \in MaskSteps \cup OffsetSteps
  PROVE  /\ pc \in Writing /\ at \in Level /\ at \in 1..Leaf /\ at + 1 \in 1..Leaf
         /\ plan.start[at] \in Nat /\ plan.start[at] = Starts[at] /\ plan.start[at + 1] \in Nat
         /\ mask[at] \in Seq(BOOLEAN) /\ plan.present[at] \in Seq(BOOLEAN)
         /\ offs[at] \in Seq(Nat) /\ Sums(at) \in Seq(Nat) /\ Len(plan.counts[at]) = Len(Sums(at))
         /\ LeafDone /\ \A l \in Level : l > at => MaskDone(l) /\ OffsetsDone(l)
<1>1. pc \in Writing /\ pc \notin {"extend_leaf", "write_leaf"}
  BY DEF Writing, MaskSteps, OffsetSteps
<1>2. /\ Files /\ CommittedFit /\ PlanFits /\ WritesFit /\ Appending
      /\ plan.start = Starts /\ Starts \in [1..Leaf -> Nat]
  BY <1>1, RunningPlan
<1>3. at \in Level /\ at \in 1..Leaf /\ at + 1 \in 1..Leaf
  BY <1>2, ListAssumption DEF WritesFit, Leaf, Level
<1>4. LeafDone /\ \A l \in Level : l > at => MaskDone(l) /\ OffsetsDone(l)
  BY <1>1, <1>2 DEF WritesFit
<1>5. plan.present[at] \in Seq(BOOLEAN)
  BY <1>2, <1>3, PlanFacts
<1>6. Sums(at) \in Seq(Nat) /\ Len(plan.counts[at]) = Len(Sums(at))
  BY <1>2, <1>3, SumsFacts
<1> QED BY <1>1, <1>2, <1>3, <1>4, <1>5, <1>6 DEF Files, Sets

\* A MASK is resized.
LEMMA ExtendMaskInv == ASSUME ListInv, ExtendMask PROVE ListInv' /\ Committed' = Committed
<1>1. /\ pc = "extend_mask" /\ UNCHANGED <<nrows, offs, leaf, plan, at>> /\ pc' = "write_mask"
  BY DEF ExtendMask, Goto
<1>2. pc \in MaskSteps /\ pc \in Writing /\ pc' \in Writing
  BY <1>1 DEF Writing, MaskSteps
<1>3. /\ Files /\ TypeOK /\ CommittedFit /\ PlanFits /\ WritesFit /\ Appending
  BY <1>2, RunningPlan
<1>4. /\ at \in Level /\ plan.start[at] \in Nat /\ plan.start[at] = Starts[at]
      /\ mask[at] \in Seq(BOOLEAN) /\ plan.present[at] \in Seq(BOOLEAN)
      /\ LeafDone /\ \A l \in Level : l > at => MaskDone(l) /\ OffsetsDone(l)
  BY <1>2, LevelAtHand
<1> DEFINE n == plan.start[at] + Len(plan.present[at])
           s == extend_to(mask[at], n, FALSE)
<1>5. n \in Nat /\ Len(mask[at]) \in Nat
  BY <1>4, LenProperties
<1>6. mask' = [mask EXCEPT ![at] = s]
  BY DEF ExtendMask
<1>7. s \in Seq(BOOLEAN) /\ Len(s) >= n /\ Keeps(s, mask[at], Starts[at])
  <2> HIDE DEF n
  <2>1. s \in Seq(BOOLEAN) /\ Len(s) >= Len(mask[at]) /\ Len(s) >= n /\ \A i \in 1..Len(mask[at]) : s[i] = mask[at][i]
    <3> DEFINE old == mask[at]
    <3>1. old \in Seq(BOOLEAN) /\ FALSE \in BOOLEAN /\ n \in Nat
      BY <1>4, <1>5
    <3> HIDE DEF old
    <3>2. LET x == extend_to(old, n, FALSE)
          IN  x \in Seq(BOOLEAN) /\ Len(x) >= Len(old) /\ Len(x) >= n /\ \A i \in 1..Len(old) : x[i] = old[i]
      BY <3>1, ExtendKeeps
    <3> QED BY <3>2 DEF old
  <2> HIDE DEF s
  <2> QED BY <2>1 DEF Keeps
<1> HIDE DEF s
<1>8. Files' /\ CommittedFit' /\ Starts' = Starts /\ Committed' = Committed
  BY <1>1, <1>3, <1>4, <1>6, <1>7, MaskKept
<1>9. PlanFits'
  BY <1>1, <1>2, <1>3, <1>8, PlanKept
<1>10. \A l \in Level : l # at => mask'[l] = mask[l]
  BY <1>3, <1>6 DEF Files, Sets
<1>11. mask'[at] = s
  BY <1>3, <1>4, <1>6 DEF Files, Sets
<1>12. WritesFit'
  <2>1. LeafDone' /\ \A l \in Level : l > at => MaskDone(l)' /\ OffsetsDone(l)'
    <3>1. \A l \in Level : l > at => l # at
      BY <1>3 DEF TypeOK
    <3> QED BY <1>1, <1>4, <1>10, <3>1 DEF LeafDone, MaskDone, OffsetsDone, Sums
  <2>2. at \in Nullable
    BY <1>2, <1>3 DEF WritesFit
  <2> QED BY <1>1, <1>4, <1>7, <1>11, <2>1, <2>2 DEF WritesFit, MaskSteps, OffsetSteps, Behind
<1>13. TypeOK'
  BY <1>1, <1>2, <1>3, <1>8 DEF TypeOK, Files, Sets
<1> QED BY <1>8, <1>9, <1>12, <1>13 DEF ListInv, RowsRead

\* A write of a MASK, whole or in part.
LEMMA WriteMaskKeeps ==
  ASSUME ListInv, pc = "write_mask", UNCHANGED nrows,
         NEW which \in SUBSET DOMAIN plan.present[at], WriteMask(which)
  PROVE  /\ Files' /\ CommittedFit' /\ Starts' = Starts /\ Committed' = Committed
         /\ \A l \in Level : l # at => mask'[l] = mask[l]
         /\ which = DOMAIN plan.present[at] => Holds(mask'[at], plan.start[at], plan.present[at])
<1>1. pc \in Writing /\ pc \in MaskSteps
  BY DEF Writing, MaskSteps
<1>2. /\ Files /\ CommittedFit /\ WritesFit
  BY <1>1, RunningPlan
<1>3. /\ at \in Level /\ plan.start[at] \in Nat /\ plan.start[at] = Starts[at]
      /\ mask[at] \in Seq(BOOLEAN) /\ plan.present[at] \in Seq(BOOLEAN)
  BY <1>1, LevelAtHand
<1> DEFINE p == plan.start[at]
           new == plan.present[at]
           s == Written(mask[at], p, new, which)
<1>4. mask' = [mask EXCEPT ![at] = s] /\ UNCHANGED <<offs, leaf>>
  BY DEF WriteMask
<1>5. Behind(mask[at], p, new) /\ which \in SUBSET DOMAIN new
  BY <1>2 DEF WritesFit
<1>6. /\ s \in Seq(BOOLEAN) /\ Keeps(s, mask[at], Starts[at])
      /\ which = DOMAIN new => Holds(s, p, new)
  <2> HIDE DEF p, new
  <2>1. /\ s \in Seq(BOOLEAN) /\ Len(s) = Len(mask[at])
        /\ \A i \in 1..Len(mask[at]) : i <= p => s[i] = mask[at][i]
        /\ which = DOMAIN new => Holds(s, p, new)
    BY <1>3, <1>5, WrittenKeeps DEF p, new
  <2>2. Len(mask[at]) \in Nat /\ p = Starts[at]
    BY <1>3, LenProperties DEF p
  <2> HIDE DEF s
  <2> QED BY <2>1, <2>2 DEF Keeps
<1> HIDE DEF s
<1>7. Files' /\ CommittedFit' /\ Starts' = Starts /\ Committed' = Committed
  BY <1>2, <1>3, <1>4, <1>6, MaskKept
<1>8. mask'[at] = s /\ \A l \in Level : l # at => mask'[l] = mask[l]
  BY <1>2, <1>3, <1>4 DEF Files, Sets
<1> QED BY <1>6, <1>7, <1>8

\* A MASK is written.
LEMMA FinishMaskInv == ASSUME ListInv, FinishMask PROVE ListInv' /\ Committed' = Committed
<1>1. /\ pc = "write_mask" /\ WriteMask(DOMAIN plan.present[at])
      /\ UNCHANGED <<nrows, offs, leaf, plan, at>> /\ pc' = "extend_offsets"
  BY DEF FinishMask, WriteMask, Goto
<1>2. pc \in MaskSteps /\ pc \in Writing /\ pc' \in Writing
  BY <1>1 DEF Writing, MaskSteps, OffsetSteps
<1>3. /\ TypeOK /\ PlanFits /\ Appending
  BY <1>2, RunningPlan
<1>4. /\ at \in Level /\ LeafDone /\ \A l \in Level : l > at => MaskDone(l) /\ OffsetsDone(l)
  BY <1>2, LevelAtHand
<1>5. /\ Files' /\ CommittedFit' /\ Starts' = Starts /\ Committed' = Committed
      /\ \A l \in Level : l # at => mask'[l] = mask[l]
      /\ Holds(mask'[at], plan.start[at], plan.present[at])
  BY <1>1, WriteMaskKeeps
<1>6. PlanFits'
  BY <1>1, <1>2, <1>3, <1>5, PlanKept
<1>7. WritesFit'
  <2>1. LeafDone' /\ \A l \in Level : l > at => MaskDone(l)' /\ OffsetsDone(l)'
    <3>1. \A l \in Level : l > at => l # at
      BY <1>3 DEF TypeOK
    <3> QED BY <1>1, <1>4, <1>5, <3>1 DEF LeafDone, MaskDone, OffsetsDone, Sums
  <2>2. MaskDone(at)'
    BY <1>1, <1>5 DEF MaskDone
  <2> QED BY <1>1, <1>4, <2>1, <2>2 DEF WritesFit, MaskSteps, OffsetSteps
<1>8. TypeOK'
  BY <1>1, <1>2, <1>3, <1>5 DEF TypeOK, Files, Sets
<1> QED BY <1>5, <1>6, <1>7, <1>8 DEF ListInv, RowsRead

\* OFFSETS are resized.
LEMMA ExtendOffsetsInv == ASSUME ListInv, ExtendOffsets PROVE ListInv' /\ Committed' = Committed
<1>1. /\ pc = "extend_offsets" /\ UNCHANGED <<nrows, mask, leaf, plan, at>> /\ pc' = "write_offsets"
  BY DEF ExtendOffsets, Goto
<1>2. pc \in OffsetSteps /\ pc \in Writing /\ pc' \in Writing
  BY <1>1 DEF Writing, OffsetSteps
<1>3. /\ Files /\ TypeOK /\ CommittedFit /\ PlanFits /\ WritesFit /\ Appending
  BY <1>2, RunningPlan
<1>4. /\ at \in Level /\ plan.start[at] \in Nat /\ plan.start[at] = Starts[at]
      /\ offs[at] \in Seq(Nat) /\ Sums(at) \in Seq(Nat) /\ Len(plan.counts[at]) = Len(Sums(at))
      /\ LeafDone /\ \A l \in Level : l > at => MaskDone(l) /\ OffsetsDone(l)
  BY <1>2, LevelAtHand
<1> DEFINE n == plan.start[at] + Len(plan.counts[at]) + 1
           s == extend_to(offs[at], n, 0)
<1>5. n \in Nat /\ Len(offs[at]) \in Nat /\ n = (plan.start[at] + 1) + Len(Sums(at))
  BY <1>4, LenProperties
<1>6. offs' = [offs EXCEPT ![at] = s]
  BY DEF ExtendOffsets
<1>7. s \in Seq(Nat) /\ Len(s) >= n /\ Keeps(s, offs[at], Starts[at] + 1)
  <2> HIDE DEF n
  <2>1. s \in Seq(Nat) /\ Len(s) >= Len(offs[at]) /\ Len(s) >= n /\ \A i \in 1..Len(offs[at]) : s[i] = offs[at][i]
    <3> DEFINE old == offs[at]
    <3>1. old \in Seq(Nat) /\ 0 \in Nat /\ n \in Nat
      BY <1>4, <1>5
    <3> HIDE DEF old
    <3>2. LET x == extend_to(old, n, 0)
          IN  x \in Seq(Nat) /\ Len(x) >= Len(old) /\ Len(x) >= n /\ \A i \in 1..Len(old) : x[i] = old[i]
      BY <3>1, ExtendKeeps
    <3> QED BY <3>2 DEF old
  <2>2. Len(offs[at]) \in Nat /\ Starts[at] \in Nat
    BY <1>4, <1>5
  <2> HIDE DEF s
  <2> QED BY <2>1, <2>2 DEF Keeps
<1> HIDE DEF s, n
<1>8. Files' /\ CommittedFit' /\ Starts' = Starts /\ Committed' = Committed
  BY <1>1, <1>3, <1>4, <1>6, <1>7, OffsetsKept
<1>9. PlanFits'
  BY <1>1, <1>2, <1>3, <1>8, PlanKept
<1>10. \A l \in Level : l # at => offs'[l] = offs[l]
  BY <1>3, <1>6 DEF Files, Sets
<1>11. offs'[at] = s
  BY <1>3, <1>4, <1>6 DEF Files, Sets
<1>12. WritesFit'
  <2>1. LeafDone' /\ \A l \in Level : l > at => MaskDone(l)' /\ OffsetsDone(l)'
    <3>1. \A l \in Level : l > at => l # at
      BY <1>3 DEF TypeOK
    <3> QED BY <1>1, <1>4, <1>10, <3>1 DEF LeafDone, MaskDone, OffsetsDone, Sums
  <2>2. MaskDone(at)'
    BY <1>1, <1>2, <1>3 DEF WritesFit, MaskDone
  <2>3. Behind(offs'[at], plan.start[at] + 1, Sums(at))
    BY <1>5, <1>7, <1>11 DEF Behind
  <2>4. Sums(at)' = Sums(at)
    BY <1>1 DEF Sums
  <2> QED BY <1>1, <1>4, <2>1, <2>2, <2>3, <2>4 DEF WritesFit, MaskSteps, OffsetSteps
<1>13. TypeOK'
  BY <1>1, <1>2, <1>3, <1>8 DEF TypeOK, Files, Sets
<1> QED BY <1>8, <1>9, <1>12, <1>13 DEF ListInv, RowsRead

\* A write of OFFSETS, whole or in part.
LEMMA WriteOffsetsKeeps ==
  ASSUME ListInv, pc = "write_offsets", UNCHANGED nrows,
         NEW which \in SUBSET DOMAIN plan.counts[at], WriteOffsets(which)
  PROVE  /\ Files' /\ CommittedFit' /\ Starts' = Starts /\ Committed' = Committed
         /\ \A l \in Level : l # at => offs'[l] = offs[l]
         /\ which = DOMAIN plan.counts[at] => Holds(offs'[at], plan.start[at] + 1, Sums(at))
<1>1. pc \in Writing /\ pc \in OffsetSteps
  BY DEF Writing, OffsetSteps
<1>2. /\ Files /\ CommittedFit /\ WritesFit /\ PlanFits /\ Appending
  BY <1>1, RunningPlan
<1>3. /\ at \in Level /\ plan.start[at] \in Nat /\ plan.start[at] = Starts[at]
      /\ offs[at] \in Seq(Nat) /\ Sums(at) \in Seq(Nat) /\ Len(plan.counts[at]) = Len(Sums(at))
  BY <1>1, LevelAtHand
<1> DEFINE p == plan.start[at] + 1
           new == Sums(at)
           s == Written(offs[at], p, new, which)
<1>4. offs' = [offs EXCEPT ![at] = s] /\ UNCHANGED <<mask, leaf>>
  BY DEF WriteOffsets
<1>5. DOMAIN plan.counts[at] = DOMAIN new
  BY DEF Sums, Running
<1>6. Behind(offs[at], p, new) /\ which \in SUBSET DOMAIN new /\ p \in Nat
  BY <1>2, <1>3, <1>5 DEF WritesFit
<1>7. /\ s \in Seq(Nat) /\ Keeps(s, offs[at], Starts[at] + 1)
      /\ which = DOMAIN new => Holds(s, p, new)
  <2> HIDE DEF p, new
  <2>1. /\ s \in Seq(Nat) /\ Len(s) = Len(offs[at])
        /\ \A i \in 1..Len(offs[at]) : i <= p => s[i] = offs[at][i]
        /\ which = DOMAIN new => Holds(s, p, new)
    <3> DEFINE old == offs[at]
    <3>1. old \in Seq(Nat) /\ new \in Seq(Nat) /\ p \in Nat /\ which \in SUBSET DOMAIN new /\ Behind(old, p, new)
      BY <1>3, <1>6 DEF new
    <3> HIDE DEF old
    <3>2. /\ Written(old, p, new, which) \in Seq(Nat) /\ Len(Written(old, p, new, which)) = Len(old)
          /\ \A i \in 1..Len(old) : i <= p => Written(old, p, new, which)[i] = old[i]
          /\ which = DOMAIN new => Holds(Written(old, p, new, which), p, new)
      BY <3>1, WrittenKeeps
    <3> QED BY <3>2 DEF old
  <2>2. Len(offs[at]) \in Nat /\ p = Starts[at] + 1
    BY <1>3, LenProperties DEF p
  <2> HIDE DEF s
  <2> QED BY <2>1, <2>2 DEF Keeps
<1> HIDE DEF s
<1>8. Files' /\ CommittedFit' /\ Starts' = Starts /\ Committed' = Committed
  BY <1>2, <1>3, <1>4, <1>7, OffsetsKept
<1>9. offs'[at] = s /\ \A l \in Level : l # at => offs'[l] = offs[l]
  BY <1>2, <1>3, <1>4 DEF Files, Sets
<1> QED BY <1>5, <1>7, <1>8, <1>9

\* OFFSETS are written.
LEMMA FinishOffsetsInv == ASSUME ListInv, FinishOffsets PROVE ListInv' /\ Committed' = Committed
<1>1. pc = "write_offsets" /\ WriteOffsets(DOMAIN plan.counts[at]) /\ Above(at)
  BY DEF FinishOffsets
<1>2. pc \in OffsetSteps /\ pc \in Writing /\ UNCHANGED <<nrows, plan, mask, leaf>>
  BY <1>1 DEF Writing, OffsetSteps, Above, Goto, WriteOffsets
<1>3. /\ TypeOK /\ PlanFits /\ WritesFit /\ Appending
  BY <1>2, RunningPlan
<1>4. /\ at \in Level /\ at \in 1..Leaf
      /\ LeafDone /\ \A l \in Level : l > at => MaskDone(l) /\ OffsetsDone(l)
  BY <1>2, LevelAtHand
<1>5. /\ Files' /\ CommittedFit' /\ Starts' = Starts /\ Committed' = Committed
      /\ \A l \in Level : l # at => offs'[l] = offs[l]
      /\ Holds(offs'[at], plan.start[at] + 1, Sums(at))
  BY <1>1, <1>2, WriteOffsetsKeeps
<1> DEFINE lv == at
<1>6. LeafDone' /\ \A k \in Level : k >= lv => MaskDone(k)' /\ OffsetsDone(k)'
  <2>1. LeafDone'
    BY <1>2, <1>4 DEF LeafDone
  <2>2. ASSUME NEW k \in Level, k >= at PROVE MaskDone(k) /\ Holds(offs'[k], plan.start[k] + 1, Sums(k))
    <3>1. CASE k = at
      BY <3>1, <1>2, <1>3, <1>5 DEF WritesFit
    <3>2. CASE k # at
      <4>1. k > at
        BY <3>2, <2>2, <1>4 DEF Level
      <4> QED BY <4>1, <3>2, <1>4, <1>5 DEF OffsetsDone
    <3> QED BY <3>1, <3>2
  <2>3. ASSUME NEW k \in Level, k >= at PROVE MaskDone(k)' /\ OffsetsDone(k)'
    BY <2>2, <2>3, <1>2 DEF MaskDone, OffsetsDone, Sums
  <2> QED BY <2>1, <2>3
<1>7. WritesFit' /\ pc' \in Writing \cup {"commit"} /\ at' \in 1..Leaf
  <2>1. lv \in 1..Leaf /\ Above(lv)
    BY <1>1, <1>4
  <2> HIDE DEF lv
  <2> QED BY <2>1, <1>6, AboveFits
<1>8. PlanFits'
  BY <1>2, <1>3, <1>5, <1>7, PlanKept
<1>9. TypeOK'
  BY <1>2, <1>3, <1>5, <1>7 DEF TypeOK, Files, Sets
<1> QED BY <1>5, <1>7, <1>8, <1>9 DEF ListInv, RowsRead

\* The first of some rows and more.
LEMMA FirstRows ==
  ASSUME NEW s \in Seq(Rows), NEW t \in Seq(Rows), NEW n \in 0..(Len(s) + Len(t))
  PROVE  /\ SubSeq(s \o t, 1, n) \in Seq(Rows) /\ Len(SubSeq(s \o t, 1, n)) = n
         /\ \A i \in 1..n : i <= Len(s) => SubSeq(s \o t, 1, n)[i] = s[i]
<1> DEFINE x == s \o t
<1>1. Len(s) \in Nat /\ Len(t) \in Nat
  BY LenProperties
<1>2. /\ x \in Seq(Rows) /\ Len(x) = Len(s) + Len(t)
      /\ \A i \in 1..(Len(s) + Len(t)) : x[i] = IF i <= Len(s) THEN s[i] ELSE t[i - Len(s)]
  BY ConcatProperties
<1> HIDE DEF x
<1>3. \A i \in 1..n : x[i] \in Rows
  BY <1>1, <1>2, ElementOfSeq
<1>4. /\ SubSeq(x, 1, n) \in Seq(Rows)
      /\ Len(SubSeq(x, 1, n)) = IF 1 <= n THEN n - 1 + 1 ELSE 0
      /\ \A i \in 1..(n - 1 + 1) : SubSeq(x, 1, n)[i] = x[1 + i - 1]
  BY <1>1, <1>3, SubSeqProperties
<1>5. Len(SubSeq(x, 1, n)) = n /\ \A i \in 1..n : SubSeq(x, 1, n)[i] = x[i]
  BY <1>1, <1>4
<1> QED BY <1>1, <1>2, <1>4, <1>5 DEF x

\* The committed rows are as many as NROWS says.
LEMMA CommittedRows ==
  ASSUME ListInv
  PROVE  Committed \in Seq(Rows) /\ Len(Committed) = nrows /\ nrows \in Nat
<1>1. TypeOK /\ CommittedFit /\ RowsRead
  BY DEF ListInv
<1> DEFINE c == Starts
           w == Whole(offs, mask, leaf, c)
<1>2. Sets(offs, mask, leaf) /\ nrows \in Nat
  BY <1>1, ListAssumption DEF TypeOK, Sets
<1>3. Describes(offs, mask, leaf, nrows, c)
  BY <1>1 DEF CommittedFit
<1>4. 1 \in 1..Leaf /\ c[1] = nrows
  BY <1>3, ListAssumption DEF Leaf, Describes
<1> HIDE DEF c
<1>5. w[1] = [i \in 1..c[1] |-> Item(offs, mask, leaf, w, 1, i)]
  BY <1>2, <1>3, <1>4, WholeItems
<1>6. Committed = w[1]
  BY <1>3, CommittedIs
<1> HIDE DEF w
<1>7. DOMAIN Committed = 1..nrows
  BY <1>4, <1>5, <1>6
<1>8. Committed \in Seq(Rows)
  BY <1>1 DEF RowsRead
<1> HIDE DEF ListInv, Committed
<1>9. Len(Committed) \in Nat /\ DOMAIN Committed = 1..Len(Committed)
  BY <1>8, LenProperties
<1>10. Len(Committed) = nrows
  BY <1>2, <1>7, <1>9
<1> QED BY <1>2, <1>8, <1>10

\* The commit of an append takes in the rows it wrote.
LEMMA AppendCommitted ==
  ASSUME ListInv, CommitRows, Appending
  PROVE  /\ CommittedFit' /\ plan.n \in 0..MaxRows
         /\ Committed' = Promised /\ Promised = Committed \o plan.rows /\ Promised \in Seq(Rows)
<1>1. /\ pc = "commit" /\ nrows' = plan.n /\ UNCHANGED <<offs, mask, leaf>>
  BY DEF CommitRows
<1>2. TypeOK /\ CommittedFit /\ PlanFits /\ WritesFit /\ Files
  BY DEF ListInv, TypeOK, Files, Sets
<1>3. LeafDone /\ \A l \in Level : MaskDone(l) /\ OffsetsDone(l)
  BY <1>1, <1>2 DEF WritesFit
<1> DEFINE d == Grown
<1>4. Describes(offs, mask, leaf, plan.n, d)
  BY <1>2, <1>3, GrownDescribed
<1>5. /\ plan.n \in 0..MaxRows /\ plan.n = nrows + Len(plan.rows) /\ plan.rows \in Seq(Rows)
  BY <1>2, PlanFacts
<1>6. 1 \in 1..Leaf
  BY ListAssumption DEF Leaf
<1>7. Whole(offs, mask, leaf, d)[1] = Whole(offs, mask, leaf, Starts)[1] \o Entries(plan.rows)[1]
  <2>1. Joined(1)
    BY <1>2, <1>3, <1>6, GrownJoined
  <2> QED BY <2>1 DEF Joined
<1>8. Entries(plan.rows)[1] = plan.rows
  BY <1>5, EntriesOfRows
<1>9. Committed = Whole(offs, mask, leaf, Starts)[1]
  <2> DEFINE c == Starts
  <2>1. Describes(offs, mask, leaf, nrows, c)
    BY <1>2 DEF CommittedFit
  <2> HIDE DEF c
  <2>2. Committed = Whole(offs, mask, leaf, c)[1]
    BY <2>1, CommittedIs
  <2> QED BY <2>2 DEF c
<1> HIDE DEF d
<1>10. CommittedFit'
  BY <1>1, <1>4, CommittedAnew
<1>11. Committed' = Whole(offs, mask, leaf, d)[1]
  <2>1. Describes(offs', mask', leaf', nrows', d)
    BY <1>1, <1>4
  <2>2. Committed' = Whole(offs', mask', leaf', d)[1]
    BY <2>1, CommittedIsNext
  <2> QED BY <1>1, <2>2
<1>12. Committed' = Committed \o plan.rows
  BY <1>7, <1>8, <1>9, <1>11
<1>13. Committed \in Seq(Rows) /\ Len(Committed) = nrows
  BY CommittedRows
<1>14. Promised = Committed \o plan.rows /\ Promised \in Seq(Rows)
  <2> DEFINE s == Committed
             t == plan.rows
             x == s \o t
  <2>1. s \in Seq(Rows) /\ t \in Seq(Rows) /\ plan.n = Len(s) + Len(t)
    BY <1>5, <1>13
  <2>2. Promised = SubSeq(x, 1, plan.n)
    BY DEF Promised
  <2> HIDE DEF s, t
  <2>3. x \in Seq(Rows) /\ Len(x) = plan.n
    BY <2>1, ConcatProperties
  <2> HIDE DEF x
  <2>4. SubSeq(x, 1, Len(x)) = x
    BY <2>3
  <2>5. Promised = x
    BY <2>2, <2>3, <2>4
  <2> QED BY <2>3, <2>5 DEF x, s, t
<1> QED BY <1>5, <1>10, <1>12, <1>14

\* The commit of a truncation keeps the first rows.
LEMMA TruncateCommitted ==
  ASSUME ListInv, CommitRows, ~Appending
  PROVE  /\ CommittedFit' /\ plan.n \in 0..MaxRows /\ plan.n \in 0..nrows
         /\ Committed' = Promised /\ Promised = SubSeq(Committed, 1, plan.n)
         /\ Promised \in Seq(Rows)
<1>1. /\ pc = "commit" /\ nrows' = plan.n /\ UNCHANGED <<offs, mask, leaf>>
  BY DEF CommitRows
<1>2. TypeOK /\ CommittedFit /\ PlanFits /\ Sets(offs, mask, leaf)
  BY DEF ListInv, TypeOK, Sets
<1>3. plan.n \in 0..nrows /\ plan.rows = <<>>
  BY <1>1, <1>2 DEF PlanFits, Appending
<1>4. nrows \in 0..MaxRows /\ plan.n \in 0..MaxRows
  <2>1. nrows \in 0..MaxRows
    BY <1>2 DEF TypeOK
  <2> QED BY <1>3, <2>1, ListAssumption
<1> DEFINE c == Starts
<1>5. Describes(offs, mask, leaf, nrows, c)
  BY <1>2 DEF CommittedFit
<1>6. 1 \in 1..Leaf /\ c[1] = nrows
  BY <1>5, ListAssumption DEF Leaf, Describes
<1> HIDE DEF c
<1>7. CommittedFit'
  <2>1. PICK d : Describes(offs, mask, leaf, plan.n, d)
    BY <1>2, <1>3, <1>5, FewerDescribed
  <2> QED BY <1>1, <2>1, CommittedAnew
<1>8. Committed' = SubSeq(Committed, 1, plan.n)
  <2> DEFINE n == plan.n
  <2>1. n \in Nat /\ 0 + n <= c[1] /\ 0 \in Nat
    BY <1>3, <1>4, <1>6, ListAssumption
  <2> HIDE DEF n
  <2>2. Reader(offs, mask, leaf)[1][0][n] = SubSeq(Whole(offs, mask, leaf, c)[1], 0 + 1, 0 + n)
    BY <1>2, <1>5, <1>6, <2>1, RangeOfWhole
  <2>3. Committed = Whole(offs, mask, leaf, c)[1]
    BY <1>5, CommittedIs
  <2>4. Committed' = Reader(offs', mask', leaf')[1][0][nrows']
    BY ReadIsReader DEF Committed
  <2>5. 0 + 1 = 1 /\ 0 + n = n
    BY <2>1
  <2> QED BY <1>1, <2>2, <2>3, <2>4, <2>5 DEF n
<1>9. Committed \in Seq(Rows) /\ Len(Committed) = nrows /\ nrows \in Nat
  BY CommittedRows
<1>10. Promised = SubSeq(Committed, 1, plan.n) /\ Promised \in Seq(Rows)
  <2> DEFINE s == Committed
  <2>1. s \in Seq(Rows) /\ Promised = SubSeq(s \o <<>>, 1, plan.n)
    BY <1>3, <1>9 DEF Promised
  <2>2. plan.n \in 0..Len(s) /\ Len(s) \in Nat
    BY <1>3, <1>9
  <2> HIDE DEF s
  <2>3. s \o <<>> = s
    BY <2>1, ConcatEmptySeq
  <2>4. SubSeq(s, 1, plan.n) \in Seq(Rows)
    BY <2>1, <2>2
  <2> QED BY <2>1, <2>3, <2>4 DEF s
<1> QED BY <1>3, <1>4, <1>7, <1>8, <1>10

\* The commit: the column reads what the call promised.
LEMMA CommitRowsInv ==
  ASSUME ListInv, CommitRows
  PROVE  ListInv' /\ Committed' = Promised /\ Promised \in Seq(Rows)
<1>1. /\ pc = "commit" /\ nrows' = plan.n /\ pc' = "done" /\ UNCHANGED <<at, plan, offs, mask, leaf>>
  BY DEF CommitRows
<1>2. CommittedFit' /\ plan.n \in 0..MaxRows /\ Committed' = Promised /\ Promised \in Seq(Rows)
  BY AppendCommitted, TruncateCommitted
<1>3. TypeOK'
  BY <1>1, <1>2 DEF ListInv, TypeOK
<1>4. PlanFits' /\ WritesFit'
  BY <1>1 DEF PlanFits, WritesFit, Appending, Writing, MaskSteps, OffsetSteps
<1>5. RowsRead'
  BY <1>2 DEF RowsRead
<1> QED BY <1>2, <1>3, <1>4, <1>5 DEF ListInv

\* Committing does not change what was promised.
LEMMA PromiseKept == ASSUME ListInv, CommitRows PROVE Promised' = Promised
<1>1. plan' = plan /\ nrows' = plan.n
  BY DEF CommitRows
<1>2. Committed' = Promised /\ Promised \in Seq(Rows)
  BY CommitRowsInv
<1>3. Committed \in Seq(Rows) /\ Len(Committed) = nrows /\ nrows \in Nat
  BY CommittedRows
<1>4. plan.rows \in Seq(Rows) /\ plan.n \in 0..(nrows + Len(plan.rows))
  <2>1. CommittedFit /\ PlanFits /\ pc = "commit"
    BY DEF ListInv, CommitRows
  <2>2. CASE Appending
    <3>1. plan.rows \in Seq(Rows) /\ plan.n = nrows + Len(plan.rows)
      BY <2>1, <2>2, PlanFacts
    <3>2. Len(plan.rows) \in Nat
      BY <3>1, LenProperties
    <3> QED BY <1>3, <3>1, <3>2
  <2>3. CASE ~Appending
    <3>1. plan.rows = <<>> /\ plan.n \in 0..nrows
      BY <2>1, <2>3 DEF Appending, PlanFits
    <3>2. plan.rows \in Seq(Rows) /\ Len(plan.rows) = 0
      BY <3>1, EmptySeq
    <3> QED BY <1>3, <3>1, <3>2
  <2> QED BY <2>2, <2>3
<1>5. Len(Promised) = plan.n
  <2> DEFINE s == Committed
             t == plan.rows
             n == plan.n
  <2>1. s \in Seq(Rows) /\ t \in Seq(Rows) /\ n \in 0..(Len(s) + Len(t))
    BY <1>3, <1>4
  <2>2. Promised = SubSeq(s \o t, 1, n)
    BY DEF Promised
  <2> HIDE DEF s, t, n
  <2>3. Len(SubSeq(s \o t, 1, n)) = n
    BY <2>1, FirstRows
  <2> QED BY <2>2, <2>3 DEF n
<1>6. SubSeq(Promised \o plan.rows, 1, plan.n) = Promised
  <2> DEFINE s == Promised
             t == plan.rows
  <2>1. s \in Seq(Rows) /\ t \in Seq(Rows) /\ plan.n = Len(s)
    BY <1>2, <1>4, <1>5
  <2> HIDE DEF s, t
  <2>2. Len(s) \in Nat /\ Len(t) \in Nat
    BY <2>1, LenProperties
  <2>3. SubSeq(s \o t, 1, Len(s)) = s
    <3>1. Len(s) \in 0..(Len(s) + Len(t))
      BY <2>2
    <3>2. /\ SubSeq(s \o t, 1, Len(s)) \in Seq(Rows) /\ Len(SubSeq(s \o t, 1, Len(s))) = Len(s)
          /\ \A i \in 1..Len(s) : i <= Len(s) => SubSeq(s \o t, 1, Len(s))[i] = s[i]
      BY <2>1, <3>1, FirstRows
    <3>3. \A i \in 1..Len(s) : i <= Len(s)
      BY <2>2
    <3> DEFINE x == SubSeq(s \o t, 1, Len(s))
    <3>4. x \in Seq(Rows) /\ s \in Seq(Rows) /\ Len(x) = Len(s) /\ \A i \in 1..Len(s) : x[i] = s[i]
      BY <2>1, <3>2, <3>3
    <3> HIDE DEF x
    <3>5. x = s
      BY <3>4, SeqEqual
    <3> QED BY <3>5 DEF x
  <2> QED BY <2>1, <2>3 DEF s, t
<1>7. Promised' = SubSeq(Committed' \o plan.rows, 1, plan.n)
  BY <1>1 DEF Promised
<1> QED BY <1>2, <1>6, <1>7

\* Nothing of an append is left when it returns.
LEMMA ReturnInv ==
  ASSUME Files', CommittedFit', RowsRead, Committed' = Committed, nrows' \in 0..MaxRows, Return
  PROVE  ListInv'
<1>1. pc' = "idle" /\ at' = Leaf /\ Leaf \in 1..Leaf
  BY ListAssumption DEF Return, Leaf
<1>2. TypeOK'
  BY <1>1 DEF TypeOK, Files, Sets
<1>3. PlanFits' /\ WritesFit'
  BY <1>1 DEF PlanFits, WritesFit, Appending, Writing, MaskSteps, OffsetSteps
<1> QED BY <1>2, <1>3 DEF ListInv, RowsRead

\* The call returns.
LEMMA FinishInv == ASSUME ListInv, Finish PROVE ListInv' /\ Committed' = Committed
BY FileKept, ReturnInv DEF Finish, fileVars, ListInv

\* Table.truncate begins.
LEMMA TruncateInv ==
  ASSUME ListInv, NEW n \in 0..MaxRows, Truncate(n)
  PROVE  ListInv' /\ Committed' = Committed
<1>1. /\ n < nrows /\ pc' = "commit" /\ at' = 1 /\ plan' = [NoPlan EXCEPT !.n = n]
      /\ UNCHANGED <<nrows, offs, mask, leaf>>
  BY DEF Truncate, fileVars
<1>2. Files' /\ CommittedFit' /\ Committed' = Committed /\ nrows' \in 0..MaxRows
  BY <1>1, FileKept
<1>3. plan'.n = n /\ plan'.rows = <<>>
  BY <1>1 DEF NoPlan
<1>4. ~Appending' /\ plan'.n \in 0..nrows'
  <2>1. nrows \in Nat /\ n \in Nat
    BY ListAssumption DEF ListInv, TypeOK
  <2> QED BY <1>1, <1>3, <2>1 DEF Appending, Writing, MaskSteps, OffsetSteps
<1>5. PlanFits' /\ WritesFit'
  BY <1>1, <1>4 DEF PlanFits, WritesFit, MaskSteps, OffsetSteps
<1>6. TypeOK'
  BY <1>1, <1>2, ListAssumption DEF TypeOK, Files, Sets, Leaf
<1> QED BY <1>2, <1>5, <1>6 DEF ListInv, RowsRead

\* The append fails, or its process dies inside a write.
LEMMA InterruptInv == ASSUME ListInv, Interrupt PROVE ListInv' /\ Committed' = Committed
<1>1. Return /\ UNCHANGED nrows /\ nrows \in 0..MaxRows /\ RowsRead
  BY DEF Interrupt, ListInv, TypeOK
<1>2. CASE pc = "write_leaf" /\ \E which \in SUBSET DOMAIN plan.elems : WriteLeaf(which)
  BY <1>1, <1>2, WriteLeafKeeps, ReturnInv
<1>3. CASE pc = "write_mask" /\ \E which \in SUBSET DOMAIN plan.present[at] : WriteMask(which)
  BY <1>1, <1>3, WriteMaskKeeps, ReturnInv
<1>4. CASE pc = "write_offsets" /\ \E which \in SUBSET DOMAIN plan.counts[at] : WriteOffsets(which)
  BY <1>1, <1>4, WriteOffsetsKeeps, ReturnInv
<1>5. CASE UNCHANGED <<offs, mask, leaf>>
  BY <1>1, <1>5, FileKept, ReturnInv
<1> QED BY <1>2, <1>3, <1>4, <1>5 DEF Interrupt

\* Nothing happens.
LEMMA StutterInv == ASSUME ListInv, UNCHANGED vars PROVE ListInv' /\ Committed' = Committed
<1>1. UNCHANGED <<nrows, offs, mask, leaf, pc, at, plan>>
  BY DEF vars, fileVars
<1>2. CommittedFit' /\ Starts' = Starts /\ Committed' = Committed
  BY <1>1, FileKept
<1>3. TypeOK'
  BY <1>1 DEF ListInv, TypeOK
<1>4. PlanFits'
  <2>1. Plan(plan.rows)' = Plan(plan.rows)
    BY <1>1, <1>2 DEF Plan
  <2>2. Appending' = Appending
    BY <1>1 DEF Appending
  <2> QED BY <1>1, <2>1, <2>2 DEF ListInv, PlanFits
<1>5. WritesFit'
  <2>1. /\ LeafDone' = LeafDone /\ Appending' = Appending
        /\ \A l : MaskDone(l)' = MaskDone(l) /\ OffsetsDone(l)' = OffsetsDone(l) /\ Sums(l)' = Sums(l)
    BY <1>1 DEF LeafDone, MaskDone, OffsetsDone, Sums, Appending
  <2> QED BY <1>1, <2>1 DEF ListInv, WritesFit
<1> QED BY <1>2, <1>3, <1>4, <1>5 DEF ListInv, RowsRead

\* What Next hands to an append is rows.
LEMMA BoundedRows == \A rows \in BoundedSeq(Rows, MaxBatch) : rows \in Seq(Rows) /\ Len(rows) \in Nat
<1> TAKE rows \in BoundedSeq(Rows, MaxBatch)
<1>1. PICK m \in 0..MaxBatch : rows \in [1..m -> Rows]
  BY DEF BoundedSeq, SeqOf
<1> QED BY <1>1, ListAssumption

\* Every step keeps the invariant.
LEMMA StepInv == ASSUME ListInv, [Next]_vars PROVE ListInv'
<1>1. ASSUME NEW rows \in BoundedSeq(Rows, MaxBatch), AppendRows(rows) PROVE ListInv'
  BY <1>1, BoundedRows, AppendRowsInv
<1>2. CASE Write
  BY <1>2, ExtendLeafInv, FinishLeafInv, ExtendMaskInv, FinishMaskInv, ExtendOffsetsInv, FinishOffsetsInv DEF Write
<1>3. CASE Idle \/ UNCHANGED vars
  BY <1>3, StutterInv DEF Idle
<1> QED BY <1>1, <1>2, <1>3, CommitRowsInv, FinishInv, TruncateInv, InterruptInv DEF Next

\* The inductive invariant (_write_level, append_list_column): between any two
\* writes, the committed rows are described at every level and what is written
\* behind them is what the plan says.
THEOREM ListInvHolds == Spec => []ListInv
<1>1. Init => ListInv
  BY InitInv
<1>2. ListInv /\ [Next]_vars => ListInv'
  BY StepInv
<1> QED BY <1>1, <1>2, PTL DEF Spec

\* What the invariant says of the committed rows is what validation looks at.
LEMMA InvConformant == ASSUME ListInv PROVE Conformant
BY DEF ListInv, CommittedFit, Describes, Conformant, Valid, Starts

\* Whatever the column's nesting and its rows, Table.validate accepts the
\* committed rows at every moment (validate_list_column).
THEOREM AlwaysConformant == Spec => []Conformant
<1>1. ListInv => Conformant
  BY InvConformant
<1> QED BY <1>1, ListInvHolds, PTL

\* The parts of the invariant that reading rests on.
LEMMA InvFiles == ASSUME ListInv PROVE Files /\ CommittedFit /\ nrows \in Nat
BY ListAssumption DEF ListInv, TypeOK, Files, Sets

\* Any range of the committed rows is read as that range of a whole read,
\* however deep the lists are nested and whatever a torn append left behind
\* them (read_list_column, _read_string).
THEOREM AlwaysSliceReads == Spec => []SliceReads
<1>1. ListInv => SliceReads
  BY InvFiles, InvSliceReads
<1> QED BY <1>1, ListInvHolds, PTL

\* The committed rows export at every moment, and Arrow reads from the buffers
\* what read_list_column reads (list_array, _offsets_buffer).
THEOREM AlwaysExports == Spec => []ExportsCommitted
<1>1. ListInv => ExportsCommitted
  BY InvFiles, InvExports
<1> QED BY <1>1, ListInvHolds, PTL

-----------------------------------------------------------------------------
(* The refinement: a list column is a table of one column.                 *)

\* The rows of a table of one column.
Table(r) == [c \in {"list"} |-> r]

\* Rows make a table of one column.
LEMMA TableHas == ASSUME NEW r \in Seq(Rows) PROVE Table(r) \in Abstract!Tables(Len(r))
<1>1. r \in [1..Len(r) -> Rows]
  BY LenProperties
<1> QED BY <1>1 DEF Table, Abstract!Tables

\* A write leaves the table alone.
LEMMA QuietStep ==
  ASSUME Committed' = Committed, plan' = plan, pc \notin {"idle", "done"}, pc' \notin {"idle", "done"}
  PROVE  UNCHANGED Abstract!vars
<1>1. Promised' = Promised
  BY DEF Promised
<1> QED BY <1>1 DEF Abstract!vars

\* A step that is not one of a call.
LEMMA RestStep ==
  ASSUME Committed' = Committed, plan' = plan, pc' = pc
  PROVE  UNCHANGED Abstract!vars
<1>1. Promised' = Promised
  BY DEF Promised
<1> QED BY <1>1 DEF Abstract!vars

\* A call sets out to keep the first rows and to add the ones it was given.
LEMMA CallStep ==
  ASSUME ListInv, Committed' = Committed, pc = "idle", pc' \notin {"idle", "done"},
         plan'.rows \in Seq(Rows), plan'.n \in 0..MaxRows, plan'.n \in 0..(nrows + Len(plan'.rows))
  PROVE  Abstract!Next
<1>1. Committed \in Seq(Rows) /\ Len(Committed) = nrows /\ nrows \in 0..MaxRows
  BY CommittedRows DEF ListInv, TypeOK
<1> DEFINE goal == SubSeq(Committed \o plan'.rows, 1, plan'.n)
<1>2. Promised' = goal
  BY DEF Promised
<1>3. goal \in Seq(Rows) /\ Len(goal) = plan'.n /\ \A i \in 1..plan'.n : i <= nrows => goal[i] = Committed[i]
  <2> DEFINE s == Committed
             t == plan'.rows
             n == plan'.n
  <2>1. s \in Seq(Rows) /\ t \in Seq(Rows) /\ n \in 0..(Len(s) + Len(t)) /\ Len(s) = nrows
    BY <1>1
  <2> HIDE DEF s, t, n
  <2>2. /\ SubSeq(s \o t, 1, n) \in Seq(Rows) /\ Len(SubSeq(s \o t, 1, n)) = n
        /\ \A i \in 1..n : i <= Len(s) => SubSeq(s \o t, 1, n)[i] = s[i]
    BY <2>1, FirstRows
  <2> QED BY <2>1, <2>2 DEF s, t, n
<1> HIDE DEF goal
<1>4. Table(Committed) \in Abstract!Tables(nrows) /\ Table(goal) \in Abstract!Tables(plan'.n)
  <2>1. Table(Committed) \in Abstract!Tables(Len(Committed))
    BY <1>1, TableHas
  <2>2. Table(goal) \in Abstract!Tables(Len(goal))
    BY <1>3, TableHas
  <2> QED BY <1>1, <1>3, <2>1, <2>2
<1>5. \A r \in 1..(IF plan'.n < nrows THEN plan'.n ELSE nrows) : goal[r] = Committed[r]
  BY <1>1, <1>3
<1>6. Abstract!Call(nrows, plan'.n)
  BY <1>2, <1>4, <1>5 DEF Abstract!Call, Abstract!Agrees, Table
<1> QED BY <1>1, <1>6 DEF Abstract!Next

\* The instant at which the promised rows appear.
LEMMA CommitStep ==
  ASSUME Committed' = Promised, Promised' = Promised, pc = "commit", pc' = "done"
  PROVE  Abstract!Next
<1>1. Abstract!Commit
  BY DEF Abstract!Commit
<1> QED BY <1>1 DEF Abstract!Next

\* The end of a call.
LEMMA ReturnStep ==
  ASSUME Committed' = Committed, pc # "idle", pc' = "idle"
  PROVE  Abstract!Next
<1>1. Abstract!Return
  BY DEF Abstract!Return
<1> QED BY <1>1 DEF Abstract!Next

\* Every step is one of the abstract table, or none.
LEMMA StepRefines == ASSUME ListInv, [Next]_vars PROVE Abstract!Next \/ UNCHANGED Abstract!vars
<1>1. ASSUME NEW rows \in BoundedSeq(Rows, MaxBatch), AppendRows(rows)
      PROVE  Abstract!Next \/ UNCHANGED Abstract!vars
  <2>1. rows \in Seq(Rows) /\ Len(rows) \in Nat
    BY BoundedRows
  <2>2. Committed' = Committed
    BY <1>1, <2>1, AppendRowsInv
  <2>3. CASE Encodable(rows)
    <3>1. pc = "idle" /\ pc' = "extend_leaf" /\ plan' = Plan(rows) /\ nrows + Len(rows) <= MaxRows
      BY <1>1, <2>3 DEF AppendRows
    <3>2. plan'.rows = rows /\ plan'.n = nrows + Len(rows)
      BY <3>1 DEF Plan
    <3>3. nrows \in Nat
      BY CommittedRows
    <3>4. plan'.n \in 0..MaxRows /\ plan'.n \in 0..(nrows + Len(plan'.rows))
      BY <2>1, <3>1, <3>2, <3>3, ListAssumption
    <3> QED BY <2>1, <2>2, <3>1, <3>2, <3>4, CallStep
  <2>4. CASE ~Encodable(rows)
    <3>1. pc' = pc /\ plan' = plan
      BY <1>1, <2>4 DEF AppendRows
    <3> QED BY <2>2, <3>1, RestStep
  <2> QED BY <2>3, <2>4
<1>2. CASE Write
  <2>1. Committed' = Committed
    BY <1>2, ExtendLeafInv, FinishLeafInv, ExtendMaskInv, FinishMaskInv, ExtendOffsetsInv, FinishOffsetsInv DEF Write
  <2>2. plan' = plan /\ pc \notin {"idle", "done"} /\ pc' \notin {"idle", "done"}
    BY <1>2 DEF Write, ExtendLeaf, FinishLeaf, ExtendMask, FinishMask, ExtendOffsets, FinishOffsets, Above, Goto
  <2> QED BY <2>1, <2>2, QuietStep
<1>3. CASE CommitRows
  <2>1. pc = "commit" /\ pc' = "done" /\ plan' = plan
    BY <1>3 DEF CommitRows
  <2>2. Committed' = Promised /\ Promised \in Seq(Rows)
    BY <1>3, CommitRowsInv
  <2>3. Promised' = Promised
    BY <1>3, PromiseKept
  <2> QED BY <2>1, <2>2, <2>3, CommitStep
<1>4. CASE Finish
  BY <1>4, FinishInv, ReturnStep DEF Finish, Return
<1>5. ASSUME NEW n \in 0..MaxRows, Truncate(n) PROVE Abstract!Next
  <2>1. Committed' = Committed
    BY <1>5, TruncateInv
  <2>2. pc = "idle" /\ pc' = "commit" /\ n < nrows /\ plan'.n = n /\ plan'.rows = <<>>
    BY <1>5 DEF Truncate, NoPlan
  <2>3. nrows \in Nat /\ n \in Nat
    BY CommittedRows, ListAssumption
  <2>4. plan'.rows \in Seq(Rows) /\ Len(plan'.rows) = 0
    BY <2>2, EmptySeq
  <2>5. plan'.n \in 0..(nrows + Len(plan'.rows))
    BY <2>2, <2>3, <2>4
  <2> QED BY <2>1, <2>2, <2>4, <2>5, CallStep
<1>6. CASE Interrupt
  <2>1. pc # "idle" /\ pc' = "idle"
    BY <1>6 DEF Interrupt, Return
  <2> QED BY <1>6, <2>1, InterruptInv, ReturnStep
<1>7. CASE Idle \/ UNCHANGED vars
  BY <1>7, StutterInv, RestStep DEF Idle, vars
<1> QED BY <1>1, <1>2, <1>3, <1>4, <1>5, <1>6, <1>7 DEF Next

\* An empty column is an empty table.
LEMMA InitRefines == Init => Abstract!Init
<1> SUFFICES ASSUME Init PROVE Abstract!Init
  OBVIOUS
<1>1. Committed \in Seq(Rows) /\ Len(Committed) = 0
  BY InitInv, CommittedRows DEF Init
<1>2. Table(Committed) \in Abstract!Tables(0)
  <2>1. Table(Committed) \in Abstract!Tables(Len(Committed))
    BY <1>1, TableHas
  <2> QED BY <1>1, <2>1
<1> QED BY <1>2 DEF Init, Abstract!Init, Table

\* Whatever the nesting, the rows and the bounds, appends and truncations of a
\* list column are atomic for whoever reads NROWS rows: the reader sees exactly
\* the rows the calls gave, whatever torn appends left in the reserved tails of
\* the levels (append_list_column, _write_level, read_list_column).
THEOREM ListImplemented == Spec => ImplementsTable
<1>1. ListInv /\ [Next]_vars => [Abstract!Next]_(Abstract!vars)
  BY StepRefines
<1> QED BY <1>1, InitRefines, ListInvHolds, PTL DEF Spec, ImplementsTable, Abstract!Spec
=============================================================================
