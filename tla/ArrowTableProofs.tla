--------------------------- MODULE ArrowTableProofs ---------------------------
(***************************************************************************)
(* Proofs about ArrowTable: ArrowInv is an invariant for any Arrow tables, *)
(* specs, datatypes and depth of lists, and from it every value that an    *)
(* import takes comes back in the export, exports come back as they were,  *)
(* inferred specs are never refused late, and suggested fills work.        *)
(***************************************************************************)
EXTENDS ArrowTableInvariant, FiniteSetTheorems, SequenceTheorems, WellFoundedInduction, TLAPS

-----------------------------------------------------------------------------
(* Numbers and finite sets.                                                *)

\* A nonempty set of naturals has a least element.
LEMMA LeastNat ==
  ASSUME NEW T, T \subseteq Nat, T # {}
  PROVE  \E x \in T : \A y \in T : x <= y
<1>1. IsWellFoundedOn(OpToRel(<, Nat), Nat)
  BY NatLessThanWellFounded, Zenon
<1>2. PICK x \in T : \A y \in T : ~(<<y, x>> \in OpToRel(<, Nat))
  BY <1>1, WFMin, Zenon
<1>3. \A y \in T : ~(y < x)
  BY <1>2, Zenon DEF OpToRel
<1> QED BY <1>3

\* A set with 0 and the successor of each of its naturals has all naturals.
LEMMA NatSetInduction ==
  ASSUME NEW S, 0 \in S, \A n \in Nat : n \in S => n + 1 \in S
  PROVE  Nat \subseteq S
<1> SUFFICES ASSUME Nat \ S # {} PROVE FALSE
  OBVIOUS
<1>1. PICK x \in Nat \ S : \A y \in Nat \ S : x <= y
  BY LeastNat
<1>2. x # 0 /\ x - 1 \in Nat /\ x - 1 \in S
  BY <1>1
<1> QED BY <1>1, <1>2

\* A proper subset of a finite set has fewer elements.
LEMMA StrictSubset ==
  ASSUME NEW S, IsFiniteSet(S), NEW T, T \subseteq S, T # S
  PROVE  /\ IsFiniteSet(T) /\ Cardinality(T) \in Nat /\ Cardinality(S) \in Nat
         /\ Cardinality(T) < Cardinality(S)
<1>1. T \in SUBSET S
  OBVIOUS
<1>2. /\ IsFiniteSet(T) /\ Cardinality(T) <= Cardinality(S)
      /\ Cardinality(S) = Cardinality(T) => S = T
  BY <1>1, FS_Subset
<1>3. Cardinality(T) \in Nat /\ Cardinality(S) \in Nat
  BY <1>2, FS_CardinalityType
<1> QED BY <1>2, <1>3

\* A finite nonempty set of integers has a least and a greatest element: the
\* one with the fewest elements under it, and over it.
LEMMA Extremes ==
  ASSUME NEW T, T \subseteq Int, IsFiniteSet(T), T # {}
  PROVE  /\ \E x \in T : \A y \in T : x <= y
         /\ \E x \in T : \A y \in T : x >= y
<1> DEFINE Under == [x \in T |-> {z \in T : z < x}]
           Over  == [x \in T |-> {z \in T : z > x}]
<1>1. \A x \in T : /\ IsFiniteSet(Under[x]) /\ IsFiniteSet(Over[x])
                   /\ Cardinality(Under[x]) \in Nat /\ Cardinality(Over[x]) \in Nat
  <2> SUFFICES ASSUME NEW x \in T
               PROVE /\ IsFiniteSet(Under[x]) /\ IsFiniteSet(Over[x])
                     /\ Cardinality(Under[x]) \in Nat /\ Cardinality(Over[x]) \in Nat
    OBVIOUS
  <2>1. Under[x] \subseteq T /\ Over[x] \subseteq T
    OBVIOUS
  <2> QED BY <2>1, FS_Subset, FS_CardinalityType
<1>2. \A x, y \in T : y < x => Cardinality(Under[y]) < Cardinality(Under[x])
  <2> SUFFICES ASSUME NEW x \in T, NEW y \in T, y < x
               PROVE Cardinality(Under[y]) < Cardinality(Under[x])
    OBVIOUS
  <2>1. x \in Int /\ y \in Int
    OBVIOUS
  <2>2. \A z \in T : z \in Under[y] => z \in Under[x]
    <3> SUFFICES ASSUME NEW z \in T, z < y PROVE z < x
      OBVIOUS
    <3>1. z \in Int
      OBVIOUS
    <3> QED BY <3>1, <2>1
  <2>3. y \in Under[x] /\ y \notin Under[y]
    BY <2>1
  <2>4. Under[y] \subseteq Under[x] /\ Under[y] # Under[x]
    BY <2>2, <2>3
  <2> HIDE DEF Under
  <2> QED BY <2>4, <1>1, StrictSubset
<1>3. \A x, y \in T : y > x => Cardinality(Over[y]) < Cardinality(Over[x])
  <2> SUFFICES ASSUME NEW x \in T, NEW y \in T, y > x
               PROVE Cardinality(Over[y]) < Cardinality(Over[x])
    OBVIOUS
  <2>1. x \in Int /\ y \in Int
    OBVIOUS
  <2>2. \A z \in T : z \in Over[y] => z \in Over[x]
    <3> SUFFICES ASSUME NEW z \in T, z > y PROVE z > x
      OBVIOUS
    <3>1. z \in Int
      OBVIOUS
    <3> QED BY <3>1, <2>1
  <2>3. y \in Over[x] /\ y \notin Over[y]
    BY <2>1
  <2>4. Over[y] \subseteq Over[x] /\ Over[y] # Over[x]
    BY <2>2, <2>3
  <2> HIDE DEF Over
  <2> QED BY <2>4, <1>1, StrictSubset
<1> HIDE DEF Under, Over
<1>4. \E x \in T : \A y \in T : x <= y
  <2> DEFINE C == {Cardinality(Under[x]) : x \in T}
  <2>1. C \subseteq Nat /\ C # {}
    BY <1>1
  <2>2. \E c \in C : \A d \in C : c <= d
    <3> HIDE DEF C
    <3> QED BY <2>1, LeastNat
  <2>3. PICK x \in T : \A y \in T : Cardinality(Under[x]) <= Cardinality(Under[y])
    BY <2>2
  <2>4. \A y \in T : ~(y < x)
    BY <2>3, <1>1, <1>2
  <2> QED BY <2>4
<1>5. \E x \in T : \A y \in T : x >= y
  <2> DEFINE C == {Cardinality(Over[x]) : x \in T}
  <2>1. C \subseteq Nat /\ C # {}
    BY <1>1
  <2>2. \E c \in C : \A d \in C : c <= d
    <3> HIDE DEF C
    <3> QED BY <2>1, LeastNat
  <2>3. PICK x \in T : \A y \in T : Cardinality(Over[x]) <= Cardinality(Over[y])
    BY <2>2
  <2>4. \A y \in T : ~(y > x)
    BY <2>3, <1>1, <1>3
  <2> QED BY <2>4
<1> QED BY <1>4, <1>5

-----------------------------------------------------------------------------
(* Sequences.                                                              *)

\* A set with the empty sequence that is closed under Append has all sequences.
LEMMA SeqSetInduction ==
  ASSUME NEW S, NEW P, <<>> \in P, \A s \in Seq(S) : \A x \in S : s \in P => Append(s, x) \in P
  PROVE  Seq(S) \subseteq P
<1> DEFINE N == {n \in Nat : \A s \in Seq(S) : Len(s) = n => s \in P}
<1>1. 0 \in N
  BY EmptySeq
<1>2. ASSUME NEW n \in Nat, n \in N PROVE n + 1 \in N
  <2> SUFFICES ASSUME NEW s \in Seq(S), Len(s) = n + 1 PROVE s \in P
    OBVIOUS
  <2>1. s # <<>>
    BY EmptySeq
  <2>2. PICK t \in Seq(S), x \in S : s = Append(t, x)
    BY <2>1, SequenceEmptyOrAppend
  <2>3. Len(t) = n
    BY <2>2, AppendProperties, LenProperties
  <2> QED BY <1>2, <2>2, <2>3
<1>3. Nat \subseteq N
  <2> HIDE DEF N
  <2> QED BY <1>1, <1>2, NatSetInduction
<1> QED BY <1>3, LenProperties

\* FlattenSeq, prefix by prefix.
LEMMA FlattenSteps ==
  ASSUME NEW S, NEW ss \in Seq(Seq(S))
  PROVE  \E first \in [0..Len(ss) -> Seq(S)] :
           /\ first[0] = <<>>
           /\ \A k \in 1..Len(ss) : first[k] = first[k - 1] \o ss[k]
           /\ FlattenSeq(ss) = first[Len(ss)]
<1> DEFINE n == Len(ss)
           Body(f) == [i \in 1..n |-> IF i = 1 THEN ss[i] ELSE f[i - 1] \o ss[i]]
           Right(f, k) == \A i \in 1..n : i <= k => f[i] = Body(f)[i]
           N == {k \in Nat : \E f : f = [i \in 1..n |-> f[i]] /\ Right(f, k)}
           M(f) == {k \in Nat : k \in 1..n => f[k] \in Seq(S)}
<1>0. n \in Nat /\ \A i \in 1..n : ss[i] \in Seq(S)
  BY LenProperties, ElementOfSeq
<1>1. \E f : f = Body(f)
  <2>1. 0 \in N
    <3> DEFINE h == [i \in 1..n |-> <<>>]
    <3>1. h = [i \in 1..n |-> h[i]]
      OBVIOUS
    <3>2. Right(h, 0)
      BY <1>0
    <3> HIDE DEF h, Right
    <3> QED BY <3>1, <3>2
  <2>2. ASSUME NEW k \in Nat, k \in N PROVE k + 1 \in N
    <3>1. PICK f : f = [i \in 1..n |-> f[i]] /\ Right(f, k)
      BY <2>2
    <3> DEFINE g == Body(f)
    <3>2. g = [i \in 1..n |-> g[i]]
      OBVIOUS
    <3>3. ASSUME NEW i \in 1..n, i <= k + 1 PROVE g[i] = Body(g)[i]
      <4>1. CASE i = 1
        BY <4>1
      <4>2. CASE i # 1
        <5>1. i - 1 \in 1..n /\ i - 1 <= k
          BY <4>2, <3>3, <1>0
        <5>2. f[i - 1] = g[i - 1]
          BY <3>1, <5>1
        <5>3. g[i] = f[i - 1] \o ss[i] /\ Body(g)[i] = g[i - 1] \o ss[i]
          BY <4>2
        <5> QED BY <5>2, <5>3
      <4> QED BY <4>1, <4>2
    <3>4. Right(g, k + 1)
      <4> HIDE DEF g
      <4> QED BY <3>3
    <3> HIDE DEF g, Right
    <3> QED BY <3>2, <3>4
  <2>3. Nat \subseteq N
    <3> HIDE DEF N
    <3> QED BY <2>1, <2>2, NatSetInduction
  <2>4. PICK f : f = [i \in 1..n |-> f[i]] /\ Right(f, n)
    BY <1>0, <2>3
  <2>5. \A i \in 1..n : f[i] = Body(f)[i]
    <3> HIDE DEF Body
    <3> QED BY <2>4, <1>0
  <2>6. Body(f) = [i \in 1..n |-> Body(f)[i]]
    OBVIOUS
  <2>7. f = Body(f)
    <3> HIDE DEF Body
    <3> QED BY <2>4, <2>5, <2>6
  <2> HIDE DEF Body
  <2> QED BY <2>7
<1> DEFINE f == CHOOSE f_1 : f_1 = Body(f_1)
<1>2. f = Body(f)
  <2> HIDE DEF Body
  <2> QED BY <1>1
<1> HIDE DEF f
<1>3. ASSUME NEW k \in Nat, k \in M(f) PROVE k + 1 \in M(f)
  <2> SUFFICES ASSUME k + 1 \in 1..n PROVE f[k + 1] \in Seq(S)
    OBVIOUS
  <2>1. CASE k = 0
    <3>1. Body(f)[1] = ss[1] /\ ss[1] \in Seq(S)
      BY <1>0, <2>1
    <3> HIDE DEF Body
    <3> QED BY <2>1, <3>1, <1>2
  <2>2. CASE k # 0
    <3>1. k \in 1..n /\ f[k] \in Seq(S) /\ (k + 1) - 1 = k /\ k + 1 # 1
      BY <2>2, <1>0, <1>3
    <3>2. Body(f)[k + 1] = f[k] \o ss[k + 1]
      BY <3>1
    <3>3. f[k] \o ss[k + 1] \in Seq(S)
      BY <3>1, <1>0, ConcatProperties
    <3> HIDE DEF Body
    <3> QED BY <3>2, <3>3, <1>2
  <2> QED BY <2>1, <2>2
<1>4. Nat \subseteq M(f)
  <2>1. 0 \in M(f)
    OBVIOUS
  <2> HIDE DEF M
  <2> QED BY <2>1, <1>3, NatSetInduction
<1>5. \A k \in 1..n : f[k] \in Seq(S)
  BY <1>4
<1> DEFINE first == [k \in 0..n |-> IF k = 0 THEN <<>> ELSE f[k]]
<1>7. first \in [0..n -> Seq(S)]
  <2>1. \A k \in 0..n : k # 0 => k \in 1..n
    BY <1>0
  <2> QED BY <2>1, <1>5, EmptySeq
<1>8. FlattenSeq(ss) = first[n]
  <2>1. n = 0 => ss = <<>>
    BY EmptySeq, <1>0
  <2>2. CASE n = 0
    BY <2>1, <2>2 DEF FlattenSeq
  <2>3. CASE n # 0
    <3>1. FlattenSeq(ss) = f[n]
      BY <2>3 DEF FlattenSeq, f
    <3>2. first[n] = f[n]
      BY <2>3, <1>0
    <3> QED BY <3>1, <3>2
  <2> QED BY <2>2, <2>3
<1>9. ASSUME NEW k \in 1..n PROVE first[k] = first[k - 1] \o ss[k]
  <2>0. first[k] = f[k] /\ k - 1 \in 0..n
    BY <1>0
  <2>1. CASE k = 1
    <3>1. f[1] = ss[1] /\ first[0] = <<>>
      BY <1>2, <2>1, <1>9, <1>0
    <3>2. <<>> \o ss[1] = ss[1]
      BY <1>0, <2>1, ConcatEmptySeq
    <3> QED BY <2>0, <2>1, <3>1, <3>2
  <2>2. CASE k # 1
    <3>1. Body(f)[k] = f[k - 1] \o ss[k]
      BY <2>2
    <3>2. first[k - 1] = f[k - 1]
      BY <2>2, <2>0
    <3> HIDE DEF Body
    <3> QED BY <2>0, <3>1, <3>2, <1>2
  <2> QED BY <2>1, <2>2
<1> HIDE DEF first
<1>10. first[0] = <<>>
  BY <1>0 DEF first
<1> QED BY <1>7, <1>8, <1>9, <1>10

\* One more sequence at the end.
LEMMA FlattenGrows ==
  ASSUME NEW S, NEW ss \in Seq(Seq(S)), NEW x \in Seq(S)
  PROVE  /\ FlattenSeq(ss) \in Seq(S)
         /\ FlattenSeq(Append(ss, x)) = FlattenSeq(ss) \o x
<1> DEFINE n == Len(ss)
           tt == Append(ss, x)
<1>0. n \in Nat /\ tt \in Seq(Seq(S)) /\ Len(tt) = n + 1 /\ tt[n + 1] = x /\ \A k \in 1..n : tt[k] = ss[k]
  BY LenProperties, AppendProperties
<1>1. PICK f \in [0..n -> Seq(S)] :
        f[0] = <<>> /\ (\A k \in 1..n : f[k] = f[k - 1] \o ss[k]) /\ FlattenSeq(ss) = f[n]
  BY FlattenSteps
<1> HIDE DEF tt
<1>2. PICK g \in [0..(n + 1) -> Seq(S)] :
        g[0] = <<>> /\ (\A k \in 1..(n + 1) : g[k] = g[k - 1] \o tt[k]) /\ FlattenSeq(tt) = g[n + 1]
  <2>1. \E g \in [0..Len(tt) -> Seq(S)] :
          g[0] = <<>> /\ (\A k \in 1..Len(tt) : g[k] = g[k - 1] \o tt[k]) /\ FlattenSeq(tt) = g[Len(tt)]
    BY <1>0, FlattenSteps
  <2> QED BY <1>0, <2>1
<1> HIDE DEF n
<1> DEFINE P == {k \in Nat : k <= n => f[k] = g[k]}
<1>3. ASSUME NEW k \in Nat, k \in P, k + 1 <= n PROVE f[k + 1] = g[k + 1]
  <2>1. f[k] = g[k] /\ k + 1 \in 1..n /\ k + 1 \in 1..(n + 1) /\ (k + 1) - 1 = k
    BY <1>3, <1>0
  <2>2. f[k + 1] = f[k] \o ss[k + 1]
    BY <2>1, <1>1
  <2>3. g[k + 1] = g[k] \o tt[k + 1]
    BY <2>1, <1>2
  <2> QED BY <2>1, <2>2, <2>3, <1>0
<1>4. Nat \subseteq P
  <2>1. 0 \in P
    BY <1>1, <1>2
  <2>2. \A k \in Nat : k \in P => k + 1 \in P
    BY <1>3
  <2> HIDE DEF P
  <2> QED BY <2>1, <2>2, NatSetInduction
<1>5. f[n] = g[n]
  BY <1>0, <1>4
<1>6. g[n + 1] = g[n] \o x
  <2>1. n + 1 \in 1..(n + 1) /\ (n + 1) - 1 = n
    BY <1>0
  <2> QED BY <2>1, <1>0, <1>2
<1>7. f[n] \in Seq(S)
  BY <1>0, <1>1
<1> QED BY <1>1, <1>2, <1>5, <1>6, <1>7 DEF tt

\* What a flattened sequence has in it.
LEMMA FlattenRange ==
  ASSUME NEW S, NEW ss \in Seq(Seq(S))
  PROVE  /\ FlattenSeq(ss) \in Seq(S)
         /\ Range(FlattenSeq(ss)) = UNION {Range(ss[i]) : i \in DOMAIN ss}
<1> DEFINE P == {s \in Seq(Seq(S)) :
                   Range(FlattenSeq(s)) = UNION {Range(s[i]) : i \in DOMAIN s}}
<1>1. <<>> \in P
  <2>1. FlattenSeq(<<>>) = <<>>
    BY EmptySeq DEF FlattenSeq
  <2>2. Range(<<>>) = {} /\ DOMAIN <<>> = {} /\ <<>> \in Seq(Seq(S))
    BY EmptySeq, LenProperties DEF Range
  <2> QED BY <2>1, <2>2
<1>2. ASSUME NEW s \in Seq(Seq(S)), NEW x \in Seq(S), s \in P PROVE Append(s, x) \in P
  <2> DEFINE t == Append(s, x)
             n == Len(s)
  <2>1. FlattenSeq(t) = FlattenSeq(s) \o x /\ FlattenSeq(s) \in Seq(S)
    BY FlattenGrows
  <2>2. n \in Nat /\ t \in Seq(Seq(S)) /\ DOMAIN s = 1..n /\ DOMAIN t = 1..(n + 1)
        /\ t[n + 1] = x /\ \A k \in 1..n : t[k] = s[k]
    BY LenProperties, AppendProperties
  <2>3. Range(FlattenSeq(t)) = Range(FlattenSeq(s)) \cup Range(x)
    BY <2>1, RangeConcatenation
  <2>4. Range(FlattenSeq(s)) = UNION {Range(s[i]) : i \in DOMAIN s}
    BY <1>2
  <2> HIDE DEF t, n
  <2>5. UNION {Range(t[i]) : i \in DOMAIN t} = (UNION {Range(s[i]) : i \in DOMAIN s}) \cup Range(x)
    <3>1. \A i \in DOMAIN s : i \in DOMAIN t /\ t[i] = s[i]
      BY <2>2
    <3>2. \A i \in DOMAIN t : i \in DOMAIN s \/ t[i] = x
      BY <2>2
    <3>3. n + 1 \in DOMAIN t
      BY <2>2
    <3> QED BY <2>2, <3>1, <3>2, <3>3
  <2>6. t \in P
    BY <2>2, <2>3, <2>4, <2>5
  <2> QED BY <2>6 DEF t
<1>3. Seq(Seq(S)) \subseteq P
  <2> HIDE DEF P
  <2> QED BY <1>1, <1>2, SeqSetInduction
<1>4. FlattenSeq(ss) \in Seq(S)
  <2>1. <<>> \in Seq(S)
    BY EmptySeq
  <2> QED BY <2>1, FlattenGrows
<1> QED BY <1>3, <1>4

-----------------------------------------------------------------------------
(* The levels of nested lists.                                             *)

\* Level goes down one level at a time.
LEMMA LevelSteps ==
  ASSUME NEW cells, NEW n \in Nat
  PROVE  \E f : /\ f = [k \in 0..n |-> f[k]]
                /\ f[0] = cells /\ \A k \in 1..n : f[k] = flatten(f[k - 1])
                /\ Level(cells, n) = f[n]
<1> DEFINE Body(f) == [k \in 0..n |-> IF k = 0 THEN cells ELSE flatten(f[k - 1])]
           Right(f, m) == \A k \in 0..n : k < m => f[k] = Body(f)[k]
           N == {m \in Nat : \E f : f = [k \in 0..n |-> f[k]] /\ Right(f, m)}
<1>1. 0 \in N
  <2> DEFINE h == [k \in 0..n |-> <<>>]
  <2>1. h = [k \in 0..n |-> h[k]]
    OBVIOUS
  <2>2. Right(h, 0)
    OBVIOUS
  <2> HIDE DEF h, Right
  <2> QED BY <2>1, <2>2
<1>2. ASSUME NEW m \in Nat, m \in N PROVE m + 1 \in N
  <2>1. PICK f : f = [k \in 0..n |-> f[k]] /\ Right(f, m)
    BY <1>2
  <2> DEFINE g == Body(f)
  <2>2. g = [k \in 0..n |-> g[k]]
    OBVIOUS
  <2>3. ASSUME NEW k \in 0..n, k < m + 1 PROVE g[k] = Body(g)[k]
    <3>1. CASE k = 0
      BY <3>1
    <3>2. CASE k # 0
      <4>1. k - 1 \in 0..n /\ k - 1 < m
        BY <3>2, <2>3
      <4>2. f[k - 1] = g[k - 1]
        BY <2>1, <4>1
      <4>3. g[k] = flatten(f[k - 1]) /\ Body(g)[k] = flatten(g[k - 1])
        BY <3>2
      <4> HIDE DEF g
      <4> QED BY <4>2, <4>3
    <3> QED BY <3>1, <3>2
  <2>4. Right(g, m + 1)
    <3> HIDE DEF g
    <3> QED BY <2>3
  <2> HIDE DEF g, Right
  <2> QED BY <2>2, <2>4
<1>3. Nat \subseteq N
  <2> HIDE DEF N
  <2> QED BY <1>1, <1>2, NatSetInduction
<1>4. PICK f : f = [k \in 0..n |-> f[k]] /\ Right(f, n + 1)
  BY <1>3
<1>5. f = Body(f)
  <2>1. \A k \in 0..n : f[k] = Body(f)[k]
    <3> HIDE DEF Body
    <3> QED BY <1>4
  <2>2. Body(f) = [k \in 0..n |-> Body(f)[k]]
    OBVIOUS
  <2> HIDE DEF Body
  <2> QED BY <1>4, <2>1, <2>2
<1> DEFINE level == CHOOSE f_1 : f_1 = Body(f_1)
<1>6. level = Body(level)
  <2> HIDE DEF Body
  <2> QED BY <1>5
<1>7. Level(cells, n) = level[n]
  BY DEF Level
<1> HIDE DEF level
<1>8. level = [k \in 0..n |-> level[k]]
  BY <1>6
<1>9. level[0] = cells
  BY <1>6
<1>10. ASSUME NEW k \in 1..n PROVE level[k] = flatten(level[k - 1])
  <2>1. Body(level)[k] = flatten(level[k - 1])
    OBVIOUS
  <2> HIDE DEF Body
  <2> QED BY <2>1, <1>6
<1> QED BY <1>7, <1>8, <1>9, <1>10

\* A list column at its top, and one level further down.
LEMMA LevelDown ==
  ASSUME NEW cells, NEW n \in Nat
  PROVE  Level(cells, 0) = cells /\ Level(cells, n + 1) = flatten(Level(cells, n))
<1>1. Level(cells, 0) = cells
  <2>1. PICK f : f[0] = cells /\ Level(cells, 0) = f[0]
    BY LevelSteps, 0 \in Nat
  <2> QED BY <2>1
<1>2. PICK f : f[0] = cells /\ (\A k \in 1..n : f[k] = flatten(f[k - 1])) /\ Level(cells, n) = f[n]
  <2>1. \E f : /\ f = [k \in 0..n |-> f[k]]
               /\ f[0] = cells /\ \A k \in 1..n : f[k] = flatten(f[k - 1])
               /\ Level(cells, n) = f[n]
    BY LevelSteps
  <2> QED BY <2>1, Zenon
<1>3. PICK g : g[0] = cells /\ (\A k \in 1..(n + 1) : g[k] = flatten(g[k - 1])) /\ Level(cells, n + 1) = g[n + 1]
  <2>1. n + 1 \in Nat
    OBVIOUS
  <2>2. \E h : /\ h = [k \in 0..(n + 1) |-> h[k]]
               /\ h[0] = cells /\ \A k \in 1..(n + 1) : h[k] = flatten(h[k - 1])
               /\ Level(cells, n + 1) = h[n + 1]
    BY <2>1, LevelSteps
  <2> QED BY <2>2, Zenon
<1> DEFINE P == {k \in Nat : k <= n => f[k] = g[k]}
<1>4. \A k \in Nat : k \in P => k + 1 \in P
  <2> SUFFICES ASSUME NEW k \in Nat, k \in P, k + 1 <= n PROVE f[k + 1] = g[k + 1]
    OBVIOUS
  <2>1. f[k] = g[k] /\ k + 1 \in 1..n /\ k + 1 \in 1..(n + 1) /\ (k + 1) - 1 = k
    OBVIOUS
  <2>2. f[k + 1] = flatten(f[k])
    BY <2>1, <1>2
  <2>3. g[k + 1] = flatten(g[k])
    BY <2>1, <1>3
  <2> QED BY <2>1, <2>2, <2>3
<1>5. Nat \subseteq P
  <2>1. 0 \in P
    BY <1>2, <1>3
  <2> HIDE DEF P
  <2> QED BY <2>1, <1>4, NatSetInduction
<1>6. f[n] = g[n]
  BY <1>5
<1>7. g[n + 1] = flatten(g[n])
  <2>1. n + 1 \in 1..(n + 1) /\ (n + 1) - 1 = n
    OBVIOUS
  <2> QED BY <2>1, <1>3
<1> QED BY <1>1, <1>2, <1>3, <1>6, <1>7

\* Nested goes up one lists at a time.
Deepening(f, leaves, n) ==
  /\ f = [k \in 0..n |-> f[k]]
  /\ f[0] = leaves /\ \A k \in 1..n : f[k] = {Null} \cup Seq(f[k - 1])
  /\ Nested(leaves, n) = f[n]

\* The nested values, one depth after another.
LEMMA NestedSteps ==
  ASSUME NEW leaves, NEW n \in Nat
  PROVE  \E f : Deepening(f, leaves, n)
<1> DEFINE Body(f) == [k \in 0..n |-> IF k = 0 THEN leaves ELSE {Null} \cup Seq(f[k - 1])]
           Right(f, m) == \A k \in 0..n : k < m => f[k] = Body(f)[k]
           N == {m \in Nat : \E f : f = [k \in 0..n |-> f[k]] /\ Right(f, m)}
<1>1. 0 \in N
  <2> DEFINE h == [k \in 0..n |-> <<>>]
  <2>1. h = [k \in 0..n |-> h[k]]
    OBVIOUS
  <2>2. Right(h, 0)
    OBVIOUS
  <2> HIDE DEF h, Right
  <2> QED BY <2>1, <2>2
<1>2. ASSUME NEW m \in Nat, m \in N PROVE m + 1 \in N
  <2>1. PICK f : f = [k \in 0..n |-> f[k]] /\ Right(f, m)
    BY <1>2
  <2> DEFINE g == Body(f)
  <2>2. g = [k \in 0..n |-> g[k]]
    OBVIOUS
  <2>3. ASSUME NEW k \in 0..n, k < m + 1 PROVE g[k] = Body(g)[k]
    <3>1. CASE k = 0
      BY <3>1
    <3>2. CASE k # 0
      <4>1. k - 1 \in 0..n /\ k - 1 < m
        BY <3>2, <2>3
      <4>2. f[k - 1] = g[k - 1]
        BY <2>1, <4>1
      <4>3. g[k] = {Null} \cup Seq(f[k - 1]) /\ Body(g)[k] = {Null} \cup Seq(g[k - 1])
        BY <3>2
      <4> HIDE DEF g
      <4> QED BY <4>2, <4>3
    <3> QED BY <3>1, <3>2
  <2>4. Right(g, m + 1)
    <3> HIDE DEF g
    <3> QED BY <2>3
  <2> HIDE DEF g, Right
  <2> QED BY <2>2, <2>4
<1>3. Nat \subseteq N
  <2> HIDE DEF N
  <2> QED BY <1>1, <1>2, NatSetInduction
<1>4. PICK f : f = [k \in 0..n |-> f[k]] /\ Right(f, n + 1)
  <2>1. n + 1 \in N
    <3> HIDE DEF N
    <3> QED BY <1>3
  <2> HIDE DEF Right
  <2> QED BY <2>1
<1>5. f = Body(f)
  <2>1. \A k \in 0..n : f[k] = Body(f)[k]
    <3> HIDE DEF Body
    <3> QED BY <1>4
  <2>2. Body(f) = [k \in 0..n |-> Body(f)[k]]
    OBVIOUS
  <2> HIDE DEF Body
  <2> QED BY <1>4, <2>1, <2>2
<1> DEFINE lists == CHOOSE f_1 : f_1 = Body(f_1)
<1>6. lists = Body(lists)
  <2> HIDE DEF Body
  <2> QED BY <1>5
<1>7. Nested(leaves, n) = lists[n]
  BY DEF Nested
<1> HIDE DEF lists
<1>8. lists = [k \in 0..n |-> lists[k]]
  BY <1>6
<1>9. lists[0] = leaves
  BY <1>6
<1>10. ASSUME NEW k \in 1..n PROVE lists[k] = {Null} \cup Seq(lists[k - 1])
  <2>1. Body(lists)[k] = {Null} \cup Seq(lists[k - 1])
    OBVIOUS
  <2> HIDE DEF Body
  <2> QED BY <2>1, <1>6
<1> QED BY <1>7, <1>8, <1>9, <1>10 DEF Deepening

\* The values of depth 0, and of one more.
LEMMA NestedUp ==
  ASSUME NEW leaves, NEW n \in Nat
  PROVE  Nested(leaves, 0) = leaves /\ Nested(leaves, n + 1) = {Null} \cup Seq(Nested(leaves, n))
<1>1. Nested(leaves, 0) = leaves
  <2>1. PICK f : Deepening(f, leaves, 0)
    BY NestedSteps, 0 \in Nat
  <2> QED BY <2>1 DEF Deepening
<1>2. PICK f : Deepening(f, leaves, n)
  BY NestedSteps
<1>3. PICK g : Deepening(g, leaves, n + 1)
  <2>1. n + 1 \in Nat
    OBVIOUS
  <2> QED BY <2>1, NestedSteps
<1> DEFINE P == {k \in Nat : k <= n => f[k] = g[k]}
<1>4. \A k \in Nat : k \in P => k + 1 \in P
  <2> SUFFICES ASSUME NEW k \in Nat, k \in P, k + 1 <= n PROVE f[k + 1] = g[k + 1]
    OBVIOUS
  <2>1. f[k] = g[k] /\ k + 1 \in 1..n /\ k + 1 \in 1..(n + 1) /\ (k + 1) - 1 = k
    OBVIOUS
  <2>2. f[k + 1] = {Null} \cup Seq(f[k])
    BY <2>1, <1>2 DEF Deepening
  <2>3. g[k + 1] = {Null} \cup Seq(g[k])
    BY <2>1, <1>3 DEF Deepening
  <2> QED BY <2>1, <2>2, <2>3
<1>5. Nat \subseteq P
  <2>1. 0 \in P
    BY <1>2, <1>3 DEF Deepening
  <2> HIDE DEF P
  <2> QED BY <2>1, <1>4, NatSetInduction
<1>6. f[n] = g[n]
  BY <1>5
<1>7. g[n + 1] = {Null} \cup Seq(g[n])
  <2>1. n + 1 \in 1..(n + 1) /\ (n + 1) - 1 = n
    OBVIOUS
  <2> QED BY <2>1, <1>3 DEF Deepening
<1> QED BY <1>1, <1>2, <1>3, <1>6, <1>7 DEF Deepening

\* One level down, by what is on it.
LEMMA FlattenLists ==
  ASSUME NEW S, NEW cells \in Seq({Null} \cup Seq(S))
  PROVE  /\ flatten(cells) \in Seq(S)
         /\ Range(flatten(cells)) = UNION {Range(x) : x \in Range(cells) \ {Null}}
<1> DEFINE ss == [r \in DOMAIN cells |-> IF cells[r] = Null THEN <<>> ELSE cells[r]]
<1>1. ss \in Seq(Seq(S)) /\ DOMAIN ss = DOMAIN cells
  <2>1. DOMAIN cells = 1..Len(cells) /\ Len(cells) \in Nat
    BY LenProperties
  <2>2. ASSUME NEW r \in DOMAIN cells PROVE ss[r] \in Seq(S)
    <3>1. cells[r] \in {Null} \cup Seq(S)
      BY <2>1, ElementOfSeq
    <3> QED BY <3>1, EmptySeq
  <2> HIDE DEF ss
  <2>3. DOMAIN ss = DOMAIN cells /\ ss = [r \in DOMAIN cells |-> ss[r]]
    BY DEF ss
  <2> QED BY <2>1, <2>2, <2>3, IsASeq
<1>2. FlattenSeq(ss) \in Seq(S) /\ Range(FlattenSeq(ss)) = UNION {Range(ss[i]) : i \in DOMAIN ss}
  <2> HIDE DEF ss
  <2> QED BY <1>1, FlattenRange
<1>3. UNION {Range(ss[i]) : i \in DOMAIN ss} = UNION {Range(x) : x \in Range(cells) \ {Null}}
  <2>1. ASSUME NEW i \in DOMAIN ss, NEW e \in Range(ss[i])
        PROVE  e \in UNION {Range(x) : x \in Range(cells) \ {Null}}
    <3>1. Range(<<>>) = {}
      BY EmptySeq, LenProperties DEF Range
    <3>2. cells[i] # Null /\ ss[i] = cells[i]
      BY <2>1, <3>1
    <3>3. cells[i] \in Range(cells) \ {Null}
      BY <3>2 DEF Range
    <3> HIDE DEF ss
    <3> QED BY <2>1, <3>2, <3>3
  <2>2. ASSUME NEW x \in Range(cells) \ {Null}, NEW e \in Range(x)
        PROVE  e \in UNION {Range(ss[i]) : i \in DOMAIN ss}
    <3>1. PICK r \in DOMAIN cells : cells[r] = x
      BY DEF Range
    <3>2. r \in DOMAIN ss /\ ss[r] = x
      BY <3>1
    <3> HIDE DEF ss
    <3> QED BY <2>2, <3>2
  <2> HIDE DEF ss
  <2> QED BY <2>1, <2>2
<1> QED BY <1>2, <1>3 DEF flatten

\* Every level of nested lists is a sequence of lists, one level less deep.
LEMMA LevelLists ==
  ASSUME NEW S, NEW n \in Nat, NEW cells \in Seq(Nested(S, n)), NEW k \in 0..n
  PROVE  /\ Level(cells, k) \in Seq(Nested(S, n - k))
         /\ k < n => Range(Level(cells, k + 1)) = UNION {Range(x) : x \in Range(Level(cells, k)) \ {Null}}
<1> DEFINE P == {m \in Nat : m <= n => Level(cells, m) \in Seq(Nested(S, n - m))}
<1>1. 0 \in P
  <2>1. Level(cells, 0) = cells /\ n - 0 = n
    BY LevelDown
  <2> QED BY <2>1
<1>2. ASSUME NEW m \in Nat, m < n, m \in P
      PROVE  /\ m + 1 \in P
             /\ Range(Level(cells, m + 1)) = UNION {Range(x) : x \in Range(Level(cells, m)) \ {Null}}
  <2>1. n - (m + 1) \in Nat /\ (n - (m + 1)) + 1 = n - m
    BY <1>2
  <2>2. Nested(S, n - m) = {Null} \cup Seq(Nested(S, n - (m + 1)))
    BY <2>1, NestedUp
  <2>3. Level(cells, m) \in Seq({Null} \cup Seq(Nested(S, n - (m + 1))))
    BY <1>2, <2>2
  <2>4. Level(cells, m + 1) = flatten(Level(cells, m))
    BY LevelDown
  <2> QED BY <2>3, <2>4, FlattenLists
<1>3. Nat \subseteq P
  <2>1. \A m \in Nat : m \in P => m + 1 \in P
    <3> SUFFICES ASSUME NEW m \in Nat, m \in P PROVE m + 1 \in P
      OBVIOUS
    <3>1. CASE m < n
      BY <1>2, <3>1
    <3>2. CASE ~(m < n)
      BY <3>2
    <3> QED BY <3>1, <3>2
  <2> HIDE DEF P
  <2> QED BY <1>1, <2>1, NatSetInduction
<1>4. k \in Nat /\ k \in P
  <2> HIDE DEF P
  <2> QED BY <1>3
<1> QED BY <1>2, <1>4

\* A level of a column is made of that level of its values.
IsWithin(x, cells, k) == \E v \in Range(cells) : x \in Range(Level(<<v>>, k))

\* What is on a level of a column is on that level of one of its values.
LEMMA LevelOfValues ==
  ASSUME NEW S, NEW n \in Nat, NEW cells \in Seq(Nested(S, n)), NEW k \in 0..n
  PROVE  /\ \A v \in Range(cells) : Range(Level(<<v>>, k)) \subseteq Range(Level(cells, k))
         /\ \A x \in Range(Level(cells, k)) : IsWithin(x, cells, k)
<1> DEFINE All(m) == UNION {Range(Level(<<v>>, m)) : v \in Range(cells)}
           P == {m \in Nat : m <= n => Range(Level(cells, m)) = All(m)}
<1>0. \A v \in Range(cells) : <<v>> \in Seq(Nested(S, n)) /\ Range(<<v>>) = {v}
  <2> SUFFICES ASSUME NEW v \in Range(cells) PROVE <<v>> \in Seq(Nested(S, n)) /\ Range(<<v>>) = {v}
    OBVIOUS
  <2>1. v \in Nested(S, n)
    BY ElementOfSeq, LenProperties DEF Range
  <2> QED BY <2>1 DEF Range
<1>1. 0 \in P
  <2>1. Level(cells, 0) = cells /\ \A v : Level(<<v>>, 0) = <<v>>
    BY LevelDown
  <2>2. All(0) = Range(cells)
    <3>1. \A v \in Range(cells) : Range(Level(<<v>>, 0)) = {v}
      BY <2>1, <1>0
    <3>2. ASSUME NEW e \in All(0) PROVE e \in Range(cells)
      <4>1. PICK v \in Range(cells) : e \in Range(Level(<<v>>, 0))
        BY <3>2, Zenon
      <4> HIDE DEF All
      <4> QED BY <4>1, <3>1
    <3>3. \A e \in Range(cells) : e \in Range(Level(<<e>>, 0))
      BY <3>1
    <3>4. \A e \in Range(cells) : e \in All(0)
      BY <3>3
    <3> HIDE DEF All
    <3> QED BY <3>2, <3>4
  <2> HIDE DEF All
  <2> QED BY <2>1, <2>2
<1>2. ASSUME NEW m \in Nat, m \in P, m + 1 <= n PROVE Range(Level(cells, m + 1)) = All(m + 1)
  <2>1. m \in 0..n /\ m < n
    BY <1>2
  <2>2. Range(Level(cells, m)) = All(m)
    <3> HIDE DEF All
    <3> QED BY <1>2, <2>1
  <2>3. Range(Level(cells, m + 1)) = UNION {Range(x) : x \in Range(Level(cells, m)) \ {Null}}
    BY <2>1, LevelLists
  <2>4. \A v \in Range(cells) :
          Range(Level(<<v>>, m + 1)) = UNION {Range(x) : x \in Range(Level(<<v>>, m)) \ {Null}}
    <3> TAKE v \in Range(cells)
    <3> DEFINE one == <<v>>
    <3>1. one \in Seq(Nested(S, n))
      BY <1>0
    <3> HIDE DEF one
    <3>2. Range(Level(one, m + 1)) = UNION {Range(x) : x \in Range(Level(one, m)) \ {Null}}
      BY <3>1, <2>1, LevelLists
    <3> QED BY <3>2 DEF one
  <2>5. ASSUME NEW e \in Range(Level(cells, m + 1)) PROVE e \in All(m + 1)
    <3>1. PICK x \in Range(Level(cells, m)) \ {Null} : e \in Range(x)
      BY <2>3, <2>5
    <3>2. PICK v \in Range(cells) : x \in Range(Level(<<v>>, m))
      BY <2>2, <3>1
    <3>3. e \in Range(Level(<<v>>, m + 1))
      BY <2>4, <3>1, <3>2
    <3> QED BY <3>3
  <2>6. ASSUME NEW e \in All(m + 1) PROVE e \in Range(Level(cells, m + 1))
    <3>1. PICK v \in Range(cells) : e \in Range(Level(<<v>>, m + 1))
      BY <2>6
    <3>2. PICK x \in Range(Level(<<v>>, m)) \ {Null} : e \in Range(x)
      BY <2>4, <3>1
    <3>3. x \in Range(Level(cells, m))
      BY <2>2, <3>2
    <3> QED BY <2>3, <3>2, <3>3
  <2> HIDE DEF All
  <2> QED BY <2>5, <2>6
<1>3. Nat \subseteq P
  <2>1. \A m \in Nat : m \in P => m + 1 \in P
    <3> SUFFICES ASSUME NEW m \in Nat, m \in P PROVE m + 1 \in P
      OBVIOUS
    <3>1. m + 1 <= n => Range(Level(cells, m + 1)) = All(m + 1)
      BY <1>2
    <3> HIDE DEF All
    <3> QED BY <3>1
  <2> HIDE DEF P
  <2> QED BY <1>1, <2>1, NatSetInduction
<1>4. k \in Nat /\ k <= n /\ k \in P
  <2> HIDE DEF P
  <2> QED BY <1>3
<1>5. Range(Level(cells, k)) = All(k)
  <2> HIDE DEF All
  <2> QED BY <1>4
<1> QED BY <1>5 DEF IsWithin

\* What on_leaves makes of the lists on each level.
Lifting(at, image, n, v) ==
  /\ at = [k \in 0..n |-> at[k]]
  /\ at[0] = image
  /\ \A k \in 1..n :
       at[k] = [x \in Range(Level(<<v>>, n - k)) |->
                  IF x = Null THEN Null ELSE [j \in DOMAIN x |-> at[k - 1][x[j]]]]
  /\ on_leaves(image, n, v) = at[n][v]

\* on_leaves, one level after another.
LEMMA LeavesSteps ==
  ASSUME NEW image, NEW n \in Nat, NEW v
  PROVE  \E at : Lifting(at, image, n, v)
<1> DEFINE Up(k, below) == [x \in Range(Level(<<v>>, n - k)) |->
                              IF x = Null THEN Null ELSE [j \in DOMAIN x |-> below[x[j]]]]
           Body(f) == [k \in 0..n |-> IF k = 0 THEN image ELSE Up(k, f[k - 1])]
           Right(f, m) == \A k \in 0..n : k < m => f[k] = Body(f)[k]
           N == {m \in Nat : \E f : f = [k \in 0..n |-> f[k]] /\ Right(f, m)}
<1> HIDE DEF Up
<1>1. 0 \in N
  <2> DEFINE h == [k \in 0..n |-> <<>>]
  <2>1. h = [k \in 0..n |-> h[k]]
    OBVIOUS
  <2>2. Right(h, 0)
    OBVIOUS
  <2> HIDE DEF h, Right
  <2> QED BY <2>1, <2>2
<1>2. ASSUME NEW m \in Nat, m \in N PROVE m + 1 \in N
  <2>1. PICK f : f = [k \in 0..n |-> f[k]] /\ Right(f, m)
    BY <1>2
  <2> DEFINE g == Body(f)
  <2>2. g = [k \in 0..n |-> g[k]]
    OBVIOUS
  <2>3. ASSUME NEW k \in 0..n, k < m + 1 PROVE g[k] = Body(g)[k]
    <3>1. CASE k = 0
      BY <3>1
    <3>2. CASE k # 0
      <4>1. k - 1 \in 0..n /\ k - 1 < m
        BY <3>2, <2>3
      <4>2. f[k - 1] = g[k - 1]
        BY <2>1, <4>1
      <4>3. g[k] = Up(k, f[k - 1]) /\ Body(g)[k] = Up(k, g[k - 1])
        BY <3>2
      <4> HIDE DEF g
      <4> QED BY <4>2, <4>3
    <3> QED BY <3>1, <3>2
  <2>4. Right(g, m + 1)
    <3> HIDE DEF g
    <3> QED BY <2>3
  <2> HIDE DEF g, Right
  <2> QED BY <2>2, <2>4
<1>3. Nat \subseteq N
  <2> HIDE DEF N
  <2> QED BY <1>1, <1>2, NatSetInduction
<1>4. PICK f : f = [k \in 0..n |-> f[k]] /\ Right(f, n + 1)
  <2>1. n + 1 \in N
    <3> HIDE DEF N
    <3> QED BY <1>3
  <2> HIDE DEF Right
  <2> QED BY <2>1
<1>5. f = Body(f)
  <2>1. \A k \in 0..n : f[k] = Body(f)[k]
    <3> HIDE DEF Body
    <3> QED BY <1>4
  <2>2. Body(f) = [k \in 0..n |-> Body(f)[k]]
    OBVIOUS
  <2> HIDE DEF Body
  <2> QED BY <1>4, <2>1, <2>2
<1> DEFINE at == CHOOSE f_1 : f_1 = Body(f_1)
<1>6. at = Body(at)
  <2> HIDE DEF Body
  <2> QED BY <1>5
<1>7. on_leaves(image, n, v) = at[n][v]
  BY DEF on_leaves, Up
<1> HIDE DEF at
<1>8. at = [k \in 0..n |-> at[k]]
  BY <1>6
<1>9. at[0] = image
  BY <1>6
<1>10. ASSUME NEW k \in 1..n PROVE at[k] = Up(k, at[k - 1])
  <2>1. Body(at)[k] = Up(k, at[k - 1])
    OBVIOUS
  <2> HIDE DEF Body
  <2> QED BY <2>1, <1>6
<1>11. Lifting(at, image, n, v)
  BY <1>7, <1>8, <1>9, <1>10 DEF Lifting, Up
<1> QED BY <1>11

\* No list is taken for a null.
NullApart(S, n) == \A k \in 0..(n - 1) : Null \notin Seq(Nested(S, k))

\* w is list v, with image of every leaf; E are the leaves of v.
Mapped(S, T, n, v, E, image, w) ==
  /\ n \in Nat /\ v \in Nested(S, n) /\ NullApart(T, n) /\ E = Range(Level(<<v>>, n))
  /\ \A e \in E : image[e] \in T
  /\ w = on_leaves(image, n, v)

\* Where the images can be told apart, v comes of w.
Undoes(back, E, image) == \A e \in E : back[image[e]] = e
Comes(w, n, E, image, v) == \A back : Undoes(back, E, image) => on_leaves(back, n, w) = v

\* The image of a nested list has its shape and the images of its leaves; where
\* those can be told apart, it can be taken back.
LEMMA LeavesImage ==
  ASSUME NEW S, NEW T, NEW n, NEW v, NEW E, NEW image, NEW w, Mapped(S, T, n, v, E, image, w)
  PROVE  /\ w \in Nested(T, n)
         /\ \A f \in Range(Level(<<w>>, n)) : \E e \in E : f = image[e]
         /\ \A e \in E : image[e] \in Range(Level(<<w>>, n))
         /\ Comes(w, n, E, image, v)
<1>m. /\ n \in Nat /\ v \in Nested(S, n) /\ NullApart(T, n) /\ E = Range(Level(<<v>>, n))
      /\ \A e \in Range(Level(<<v>>, n)) : image[e] \in T
      /\ w = on_leaves(image, n, v)
  BY DEF Mapped
<1> USE <1>m
<1> DEFINE R(k) == Range(Level(<<v>>, n - k))
           Q(k) == Range(Level(<<w>>, n - k))
<1>0. <<v>> \in Seq(Nested(S, n)) /\ Range(<<v>>) = {v} /\ Level(<<v>>, 0) = <<v>>
  BY LevelDown DEF Range
<1>1. PICK at : Lifting(at, image, n, v)
  BY LeavesSteps
<1>2. R(n) = {v} /\ at[n][v] = w
  <2>1. n - n = 0
    OBVIOUS
  <2> QED BY <2>1, <1>0, <1>1 DEF Lifting
<1>3. ASSUME NEW k \in 1..n
      PROVE  R(k - 1) = UNION {Range(x) : x \in R(k) \ {Null}} /\ R(k) \subseteq {Null} \cup Seq(Nested(S, k - 1))
  <2> DEFINE one == <<v>>
  <2>1. n - k \in 0..n /\ n - k < n /\ (n - k) + 1 = n - (k - 1) /\ n - (n - k) = k /\ k - 1 \in Nat /\ (k - 1) + 1 = k
    OBVIOUS
  <2>2. one \in Seq(Nested(S, n))
    BY <1>0
  <2> HIDE DEF one
  <2>3. /\ Level(one, n - k) \in Seq(Nested(S, k))
        /\ Range(Level(one, n - (k - 1))) = UNION {Range(x) : x \in Range(Level(one, n - k)) \ {Null}}
    BY <2>1, <2>2, LevelLists
  <2>4. Nested(S, k) = {Null} \cup Seq(Nested(S, k - 1))
    BY <2>1, NestedUp
  <2>5. Range(Level(one, n - k)) \subseteq Nested(S, k)
    BY <2>3, ElementOfSeq, LenProperties DEF Range
  <2> QED BY <2>3, <2>4, <2>5 DEF one
<1>4. ASSUME NEW k \in 1..n, NEW x \in R(k)
      PROVE  /\ x = Null => at[k][x] = Null
             /\ x # Null => /\ at[k][x] = [j \in DOMAIN x |-> at[k - 1][x[j]]]
                            /\ \A j \in DOMAIN x : x[j] \in R(k - 1)
                            /\ x \in Seq(Nested(S, k - 1))
  <2>1. at[k] = [y \in R(k) |-> IF y = Null THEN Null ELSE [j \in DOMAIN y |-> at[k - 1][y[j]]]]
    BY <1>1 DEF Lifting
  <2>2. at[k][x] = IF x = Null THEN Null ELSE [j \in DOMAIN x |-> at[k - 1][x[j]]]
    <3> HIDE DEF R
    <3> QED BY <2>1
  <2>3. x # Null => /\ x \in Seq(Nested(S, k - 1))
                    /\ \A j \in DOMAIN x : x[j] \in R(k - 1)
    <3> HIDE DEF R
    <3>1. x # Null => x \in Seq(Nested(S, k - 1)) /\ Range(x) \subseteq R(k - 1)
      BY <1>3
    <3> QED BY <3>1 DEF Range
  <2> QED BY <2>2, <2>3
<1> HIDE DEF R
<1> DEFINE P == {k \in Nat : k <= n => \A x \in R(k) : at[k][x] \in Nested(T, k)}
<1>5. 0 \in P
  <2>1. at[0] = image /\ R(0) = Range(Level(<<v>>, n)) /\ Nested(T, 0) = T
    <3>1. n - 0 = n
      OBVIOUS
    <3> QED BY <3>1, <1>1, NestedUp, 0 \in Nat DEF Lifting, R
  <2> QED BY <2>1
<1>6. ASSUME NEW k \in Nat, k \in P, k + 1 <= n, NEW x \in R(k + 1)
      PROVE  /\ at[k + 1][x] \in Nested(T, k + 1)
             /\ x # Null => at[k + 1][x] # Null /\ at[k + 1][x] \in Seq(Nested(T, k))
                              /\ DOMAIN at[k + 1][x] = DOMAIN x
  <2>1. k + 1 \in 1..n /\ (k + 1) - 1 = k /\ k \in 0..(n - 1)
    BY <1>6
  <2>2. Nested(T, k + 1) = {Null} \cup Seq(Nested(T, k))
    BY NestedUp
  <2>3. CASE x = Null
    <3>1. at[k + 1][x] = Null
      BY <1>4, <2>1, <2>3
    <3> QED BY <2>2, <2>3, <3>1
  <2>4. CASE x # Null
    <3>1. /\ at[k + 1][x] = [j \in DOMAIN x |-> at[k][x[j]]]
          /\ \A j \in DOMAIN x : x[j] \in R(k)
          /\ x \in Seq(Nested(S, k))
      BY <1>4, <2>1, <2>4
    <3>2. DOMAIN x = 1..Len(x) /\ Len(x) \in Nat
      BY <3>1, LenProperties
    <3>3. \A j \in DOMAIN x : at[k][x[j]] \in Nested(T, k)
      BY <3>1, <1>6
    <3>4. [j \in DOMAIN x |-> at[k][x[j]]] \in Seq(Nested(T, k))
      BY <3>2, <3>3, IsASeq
    <3>5. Null \notin Seq(Nested(T, k))
      BY <2>1 DEF NullApart
    <3> QED BY <2>2, <2>4, <3>1, <3>4, <3>5
  <2> QED BY <2>3, <2>4
<1>7. Nat \subseteq P
  <2>1. \A k \in Nat : k \in P => k + 1 \in P
    <3> SUFFICES ASSUME NEW k \in Nat, k \in P, k + 1 <= n, NEW x \in R(k + 1)
                 PROVE  at[k + 1][x] \in Nested(T, k + 1)
      OBVIOUS
    <3> HIDE DEF P
    <3> QED BY <1>6
  <2> HIDE DEF P
  <2> QED BY <1>5, <2>1, NatSetInduction
<1>8. \A k \in 0..n : \A x \in R(k) : at[k][x] \in Nested(T, k)
  <2>1. \A k \in 0..n : k \in P
    <3> HIDE DEF P
    <3> QED BY <1>7
  <2> QED BY <2>1
<1>9. ASSUME NEW k \in 1..n, NEW x \in R(k), x # Null
      PROVE  /\ at[k][x] # Null /\ DOMAIN at[k][x] = DOMAIN x
             /\ \A j \in DOMAIN x : at[k][x][j] = at[k - 1][x[j]] /\ x[j] \in R(k - 1)
  <2>1. k - 1 \in Nat /\ (k - 1) + 1 = k /\ k - 1 <= n /\ k - 1 \in P
    <3>1. k - 1 \in Nat
      OBVIOUS
    <3> HIDE DEF P
    <3> QED BY <3>1, <1>7
  <2>2. at[k][x] # Null /\ DOMAIN at[k][x] = DOMAIN x
    <3> HIDE DEF P
    <3>1. (k - 1) + 1 <= n /\ x \in R((k - 1) + 1)
      BY <2>1
    <3> QED BY <1>6, <1>9, <2>1, <3>1
  <2>3. at[k][x] = [j \in DOMAIN x |-> at[k - 1][x[j]]] /\ \A j \in DOMAIN x : x[j] \in R(k - 1)
    BY <1>4, <1>9
  <2> QED BY <2>2, <2>3
<1> HIDE DEF P
<1>10. w \in Nested(T, n)
  BY <1>2, <1>8
<1>11. <<w>> \in Seq(Nested(T, n)) /\ Range(<<w>>) = {w} /\ Level(<<w>>, 0) = <<w>>
  BY <1>10, LevelDown DEF Range
<1>12. ASSUME NEW k \in 1..n PROVE Q(k - 1) = UNION {Range(y) : y \in Q(k) \ {Null}}
  <2> DEFINE one == <<w>>
  <2>1. n - k \in 0..n /\ n - k < n /\ (n - k) + 1 = n - (k - 1)
    OBVIOUS
  <2>2. one \in Seq(Nested(T, n))
    BY <1>11
  <2> HIDE DEF one
  <2>3. Range(Level(one, n - (k - 1))) = UNION {Range(x) : x \in Range(Level(one, n - k)) \ {Null}}
    BY <2>1, <2>2, LevelLists
  <2> QED BY <2>3 DEF one
<1>13. Q(n) = {w}
  <2>1. n - n = 0
    OBVIOUS
  <2> QED BY <2>1, <1>11
<1>14. Q(0) = Range(Level(<<w>>, n)) /\ R(0) = Range(Level(<<v>>, n))
  <2>1. n - 0 = n
    OBVIOUS
  <2> QED BY <2>1 DEF R
<1> DEFINE Images(k) == {at[k][x] : x \in R(k)}
           M == {m \in Nat : m <= n => Q(n - m) = Images(n - m)}
<1>16. 0 \in M
  <2>1. n - 0 = n
    OBVIOUS
  <2>2. Q(n) = Images(n)
    <3> HIDE DEF Q
    <3> QED BY <1>2, <1>13
  <2> QED BY <2>1, <2>2
<1>17. ASSUME NEW k \in 1..n, Q(k) = Images(k) PROVE Q(k - 1) = Images(k - 1)
  <2> HIDE DEF Q
  <2>1. ASSUME NEW e \in Q(k - 1) PROVE e \in Images(k - 1)
    <3>1. PICK y \in Q(k) \ {Null} : e \in Range(y)
      BY <1>12, <2>1
    <3>2. PICK x \in R(k) : y = at[k][x]
      BY <1>17, <3>1
    <3>3. x # Null
      BY <1>4, <3>1, <3>2
    <3>4. /\ DOMAIN y = DOMAIN x
          /\ \A j \in DOMAIN x : y[j] = at[k - 1][x[j]] /\ x[j] \in R(k - 1)
      BY <1>9, <3>2, <3>3
    <3>5. PICK j \in DOMAIN x : e = y[j]
      BY <3>1, <3>4 DEF Range
    <3> QED BY <3>4, <3>5
  <2>2. ASSUME NEW z \in R(k - 1) PROVE at[k - 1][z] \in Q(k - 1)
    <3>0. R(k - 1) = UNION {Range(x) : x \in R(k) \ {Null}}
      BY <1>3
    <3>1. PICK x \in R(k) \ {Null} : z \in Range(x)
      BY <2>2, <3>0, Zenon
    <3>2. PICK j \in DOMAIN x : z = x[j]
      BY <3>1 DEF Range
    <3>3. /\ at[k][x] # Null /\ DOMAIN at[k][x] = DOMAIN x
          /\ at[k][x][j] = at[k - 1][z]
      BY <1>9, <3>1, <3>2
    <3>4. at[k][x] \in Q(k)
      BY <1>17, <3>1
    <3>5. at[k - 1][z] \in Range(at[k][x])
      BY <3>2, <3>3 DEF Range
    <3> QED BY <1>12, <3>3, <3>4, <3>5
  <2> QED BY <2>1, <2>2
<1>18. ASSUME NEW m \in Nat, m \in M PROVE m + 1 \in M
  <2> HIDE DEF Q, Images
  <2> SUFFICES ASSUME m + 1 <= n PROVE Q(n - (m + 1)) = Images(n - (m + 1))
    OBVIOUS
  <2>1. n - m \in 1..n /\ (n - m) - 1 = n - (m + 1) /\ Q(n - m) = Images(n - m)
    BY <1>18
  <2> QED BY <2>1, <1>17
<1>19. \A k \in 0..n : Q(k) = Images(k)
  <2>1. Nat \subseteq M
    <3> HIDE DEF M
    <3> QED BY <1>16, <1>18, NatSetInduction
  <2> HIDE DEF Q, Images
  <2> TAKE k \in 0..n
  <2>2. n - k \in M /\ n - k <= n /\ n - (n - k) = k
    <3> HIDE DEF M
    <3> QED BY <2>1
  <2> QED BY <2>2
<1> HIDE DEF M, Q
<1>20. Range(Level(<<w>>, n)) = {image[e] : e \in Range(Level(<<v>>, n))}
  <2>1. at[0] = image
    BY <1>1 DEF Lifting
  <2>2. Q(0) = Images(0)
    <3> HIDE DEF Images
    <3> QED BY <1>19
  <2> QED BY <2>1, <2>2, <1>14
<1>22. ASSUME NEW back, Undoes(back, E, image)
       PROVE  on_leaves(back, n, w) = v
  <2>0. \A e \in Range(Level(<<v>>, n)) : back[image[e]] = e
    BY <1>22 DEF Undoes
  <2>1. PICK bt : Lifting(bt, back, n, w)
    BY LeavesSteps
  <2>2. bt[0] = back /\ on_leaves(back, n, w) = bt[n][w]
        /\ \A k \in 1..n :
             bt[k] = [y \in Q(k) |-> IF y = Null THEN Null ELSE [j \in DOMAIN y |-> bt[k - 1][y[j]]]]
    BY <2>1 DEF Lifting, Q
  <2> DEFINE B == {k \in Nat : k <= n => \A x \in R(k) : bt[k][at[k][x]] = x}
  <2>3. 0 \in B
    <3>1. at[0] = image
      BY <1>1 DEF Lifting
    <3> QED BY <3>1, <2>2, <1>14, <2>0
  <2>4. ASSUME NEW k \in 1..n, \A x \in R(k - 1) : bt[k - 1][at[k - 1][x]] = x, NEW x \in R(k)
        PROVE  bt[k][at[k][x]] = x
    <3>1. at[k][x] \in Q(k)
      <4>1. Q(k) = Images(k)
        <5> HIDE DEF Images
        <5> QED BY <1>19
      <4> QED BY <4>1
    <3> DEFINE y == at[k][x]
    <3>2. bt[k][y] = IF y = Null THEN Null ELSE [j \in DOMAIN y |-> bt[k - 1][y[j]]]
      <4> HIDE DEF y
      <4>1. y \in Q(k)
        BY <3>1 DEF y
      <4> QED BY <2>2, <4>1
    <3>3. CASE x = Null
      <4>1. y = Null
        BY <1>4, <3>3
      <4> QED BY <3>2, <3>3, <4>1
    <3>4. CASE x # Null
      <4>1. /\ y # Null /\ DOMAIN y = DOMAIN x
            /\ \A j \in DOMAIN x : y[j] = at[k - 1][x[j]] /\ x[j] \in R(k - 1)
        BY <1>9, <3>4
      <4>2. bt[k][y] = [j \in DOMAIN x |-> bt[k - 1][y[j]]]
        <5> HIDE DEF y
        <5> QED BY <3>2, <4>1
      <4>3. \A j \in DOMAIN x : bt[k - 1][y[j]] = x[j]
        <5> HIDE DEF y
        <5> QED BY <2>4, <4>1
      <4>4. x = [j \in DOMAIN x |-> x[j]]
        <5>1. x \in Seq(Nested(S, k - 1))
          BY <1>4, <3>4
        <5>2. x = [j \in 1..Len(x) |-> x[j]] /\ DOMAIN x = 1..Len(x)
          BY <5>1, LenProperties, SeqDef
        <5> QED BY <5>2
      <4> HIDE DEF y
      <4>5. bt[k][y] = x
        BY <4>2, <4>3, <4>4
      <4> QED BY <4>5 DEF y
    <3> QED BY <3>3, <3>4
  <2>5. ASSUME NEW k \in Nat, k \in B PROVE k + 1 \in B
    <3> SUFFICES ASSUME k + 1 <= n, NEW x \in R(k + 1) PROVE bt[k + 1][at[k + 1][x]] = x
      OBVIOUS
    <3>1. k + 1 \in 1..n /\ (k + 1) - 1 = k /\ \A z \in R(k) : bt[k][at[k][z]] = z
      BY <2>5
    <3> HIDE DEF B
    <3> QED BY <3>1, <2>4
  <2>6. n \in B
    <3> HIDE DEF B
    <3> QED BY <2>3, <2>5, NatSetInduction
  <2>7. \A x \in R(n) : bt[n][at[n][x]] = x
    BY <2>6
  <2> QED BY <2>2, <2>7, <1>2
<1> QED BY <1>10, <1>20, <1>22 DEF Comes

-----------------------------------------------------------------------------
(* Datatypes and values.                                                   *)

\* The integers of a datatype are those from its lowest to its highest.
LEMMA Datatypes ==
  ASSUME NEW d \in DOMAIN Domain, ~is_float(d)
  PROVE  /\ lowest(d) \in Int /\ highest(d) \in Int /\ Domain[d] = lowest(d)..highest(d)
         /\ lowest(d) <= 0 /\ 0 <= highest(d)
         /\ Domain[d] \subseteq Int /\ Numbers(d) = Domain[d]
         /\ lowest(d) = 0 \/ lowest(d) < -1
<1>1. /\ lowest(d) \in Int /\ highest(d) \in Int /\ Domain[d] = lowest(d)..highest(d)
      /\ 0 \in Domain[d] /\ (lowest(d) = 0 \/ lowest(d) < -1)
  BY DatatypesAssumption, Zenon
<1> QED
  BY <1>1 DEF Numbers

\* A cast gives a value of the datatype, and keeps one that is.
LEMMA Casts ==
  ASSUME NEW d \in DOMAIN Domain, NEW v,
         v \in Int \/ (is_float(d) /\ v \in Int \cup {NaN})
  PROVE  /\ astype(v, d) \in Numbers(d)
         /\ v \in Domain[d] \/ is_float(d) => astype(v, d) = v
<1>1. CASE is_float(d)
  BY <1>1 DEF astype, Numbers
<1>2. CASE ~is_float(d)
  <2> DEFINE low == lowest(d)
             size == highest(d) - lowest(d) + 1
             over == v - low
  <2>1. /\ low \in Int /\ highest(d) \in Int /\ Domain[d] = low..highest(d) /\ size \in Nat \ {0}
        /\ Numbers(d) = Domain[d]
    BY <1>2, Datatypes
  <2>2. over \in Int
    BY <1>2, <2>1
  <2>3. /\ over % size \in 0..(size - 1)
        /\ over \in 0..(size - 1) => over % size = over
    <3> HIDE DEF size, over
    <3> QED
      BY <2>1, <2>2
  <2>4. astype(v, d) = low + (over % size)
    BY <1>2 DEF astype
  <2>5. astype(v, d) \in low..highest(d)
    <3> DEFINE x == over % size
    <3>1. x \in 0..(size - 1)
      BY <2>3
    <3> HIDE DEF x
    <3>2. astype(v, d) = low + x
      BY <2>4 DEF x
    <3> QED
      BY <2>1, <3>1, <3>2
  <2>6. ASSUME v \in Domain[d] PROVE astype(v, d) = v
    <3>1. over \in 0..(size - 1)
      BY <2>1, <2>6
    <3> QED
      BY <2>1, <2>3, <2>4, <2>2, <3>1, <1>2
  <2> QED
    BY <1>2, <2>1, <2>5, <2>6
<1> QED
  BY <1>1, <1>2

\* Nothing that stands for no value is a value.
LEMMA Apart ==
  ASSUME NEW type, IsLeafType(type)
  PROVE  /\ Null \in Leaves(type) /\ NoFill \notin Leaves(type)
         /\ type.kind = "number" => Null \notin Numbers(type.dtype) /\ Leaves(type) = {Null} \cup Numbers(type.dtype)
         /\ type.kind = "boolean" => Leaves(type) = {Null, 0, 1}
         /\ type.kind = "opaque" => Leaves(type) = {Null} \cup Bytes(type.width) /\ Null \notin Bytes(type.width)
         /\ type.kind = "string" => Leaves(type) = {Null} \cup Texts /\ Null \notin Texts
<1>1. /\ NaN \notin Int /\ Null \notin Int \cup {NaN} /\ NoFill \notin Int \cup {NaN, Null}
      /\ {Null, NoFill} \cap Texts = {} /\ {Null, NoFill} \cap Seq(0..255) = {}
  BY ApartAssumption
<1>2. CASE type.kind = "number"
  <2>1. Numbers(type.dtype) \subseteq Int \cup {NaN}
    BY <1>2, Datatypes DEF Numbers, IsLeafType
  <2> QED
    BY <1>1, <1>2, <2>1 DEF Leaves
<1>3. CASE type.kind = "boolean"
  BY <1>1, <1>3 DEF Leaves
<1>4. CASE type.kind = "opaque"
  <2>1. Bytes(type.width) \subseteq Seq(0..255)
    <3>1. type.width \in Nat
      BY <1>4 DEF IsLeafType
    <3> QED
      BY <3>1, SeqDef, Zenon DEF Bytes
  <2> QED
    BY <1>1, <1>4, <2>1 DEF Leaves
<1>5. CASE type.kind = "string"
  BY <1>1, <1>5 DEF Leaves
<1> QED
  BY <1>2, <1>3, <1>4, <1>5 DEF IsLeafType, LeafKinds

\* The fill H5Col recommends is a value of the datatype.
LEMMA Recommends ==
  ASSUME NEW spec
  PROVE  /\ spec.kind = "string" => recommended_fill(spec) \in Texts
         /\ spec.kind = "opaque" /\ spec.width \in Nat => recommended_fill(spec) \in Bytes(spec.width)
         /\ spec.kind = "number" /\ spec.dtype \in DOMAIN Domain =>
              /\ recommended_fill(spec) \in Numbers(spec.dtype)
              /\ ~is_float(spec.dtype) => recommended_fill(spec) \in Domain[spec.dtype]
<1>1. CASE spec.kind = "string"
  BY <1>1, EmptySeq DEF recommended_fill, Texts
<1>2. CASE spec.kind = "opaque" /\ spec.width \in Nat
  <2>1. recommended_fill(spec) = opaque_fill_bytes(spec.width)
    BY <1>2 DEF recommended_fill
  <2> DEFINE byte(i) == IF i <= 4 THEN <<70, 73, 76, 76>>[i] ELSE (i - 4) % 256
  <2>2. ASSUME NEW i \in 1..spec.width PROVE byte(i) \in 0..255
    <3>1. i \in Int /\ i >= 1
      BY <1>2
    <3>2. CASE i <= 4
      BY <3>1, <3>2
    <3>3. CASE i > 4
      BY <3>1, <3>3
    <3> QED
      BY <3>1, <3>2, <3>3
  <2>3. recommended_fill(spec) = [i \in 1..spec.width |-> byte(i)]
    BY <2>1 DEF opaque_fill_bytes
  <2>4. recommended_fill(spec) \in Bytes(spec.width)
    <3> HIDE DEF byte
    <3> QED
      BY <2>2, <2>3 DEF Bytes
  <2> QED
    BY <1>2, <2>4
<1>3. CASE spec.kind = "number" /\ spec.dtype \in DOMAIN Domain
  <2> DEFINE d == spec.dtype
  <2>1. recommended_fill(spec) = IF is_float(d) THEN FloatFill
                                 ELSE IF unsigned(d) THEN highest(d) ELSE lowest(d) + 1
    BY <1>3 DEF recommended_fill
  <2>2. CASE is_float(d)
    <3>1. FloatFill \in Int
      BY <1>3, <2>2, DatatypesAssumption, Zenon
    <3> QED
      BY <1>3, <2>1, <2>2, <3>1 DEF Numbers
  <2>3. CASE ~is_float(d)
    <3>1. /\ lowest(d) \in Int /\ highest(d) \in Int /\ Domain[d] = lowest(d)..highest(d)
          /\ lowest(d) <= 0 /\ 0 <= highest(d) /\ Numbers(d) = Domain[d]
          /\ lowest(d) = 0 \/ lowest(d) < -1
      BY <1>3, <2>3, Datatypes
    <3> QED
      BY <1>3, <2>1, <2>3, <3>1 DEF unsigned
  <2> QED
    BY <2>2, <2>3
<1> QED
  BY <1>1, <1>2, <1>3

-----------------------------------------------------------------------------
(* Columns.                                                                *)

\* The cells of a chunk are values of its type.
LEMMA ChunkCells ==
  ASSUME NEW type, NEW chunk, IsType(type), IsChunk(type, chunk)
  PROVE  /\ Cells(chunk) \in Seq(Values(type)) /\ DOMAIN Cells(chunk) = DOMAIN chunk.cells
         /\ Len(Cells(chunk)) = Len(chunk.cells)
<1>1. CASE type.kind = "dictionary"
  <2> DEFINE n == Len(chunk.labels)
             cell(r) == IF chunk.labels = <<>> \/ chunk.cells[r] = Null THEN chunk.cells[r]
                        ELSE chunk.labels[chunk.cells[r] + 1]
  <2>1. /\ chunk.labels \in Seq(Texts) /\ chunk.cells \in Seq({Null} \cup 0..(n - 1)) /\ n \in Nat
        /\ chunk.labels = <<>> => n = 0
    BY <1>1, LenProperties, EmptySeq DEF IsChunk
  <2>2. Values(type) = {Null} \cup Texts
    BY <1>1 DEF Values, Leaves
  <2>3. /\ Len(chunk.cells) \in Nat /\ DOMAIN chunk.cells = 1..Len(chunk.cells)
        /\ \A r \in DOMAIN chunk.cells : chunk.cells[r] \in {Null} \cup 0..(n - 1)
    BY <2>1, LenProperties, ElementOfSeq
  <2>4. ASSUME NEW r \in DOMAIN chunk.cells PROVE cell(r) \in {Null} \cup Texts
    <3>1. CASE chunk.cells[r] = Null
      BY <3>1
    <3>2. CASE chunk.cells[r] # Null
      <4>1. chunk.cells[r] \in 0..(n - 1) /\ chunk.cells[r] + 1 \in 1..n
        BY <2>1, <2>3, <3>2
      <4>2. chunk.labels # <<>>
        BY <2>1, <4>1
      <4> QED
        BY <2>1, <3>2, <4>1, <4>2, LenProperties, ElementOfSeq
    <3> QED
      BY <3>1, <3>2
  <2>5. Cells(chunk) = [r \in 1..Len(chunk.cells) |-> cell(r)]
    BY <2>3 DEF Cells
  <2> HIDE DEF cell
  <2>6. Cells(chunk) \in [1..Len(chunk.cells) -> {Null} \cup Texts]
    BY <2>3, <2>4, <2>5
  <2>7. Cells(chunk) \in Seq({Null} \cup Texts)
    BY <2>3, <2>6, SeqDef, Zenon
  <2> QED
    BY <2>2, <2>3, <2>6, <2>7, LenProperties
<1>2. CASE type.kind # "dictionary"
  <2>1. chunk.labels = <<>> /\ chunk.cells \in Seq(Values(type))
    BY <1>2 DEF IsChunk
  <2>2. Cells(chunk) = chunk.cells
    BY <2>1, LenProperties DEF Cells
  <2> QED
    BY <2>1, <2>2
<1> QED
  BY <1>1, <1>2

\* The rows of the first n batches.
Prefix(t, i, n) == FlattenSeq([b \in 1..n |-> Cells(t.batches[b][i])])

\* The first batches of a column: their values, and one batch more.
LEMMA PrefixFacts ==
  ASSUME NEW t, IsTable(t), NEW i \in DOMAIN t.fields, IsType(t.fields[i].type),
         NEW n \in 0..Len(t.batches)
  PROVE  /\ Prefix(t, i, n) \in Seq(Values(t.fields[i].type))
         /\ Range(Prefix(t, i, n)) = UNION {Range(Cells(t.batches[b][i])) : b \in 1..n}
         /\ \A b \in DOMAIN t.batches :
              /\ IsChunk(t.fields[i].type, t.batches[b][i])
              /\ Cells(t.batches[b][i]) \in Seq(Values(t.fields[i].type))
         /\ n < Len(t.batches) => Prefix(t, i, n + 1) = Prefix(t, i, n) \o Cells(t.batches[n + 1][i])
         /\ n = 0 => Prefix(t, i, n) = <<>>
         /\ column(t, i) = Prefix(t, i, Len(t.batches))
<1> DEFINE V == Values(t.fields[i].type)
           cells(b) == Cells(t.batches[b][i])
<1>1. Len(t.batches) \in Nat /\ DOMAIN t.batches = 1..Len(t.batches)
  BY DEF IsTable, IsSeq
<1>2. \A b \in DOMAIN t.batches : IsChunk(t.fields[i].type, t.batches[b][i])
  <2>1. importable(t.fields[i].type)
    BY DEF IsType, IsLeafType, importable
  <2> QED
    BY <2>1, Zenon DEF IsTable
<1>3. \A b \in DOMAIN t.batches : cells(b) \in Seq(V)
  BY <1>2, ChunkCells
<1> HIDE DEF cells
<1>4. ASSUME NEW m \in 0..Len(t.batches)
      PROVE  /\ [b \in 1..m |-> cells(b)] \in Seq(Seq(V))
             /\ Len([b \in 1..m |-> cells(b)]) = m
             /\ Prefix(t, i, m) = FlattenSeq([b \in 1..m |-> cells(b)])
  <2>1. [b \in 1..m |-> cells(b)] \in [1..m -> Seq(V)] /\ m \in Nat
    BY <1>1, <1>3
  <2>2. [b \in 1..m |-> cells(b)] \in Seq(Seq(V))
    <3> DEFINE f == [b \in 1..m |-> cells(b)]
               W == Seq(V)
    <3>1. f \in [1..m -> W] /\ m \in Nat
      BY <2>1
    <3> HIDE DEF f, W
    <3>2. f \in Seq(W)
      BY <3>1, SeqDef, Zenon
    <3> QED
      BY <3>2 DEF f, W
  <2> QED
    BY <2>1, <2>2, LenProperties DEF Prefix, cells
<1>5. /\ Prefix(t, i, n) \in Seq(V)
      /\ Range(Prefix(t, i, n)) = UNION {Range(cells(b)) : b \in 1..n}
  <2> DEFINE s == [b \in 1..n |-> cells(b)]
  <2>1. /\ FlattenSeq(s) \in Seq(V)
        /\ Range(FlattenSeq(s)) = UNION {Range(s[k]) : k \in DOMAIN s}
    BY <1>4, FlattenRange
  <2> QED
    BY <1>4, <2>1
<1>6. ASSUME n < Len(t.batches)
      PROVE  Prefix(t, i, n + 1) = Prefix(t, i, n) \o cells(n + 1)
  <2> DEFINE s == [b \in 1..n |-> cells(b)]
  <2>1. n + 1 \in 0..Len(t.batches) /\ n \in Nat /\ n + 1 \in DOMAIN t.batches
    BY <1>1, <1>6
  <2>2. [b \in 1..(n + 1) |-> cells(b)] = Append(s, cells(n + 1))
    <3>1. s \in Seq(Seq(V)) /\ Len(s) = n /\ cells(n + 1) \in Seq(V)
      BY <1>3, <1>4, <2>1
    <3>2. [b \in 1..(n + 1) |-> cells(b)] \in Seq(Seq(V)) /\ Len([b \in 1..(n + 1) |-> cells(b)]) = n + 1
      BY <1>4, <2>1
    <3> DEFINE a == Append(s, cells(n + 1))
    <3>3. /\ a \in Seq(Seq(V)) /\ Len(a) = n + 1 /\ a[n + 1] = cells(n + 1)
          /\ \A b \in 1..n : a[b] = s[b]
      BY <3>1, AppendProperties
    <3> HIDE DEF a
    <3>4. \A b \in 1..(n + 1) : a[b] = cells(b)
      BY <2>1, <3>3
    <3>5. a = [b \in 1..(n + 1) |-> a[b]]
      BY <3>3, <2>1, LenProperties
    <3> QED
      BY <3>4, <3>5 DEF a
  <2>3. FlattenSeq(Append(s, cells(n + 1))) = FlattenSeq(s) \o cells(n + 1)
    BY <1>3, <1>4, <2>1, FlattenGrows
  <2> QED
    BY <1>4, <2>1, <2>2, <2>3
<1>7. n = 0 => Prefix(t, i, n) = <<>>
  <2> SUFFICES ASSUME n = 0 PROVE Prefix(t, i, n) = <<>>
    OBVIOUS
  <2>1. Prefix(t, i, n) \in Seq(V) /\ Range(Prefix(t, i, n)) = {}
    BY <1>5
  <2>2. DOMAIN Prefix(t, i, n) = {}
    BY <2>1 DEF Range
  <2> QED
    BY <2>1, <2>2, LenProperties, EmptySeq
<1>8. column(t, i) = Prefix(t, i, Len(t.batches))
  BY <1>1 DEF column, Prefix
<1>9. /\ Range(Prefix(t, i, n)) = UNION {Range(Cells(t.batches[b][i])) : b \in 1..n}
      /\ \A b \in DOMAIN t.batches : Cells(t.batches[b][i]) \in Seq(V)
      /\ n < Len(t.batches) => Prefix(t, i, n + 1) = Prefix(t, i, n) \o Cells(t.batches[n + 1][i])
  BY <1>3, <1>5, <1>6, Zenon DEF cells
<1> HIDE DEF Prefix
<1> QED
  BY <1>2, <1>5, <1>7, <1>8, <1>9, Zenon

\* What holds of a column holds of the rows of its first batches.
LEMMA PrefixesInColumn ==
  ASSUME NEW t, IsTable(t), NEW i \in DOMAIN t.fields, IsType(t.fields[i].type),
         NEW n \in 0..Len(t.batches)
  PROVE  Range(Prefix(t, i, n)) \subseteq Range(column(t, i))
<1>1. Len(t.batches) \in Nat /\ n \in Nat /\ n <= Len(t.batches) /\ Len(t.batches) \in 0..Len(t.batches)
  BY DEF IsTable, IsSeq
<1>2. Range(column(t, i)) = UNION {Range(Cells(t.batches[b][i])) : b \in 1..Len(t.batches)}
  BY <1>1, PrefixFacts
<1>3. Range(Prefix(t, i, n)) = UNION {Range(Cells(t.batches[b][i])) : b \in 1..n}
  BY PrefixFacts
<1>4. 1..n \subseteq 1..Len(t.batches)
  BY <1>1
<1> HIDE DEF Prefix
<1> QED
  BY <1>2, <1>3, <1>4, Zenon

-----------------------------------------------------------------------------
(* Specifications.                                                         *)

\* A fill that is put into a leaf changes nothing else.
LEMMA LeafWithFill ==
  ASSUME NEW leaf, IsLeafSpec(leaf), NEW f, f # NoFill \/ f = NoFill,
         leaf.kind = "number" => f \in {NoFill} \cup Numbers(leaf.dtype),
         leaf.kind = "opaque" => f \in {NoFill} \cup Bytes(leaf.width),
         NEW w, w = with_leaf_fill(leaf, f)
  PROVE  /\ IsLeafSpec(w) /\ w.kind = leaf.kind
         /\ leaf.kind = "strings" => w = leaf
         /\ leaf.kind # "strings" => w.fill = f
         /\ leaf.kind = "number" => w.dtype = leaf.dtype
         /\ leaf.kind = "opaque" => w.width = leaf.width
<1>1. CASE leaf.kind = "strings"
  BY <1>1 DEF with_leaf_fill
<1>2. CASE leaf.kind # "strings"
  <2>1. w = [leaf EXCEPT !.fill = f] /\ {"kind", "fill"} \subseteq DOMAIN leaf
    BY <1>2 DEF with_leaf_fill, IsLeafSpec
  <2>2. w.fill = f /\ w.kind = leaf.kind /\ DOMAIN w = DOMAIN leaf
    BY <2>1
  <2>3. CASE leaf.kind = "number"
    <3>1. w.dtype = leaf.dtype
      BY <2>1, <2>3 DEF IsLeafSpec
    <3> QED
      BY <2>2, <2>3, <3>1 DEF IsLeafSpec
  <2>4. CASE leaf.kind = "opaque"
    <3>1. w.width = leaf.width
      BY <2>1, <2>4 DEF IsLeafSpec
    <3> QED
      BY <2>2, <2>4, <3>1 DEF IsLeafSpec
  <2>5. CASE leaf.kind = "boolean"
    BY <2>2, <2>5 DEF IsLeafSpec
  <2> QED
    BY <1>2, <2>3, <2>4, <2>5 DEF IsLeafSpec
<1> QED
  BY <1>1, <1>2

\* The fills a spec may be given.
MayHave(spec, f) ==
  /\ spec.kind = "number" => f \in {NoFill} \cup Numbers(spec.dtype)
  /\ spec.kind = "string" => f \in {NoFill} \cup Texts
  /\ spec.kind = "opaque" => f \in {NoFill} \cup Bytes(spec.width)
  /\ spec.kind = "list" =>
       /\ spec.leaf.kind = "number" => f \in {NoFill} \cup Numbers(spec.leaf.dtype)
       /\ spec.leaf.kind = "opaque" => f \in {NoFill} \cup Bytes(spec.leaf.width)

\* A fill that is put into a spec changes nothing else.
LEMMA WithFill ==
  ASSUME NEW spec, IsSpec(spec), NEW f, MayHave(spec, f), NEW w, w = with_fill(spec, f)
  PROVE  /\ IsSpec(w) /\ w.kind = spec.kind /\ w.name = spec.name
         /\ w.notes = spec.notes /\ w.attributes = spec.attributes
         /\ spec.kind # "list" => w.fill = f
         /\ spec.kind \in {"number", "categorical"} => w.dtype = spec.dtype
         /\ spec.kind \in {"string", "opaque"} => w.width = spec.width
         /\ spec.kind = "categorical" => w.labels = spec.labels
         /\ spec.kind = "list" =>
              w.nullable = spec.nullable /\ w.leaf = with_leaf_fill(spec.leaf, f)
<1>1. CASE spec.kind = "list"
  <2>1. w = [spec EXCEPT !.leaf = with_leaf_fill(@, f)]
    BY <1>1 DEF with_fill
  <2>2. {"name", "notes", "attributes", "kind", "nullable", "leaf"} \subseteq DOMAIN spec
    BY <1>1 DEF IsSpec
  <2>3. /\ w.leaf = with_leaf_fill(spec.leaf, f) /\ DOMAIN w = DOMAIN spec
        /\ w.kind = spec.kind /\ w.name = spec.name /\ w.notes = spec.notes
        /\ w.attributes = spec.attributes /\ w.nullable = spec.nullable
    BY <2>1, <2>2
  <2>4. IsLeafSpec(w.leaf)
    BY <1>1, <2>3, LeafWithFill DEF IsSpec, MayHave
  <2>5. IsSpec(w)
    BY <1>1, <2>2, <2>3, <2>4 DEF IsSpec
  <2> QED
    BY <1>1, <2>3, <2>5
<1>2. CASE spec.kind # "list"
  <2>1. w = [spec EXCEPT !.fill = f]
    BY <1>2 DEF with_fill
  <2>2. {"name", "notes", "attributes", "kind", "fill"} \subseteq DOMAIN spec
    BY <1>2 DEF IsSpec
  <2>3. /\ w.fill = f /\ DOMAIN w = DOMAIN spec
        /\ w.kind = spec.kind /\ w.name = spec.name /\ w.notes = spec.notes
        /\ w.attributes = spec.attributes
    BY <2>1, <2>2
  <2>4. CASE spec.kind = "number"
    <3>1. w.dtype = spec.dtype
      BY <2>1, <2>4 DEF IsSpec
    <3> QED
      BY <1>2, <2>3, <2>4, <3>1 DEF IsSpec, MayHave
  <2>5. CASE spec.kind = "string" \/ spec.kind = "opaque"
    <3>1. w.width = spec.width
      BY <2>1, <2>5 DEF IsSpec
    <3> QED
      BY <1>2, <2>3, <2>5, <3>1 DEF IsSpec, MayHave
  <2>6. CASE spec.kind = "categorical"
    <3>1. w.dtype = spec.dtype /\ w.labels = spec.labels
      BY <2>1, <2>6 DEF IsSpec
    <3> QED
      BY <1>2, <2>3, <2>6, <3>1 DEF IsSpec
  <2>7. CASE spec.kind = "boolean"
    BY <1>2, <2>3, <2>7 DEF IsSpec
  <2> QED
    BY <1>2, <2>4, <2>5, <2>6, <2>7 DEF IsSpec, LeafKinds
<1> QED
  BY <1>1, <1>2

\* What chosen_fill chooses, for a column or a leaf.
Choice(spec) == IF spec.fill # NoFill THEN spec.fill ELSE recommended_fill(spec)

\* The fill that was chosen, once it is in the spec, is chosen again.
LEMMA ChosenAgain ==
  ASSUME NEW spec, NEW w, NEW notes, NEW cells, NEW type,
         w.kind = spec.kind, spec.kind = "number" => w.dtype = spec.dtype,
         w.fill = Choice(spec), w.fill # NoFill
  PROVE  /\ chosen_fill(spec, notes, cells, type).fill = Choice(spec)
         /\ chosen_fill(w, notes, cells, type) = chosen_fill(spec, notes, cells, type)
<1>1. suggest_fill(w, cells, type) = suggest_fill(spec, cells, type)
  BY DEF suggest_fill
<1>2. chosen_fill(spec, notes, cells, type).fill = Choice(spec)
  BY DEF chosen_fill, Choice, Outcome
<1>3. chosen_fill(w, notes, cells, type) = chosen_fill(spec, notes, cells, type)
  BY <1>1 DEF chosen_fill, Choice
<1> QED
  BY <1>2, <1>3

\* A chosen fill is a value of the datatype.
LEMMA ChoiceFits ==
  ASSUME NEW spec, \/ IsSpec(spec) /\ spec.kind \in {"number", "string", "opaque"}
                   \/ IsLeafSpec(spec) /\ spec.kind \in {"number", "opaque"}
  PROVE  /\ spec.kind = "number" => Choice(spec) \in Numbers(spec.dtype)
         /\ spec.kind = "string" => Choice(spec) \in Texts
         /\ spec.kind = "opaque" => Choice(spec) \in Bytes(spec.width)
         /\ Choice(spec) # NoFill
<1>1. /\ NoFill \notin Int \cup {NaN} /\ NoFill \notin Texts /\ NoFill \notin Seq(0..255)
  BY ApartAssumption
<1>2. CASE spec.kind = "number"
  <2>1. spec.dtype \in DOMAIN Domain /\ spec.fill \in {NoFill} \cup Numbers(spec.dtype)
    BY <1>2 DEF IsSpec, IsLeafSpec
  <2>2. recommended_fill(spec) \in Numbers(spec.dtype)
    BY <1>2, <2>1, Recommends
  <2>3. Numbers(spec.dtype) \subseteq Int \cup {NaN}
    BY <2>1, Datatypes DEF Numbers
  <2> QED
    BY <1>1, <1>2, <2>1, <2>2, <2>3 DEF Choice
<1>3. CASE spec.kind = "string"
  <2>1. spec.fill \in {NoFill} \cup Texts
    BY <1>3 DEF IsSpec
  <2>2. recommended_fill(spec) \in Texts
    BY <1>3, Recommends
  <2> QED
    BY <1>1, <1>3, <2>1, <2>2 DEF Choice
<1>4. CASE spec.kind = "opaque"
  <2>1. spec.width \in Nat /\ spec.fill \in {NoFill} \cup Bytes(spec.width)
    BY <1>4 DEF IsSpec, IsLeafSpec
  <2>2. recommended_fill(spec) \in Bytes(spec.width)
    BY <1>4, <2>1, Recommends
  <2>3. Bytes(spec.width) \subseteq Seq(0..255)
    <3> DEFINE n == spec.width
    <3>1. n \in Nat /\ Seq(0..255) = UNION {[1..k -> 0..255] : k \in Nat}
      BY <2>1, SeqDef
    <3> HIDE DEF n
    <3>2. [1..n -> 0..255] \subseteq Seq(0..255)
      BY <3>1, Zenon
    <3> QED
      BY <3>2 DEF n, Bytes
  <2> QED
    BY <1>1, <1>4, <2>1, <2>2, <2>3 DEF Choice
<1> QED
  BY <1>2, <1>3, <1>4

\* When a chosen fill is good.
LEMMA ChosenClean ==
  ASSUME NEW spec, NEW notes, NEW cells, NEW type
  PROVE  LET good == (Choice(spec) = NaN \/ fill_scalar_fits(Choice(spec), type))
                       /\ Choice(spec) \notin Range(cells)
         IN  /\ chosen_fill(spec, notes, cells, type).reason = "none" <=>
                  good /\ validate_fill_outside_range(Choice(spec), notes)
             /\ good => chosen_fill(spec, notes, cells, type).reason \notin Refusals
             /\ chosen_fill(spec, notes, cells, type).fill = Choice(spec)
<1> DEFINE f == Choice(spec)
           fits == f = NaN \/ fill_scalar_fits(f, type)
           s == suggest_fill(spec, cells, type)
           out == chosen_fill(spec, notes, cells, type)
<1>1. out = IF ~fits THEN Outcome("arrow", NoFill, f)
            ELSE IF f \in Range(cells)
                 THEN Outcome(IF s = NoFill \/ fill_scalar_fits(s, type) THEN "collision" ELSE "arrow", s, f)
                 ELSE IF ~validate_fill_outside_range(f, notes) THEN Outcome("range", NoFill, f)
                 ELSE Outcome("none", NoFill, f)
  BY DEF chosen_fill, Choice, fill_occurs_in_data
<1> HIDE DEF f, s, out
<1>2. /\ out.reason = "none" <=> fits /\ f \notin Range(cells) /\ validate_fill_outside_range(f, notes)
      /\ fits /\ f \notin Range(cells) => out.reason \notin Refusals
      /\ out.fill = f
  BY <1>1 DEF Outcome, Refusals
<1> QED
  BY <1>2 DEF f, out

\* The leaf of a list, with the fill that is chosen for it.
LEMMA LeafChecked ==
  ASSUME NEW leaf, IsLeafSpec(leaf), NEW cells, NEW type,
         NEW out, out = leaf_fill(leaf, cells, type),
         NEW w, w = with_leaf_fill(leaf, out.fill)
  PROVE  /\ leaf.kind \in {"number", "opaque"} => out.fill = Choice(leaf)
         /\ leaf.kind = "number" => out.fill \in Numbers(leaf.dtype)
         /\ leaf.kind = "opaque" => out.fill \in Bytes(leaf.width)
         /\ IsLeafSpec(w) /\ w.kind = leaf.kind /\ LeafFilled(w)
         /\ leaf_fill(w, cells, type) = out
         /\ leaf.kind = "number" => w.dtype = leaf.dtype
         /\ leaf.kind = "opaque" => w.width = leaf.width
         /\ leaf.kind # "strings" => w.fill = out.fill
         /\ leaf.kind = "strings" => w = leaf
<1>1. leaf.kind \in {"strings", "boolean", "number", "opaque"}
  BY DEF IsLeafSpec
<1>2. CASE leaf.kind = "strings"
  BY <1>2 DEF with_leaf_fill, LeafFilled
<1>3. CASE leaf.kind = "boolean"
  <2>1. out.fill = NoFill
    BY <1>3 DEF leaf_fill, Outcome
  <2>2. IsLeafSpec(w) /\ w.kind = leaf.kind /\ w.fill = out.fill
    BY <1>3, LeafWithFill
  <2> QED
    BY <1>3, <2>1, <2>2 DEF leaf_fill, LeafFilled
<1>4. CASE leaf.kind \in {"number", "opaque"}
  <2>1. out = chosen_fill(leaf, <<>>, cells, type)
    BY <1>4 DEF leaf_fill
  <2>2. out.fill = Choice(leaf)
    BY <2>1, ChosenClean
  <2>3. /\ leaf.kind = "number" => Choice(leaf) \in Numbers(leaf.dtype)
        /\ leaf.kind = "opaque" => Choice(leaf) \in Bytes(leaf.width)
        /\ Choice(leaf) # NoFill
    BY <1>4, ChoiceFits
  <2>4. /\ IsLeafSpec(w) /\ w.kind = leaf.kind /\ w.fill = out.fill
        /\ leaf.kind = "number" => w.dtype = leaf.dtype
        /\ leaf.kind = "opaque" => w.width = leaf.width
    BY <1>4, <2>2, <2>3, LeafWithFill
  <2>5. chosen_fill(w, <<>>, cells, type) = chosen_fill(leaf, <<>>, cells, type)
    BY <2>2, <2>3, <2>4, ChosenAgain
  <2> QED
    BY <1>4, <2>1, <2>2, <2>3, <2>4, <2>5 DEF leaf_fill, LeafFilled
<1> QED
  BY <1>1, <1>2, <1>3, <1>4

\* A spec with the fill that is chosen for it is filled, and nothing else of it
\* changed; it is checked with the same outcome.
LEMMA CheckedFill ==
  ASSUME NEW t, NEW i, NEW spec, IsSpec(spec), Fits(spec, t.fields[i].type),
         NEW out, out = checked(spec, t, i), NEW w, w = with_fill(spec, out.fill)
  PROVE  /\ MayHave(spec, out.fill) /\ Filled(w) /\ Fits(w, t.fields[i].type)
         /\ checked(w, t, i) = out
         /\ spec.kind \in {"number", "string", "opaque"} => out.fill = Choice(spec)
         /\ spec.kind \in {"boolean", "categorical"} => out.fill = NoFill
         /\ spec.kind = "list" /\ spec.leaf.kind \in {"number", "opaque"} => out.fill = Choice(spec.leaf)
<1> DEFINE type == t.fields[i].type
           cells == column(t, i)
<1>1. spec.kind \in {"string", "number", "boolean", "opaque", "categorical", "list"}
  BY DEF IsSpec, LeafKinds
<1>2. CASE spec.kind = "list"
  <2> DEFINE below == Level(cells, Len(spec.nullable))
  <2>1. out = leaf_fill(spec.leaf, below, type.of) /\ IsLeafSpec(spec.leaf)
    BY <1>2 DEF checked, apply_list_fills, IsSpec
  <2> DEFINE x == with_leaf_fill(spec.leaf, out.fill)
  <2>2. /\ spec.leaf.kind \in {"number", "opaque"} => out.fill = Choice(spec.leaf)
        /\ spec.leaf.kind = "number" => out.fill \in Numbers(spec.leaf.dtype)
        /\ spec.leaf.kind = "opaque" => out.fill \in Bytes(spec.leaf.width)
        /\ x.kind = spec.leaf.kind /\ LeafFilled(x)
        /\ leaf_fill(x, below, type.of) = out
    BY <2>1, LeafChecked
  <2>3. MayHave(spec, out.fill)
    BY <1>2, <2>2 DEF MayHave
  <2>4. w.kind = spec.kind /\ w.nullable = spec.nullable /\ w.leaf = x
    BY <1>2, <2>3, WithFill
  <2>5. checked(w, t, i) = out
    BY <1>2, <2>2, <2>4 DEF checked, apply_list_fills
  <2>6. Fits(w, type)
    BY <1>2, <2>2, <2>4 DEF Fits, LeafFits
  <2> QED
    BY <1>2, <2>2, <2>3, <2>4, <2>5, <2>6 DEF Filled
<1>3. CASE spec.kind \in {"boolean", "categorical"}
  <2>1. out.fill = NoFill
    BY <1>3 DEF checked, fill_for, Outcome
  <2>2. MayHave(spec, out.fill)
    BY <1>3 DEF MayHave
  <2>3. w.kind = spec.kind /\ w.fill = NoFill
    BY <1>3, <2>1, <2>2, WithFill
  <2>4. checked(w, t, i) = out /\ Fits(w, type) /\ Filled(w)
    BY <1>3, <2>3 DEF checked, fill_for, Fits, Filled
  <2> QED
    BY <1>3, <2>1, <2>2, <2>4
<1>4. CASE spec.kind \in {"number", "string", "opaque"}
  <2>1. out = chosen_fill(spec, spec.notes, cells, type)
    BY <1>4 DEF checked, fill_for
  <2>2. out.fill = Choice(spec)
    <3> HIDE DEF cells, type
    <3>1. \A notes : chosen_fill(spec, notes, cells, type).fill = Choice(spec)
      BY ChosenClean
    <3>2. chosen_fill(spec, spec.notes, cells, type).fill = Choice(spec)
      BY <3>1
    <3> QED
      BY <2>1, <3>2
  <2>3. /\ spec.kind = "number" => Choice(spec) \in Numbers(spec.dtype)
        /\ spec.kind = "string" => Choice(spec) \in Texts
        /\ spec.kind = "opaque" => Choice(spec) \in Bytes(spec.width)
        /\ Choice(spec) # NoFill
    BY <1>4, ChoiceFits
  <2>4. MayHave(spec, out.fill)
    BY <1>4, <2>2, <2>3 DEF MayHave
  <2>5. /\ w.kind = spec.kind /\ w.fill = out.fill /\ w.notes = spec.notes
        /\ spec.kind = "number" => w.dtype = spec.dtype
    BY <1>4, <2>4, WithFill
  <2>6. chosen_fill(w, w.notes, cells, type) = out
    BY <2>1, <2>2, <2>3, <2>5, ChosenAgain
  <2>7. checked(w, t, i) = out
    BY <1>4, <2>5, <2>6 DEF checked, fill_for
  <2>8. Fits(w, type) /\ Filled(w)
    BY <1>4, <2>2, <2>3, <2>5 DEF Fits, Filled
  <2> QED
    BY <1>4, <2>2, <2>4, <2>7, <2>8
<1> QED
  BY <1>1, <1>2, <1>3, <1>4

-----------------------------------------------------------------------------
(* What a spec is inferred from.                                           *)

\* The width that is inferred takes every string of the column.
LEMMA Widths ==
  ASSUME NEW cells \in Seq({Null} \cup Texts)
  PROVE  /\ max_utf8_bytes(cells) \in Nat
         /\ \A v \in Range(cells) \ {Null} : encoded_len(v) <= max_utf8_bytes(cells)
<1> DEFINE lengths == {encoded_len(v) : v \in Range(cells) \ {Null}}
           S == {1} \cup lengths
<1>1. \A v \in Texts : encoded_len(v) \in Nat
  <2> SUFFICES ASSUME NEW v \in Texts PROVE encoded_len(v) \in Nat
    OBVIOUS
  <2>1. Len(v) \in Nat /\ DOMAIN v = 1..Len(v)
    BY LenProperties DEF Texts
  <2>2. IsFiniteSet(1..Len(v))
    BY <2>1, FS_Interval
  <2>3. {k \in DOMAIN v : v[k] = Wide} \in SUBSET (1..Len(v))
    BY <2>1
  <2>4. Cardinality({k \in DOMAIN v : v[k] = Wide}) \in Nat
    BY <2>2, <2>3, FS_Subset, FS_CardinalityType
  <2> QED
    BY <2>1, <2>4 DEF encoded_len
<1>2. /\ Len(cells) \in Nat /\ DOMAIN cells = 1..Len(cells)
      /\ \A r \in 1..Len(cells) : cells[r] \in {Null} \cup Texts
  BY LenProperties, ElementOfSeq
<1>3. IsFiniteSet(S)
  <2> DEFINE at == [r \in 1..Len(cells) |-> IF cells[r] = Null THEN 1 ELSE encoded_len(cells[r])]
             image == {at[r] : r \in 1..Len(cells)}
  <2>1. IsFiniteSet(1..Len(cells))
    BY <1>2, FS_Interval
  <2>2. IsFiniteSet(image)
    <3>1. at \in Surjection(1..Len(cells), image)
      <4>1. at \in [1..Len(cells) -> image]
        OBVIOUS
      <4>2. \A x \in image : \E r \in 1..Len(cells) : at[r] = x
        OBVIOUS
      <4> HIDE DEF at, image
      <4> QED
        BY <4>1, <4>2, Zenon DEF Surjection
    <3> HIDE DEF at, image
    <3> QED
      BY <2>1, <3>1, FS_Surjection
  <2>3. IsFiniteSet(image \cup {1})
    BY <2>2, FS_AddElement
  <2>4. S \in SUBSET (image \cup {1})
    <3> SUFFICES ASSUME NEW v \in Range(cells) \ {Null} PROVE encoded_len(v) \in image
      OBVIOUS
    <3>1. PICK r \in 1..Len(cells) : v = cells[r]
      BY <1>2 DEF Range
    <3>2. at[r] = encoded_len(v)
      BY <3>1
    <3> QED
      BY <3>2
  <2> HIDE DEF image, S
  <2> QED
    BY <2>3, <2>4, FS_Subset
<1>4. S \subseteq Int /\ S # {} /\ S \subseteq Nat
  <2>1. Range(cells) \ {Null} \subseteq Texts
    BY <1>2 DEF Range
  <2> QED
    BY <1>1, <2>1
<1>5. \E m \in S : \A n \in S : m >= n
  <2> HIDE DEF S
  <2> QED
    BY <1>3, <1>4, Extremes
<1>6. max_utf8_bytes(cells) = Max(S)
  BY DEF max_utf8_bytes
<1>7. Max(S) \in S /\ \A n \in S : Max(S) >= n
  <2> HIDE DEF S
  <2> QED
    BY <1>5, Zenon DEF Max
<1> QED
  <2>1. \A v \in Range(cells) \ {Null} : encoded_len(v) \in S
    OBVIOUS
  <2> HIDE DEF S
  <2> QED
    BY <1>4, <1>6, <1>7, <2>1

\* The labels of a column are the labels of its chunks; those of a single chunk
\* stay as they are.
LEMMA UnifiedLabels ==
  ASSUME NEW t, NEW i, IsSeq(t.batches),
         \A b \in DOMAIN t.batches : t.batches[b][i].labels \in Seq(Texts)
  PROVE  /\ unify_dictionaries(t, i) \in Seq(Texts)
         /\ \A b \in DOMAIN t.batches : Range(t.batches[b][i].labels) \subseteq Range(unify_dictionaries(t, i))
         /\ Len(t.batches) = 1 => unify_dictionaries(t, i) = t.batches[1][i].labels
<1> DEFINE dicts == [b \in DOMAIN t.batches |-> t.batches[b][i].labels]
           met == FlattenSeq(dicts)
           seen(p) == \E q \in 1..(p - 1) : met[q] = met[p]
           firsts == [p \in DOMAIN met |-> IF seen(p) THEN <<>> ELSE <<met[p]>>]
           n == Len(t.batches)
           W == Seq(Texts)
<1>1. n \in Nat /\ DOMAIN t.batches = 1..n
  BY DEF IsSeq
<1>2. dicts \in Seq(W) /\ Len(dicts) = n
  <2>1. dicts \in [1..n -> W]
    BY <1>1
  <2> HIDE DEF dicts, W
  <2>2. dicts \in Seq(W)
    BY <1>1, <2>1, SeqDef, Zenon
  <2> QED
    BY <1>1, <2>1, <2>2, LenProperties
<1>3. /\ met \in Seq(Texts)
      /\ Range(met) = UNION {Range(dicts[b]) : b \in DOMAIN dicts}
  <2> HIDE DEF dicts
  <2> QED
    BY <1>2, FlattenRange
<1>4. /\ n <= 1 => unify_dictionaries(t, i) = met
      /\ ~(n <= 1) => unify_dictionaries(t, i) = FlattenSeq(firsts)
  BY DEF unify_dictionaries
<1>5. /\ Len(met) \in Nat /\ DOMAIN met = 1..Len(met) /\ \A p \in DOMAIN met : met[p] \in Texts
  BY <1>3, LenProperties, ElementOfSeq
<1>6. firsts \in Seq(W) /\ DOMAIN firsts = DOMAIN met
  <2> HIDE DEF met
  <2>1. \A p \in DOMAIN met : <<met[p]>> \in W /\ <<>> \in W
    BY <1>5, EmptySeq
  <2> HIDE DEF seen, W
  <2>2. firsts \in [1..Len(met) -> W]
    BY <1>5, <2>1
  <2>3. firsts \in Seq(W)
    <3> HIDE DEF firsts
    <3> QED
      BY <1>5, <2>2, SeqDef, Zenon
  <2> QED
    BY <2>3
<1>7. /\ FlattenSeq(firsts) \in Seq(Texts)
      /\ Range(FlattenSeq(firsts)) = UNION {Range(firsts[p]) : p \in DOMAIN firsts}
  <2> HIDE DEF firsts
  <2> QED
    BY <1>6, FlattenRange
<1>8. Range(met) \subseteq Range(FlattenSeq(firsts))
  <2> SUFFICES ASSUME NEW p \in DOMAIN met PROVE met[p] \in Range(FlattenSeq(firsts))
    BY DEF Range
  <2> HIDE DEF met
  <2> DEFINE same == {q \in DOMAIN met : met[q] = met[p]}
  <2>1. same \subseteq Nat /\ same # {}
    BY <1>5
  <2>2. PICK q \in same : \A r \in same : q <= r
    <3> HIDE DEF same
    <3> QED
      BY <2>1, LeastNat
  <2>3. q \in DOMAIN met /\ met[q] = met[p] /\ ~seen(q)
    <3>1. q \in DOMAIN met /\ met[q] = met[p]
      BY <2>2
    <3>2. ASSUME NEW r \in 1..(q - 1), met[r] = met[q] PROVE FALSE
      <4>1. r \in DOMAIN met /\ r \in Nat /\ q \in Nat /\ r < q
        BY <1>5, <3>1
      <4>2. r \in same
        BY <3>1, <3>2, <4>1
      <4> HIDE DEF same
      <4>3. q <= r
        BY <2>2, <4>2
      <4> QED
        BY <4>1, <4>3
    <3> QED
      BY <3>1, <3>2
  <2>4. firsts[q] = <<met[p]>>
    BY <2>3
  <2>5. met[p] \in Range(firsts[q])
    <3>1. 1 \in DOMAIN <<met[p]>> /\ <<met[p]>>[1] = met[p]
      OBVIOUS
    <3> QED
      BY <2>4, <3>1, Zenon DEF Range
  <2> HIDE DEF firsts
  <2> QED
    BY <1>6, <1>7, <2>3, <2>5
<1>9. \A b \in DOMAIN t.batches : /\ Range(t.batches[b][i].labels) \subseteq Range(met)
                                  /\ Range(t.batches[b][i].labels) \subseteq Range(FlattenSeq(firsts))
  <2>1. \A b \in DOMAIN t.batches : dicts[b] = t.batches[b][i].labels /\ b \in DOMAIN dicts
    OBVIOUS
  <2> HIDE DEF dicts, met, firsts
  <2> QED
    BY <1>3, <1>8, <2>1
<1>10. ASSUME n = 1 PROVE met = t.batches[1][i].labels
  <2> DEFINE labels == t.batches[1][i].labels
  <2>1. labels \in Seq(Texts)
    BY <1>1, <1>10
  <2>2. PICK first \in [0..Len(dicts) -> Seq(Texts)] :
          /\ first[0] = <<>> /\ \A k \in 1..Len(dicts) : first[k] = first[k - 1] \o dicts[k]
          /\ met = first[Len(dicts)]
    <3> HIDE DEF dicts
    <3> QED
      BY <1>2, FlattenSteps
  <2>3. met = <<>> \o labels
    <3>1. 1 \in 1..n /\ 1 - 1 = 0 /\ dicts[1] = labels
      BY <1>1, <1>10
    <3> HIDE DEF dicts, labels, met
    <3> QED
      BY <1>2, <1>10, <2>2, <3>1
  <2> QED
    BY <2>1, <2>3, ConcatEmptySeq
<1> HIDE DEF met, firsts
<1>11. CASE n <= 1
  <2>1. n = 1 => unify_dictionaries(t, i) = t.batches[1][i].labels
    BY <1>4, <1>10, <1>11
  <2> QED
    BY <1>3, <1>4, <1>9, <1>11, <2>1
<1>12. CASE ~(n <= 1)
  <2>1. n # 1
    <3> HIDE DEF n
    <3> QED
      BY <1>1, <1>12
  <2> QED
    BY <1>4, <1>7, <1>9, <1>12, <2>1
<1> QED
  BY <1>11, <1>12

\* The codes that are inferred are signed and count the labels.
LEMMA InferredCodes ==
  ASSUME NEW n \in Nat, Countable(n), NEW index \in DOMAIN Domain, ~is_float(index)
  PROVE  LET d == code_dtype(index, n)
         IN  d \in DOMAIN Domain /\ ~is_float(d) /\ ~unsigned(d) /\ n <= highest(d)
<1> DEFINE Good(d) == ~is_float(d) /\ ~unsigned(d) /\ n <= highest(d)
           S == {highest(d) : d \in {e \in DOMAIN Domain : Good(e)}}
<1>1. CASE ~unsigned(index) /\ n <= highest(index)
  BY <1>1 DEF code_dtype
<1>2. CASE ~(~unsigned(index) /\ n <= highest(index))
  <2>1. code_dtype(index, n) = choose_code_dtype(n)
    BY <1>2 DEF code_dtype
  <2>2. \A d \in DOMAIN Domain : Good(d) => highest(d) \in Nat
    BY Datatypes
  <2>3. \E d \in DOMAIN Domain : Good(d)
    BY DEF Countable
  <2>4. S \subseteq Nat /\ S # {}
    <3> HIDE DEF Good
    <3> QED
      BY <2>2, <2>3
  <2>5. PICK least \in S : \A y \in S : least <= y
    <3> HIDE DEF S
    <3> QED
      BY <2>4, LeastNat
  <2>6. PICK d \in DOMAIN Domain : Good(d) /\ highest(d) = least
    OBVIOUS
  <2>7. \A e \in DOMAIN Domain : Good(e) => highest(d) <= highest(e)
    <3>1. \A e \in DOMAIN Domain : Good(e) => highest(e) \in S
      OBVIOUS
    <3> HIDE DEF S, Good
    <3> QED
      BY <2>5, <2>6, <3>1
  <2>8. choose_code_dtype(n) = CHOOSE c \in DOMAIN Domain :
          Good(c) /\ \A e \in DOMAIN Domain : Good(e) => highest(c) <= highest(e)
    BY DEF choose_code_dtype
  <2>9. choose_code_dtype(n) \in DOMAIN Domain /\ Good(choose_code_dtype(n))
    <3> HIDE DEF Good
    <3> QED
      BY <2>6, <2>7, <2>8, Zenon
  <2> QED
    BY <2>1, <2>9
<1> QED
  BY <1>1, <1>2

\* What has a type that can be imported.
LEMMA TableColumn ==
  ASSUME NEW t, IsTable(t), NEW i \in DOMAIN t.fields, importable(t.fields[i].type)
  PROVE  /\ IsType(t.fields[i].type)
         /\ column(t, i) \in Seq(Values(t.fields[i].type))
         /\ \A b \in DOMAIN t.batches : IsChunk(t.fields[i].type, t.batches[b][i])
         /\ t.fields[i].type.kind = "dictionary" =>
              /\ Countable(Len(unify_dictionaries(t, i)))
              /\ unify_dictionaries(t, i) \in Seq(Texts)
              /\ Range(column(t, i)) \subseteq {Null} \cup Range(unify_dictionaries(t, i))
<1> DEFINE type == t.fields[i].type
<1>1. /\ IsType(type) /\ \A b \in DOMAIN t.batches : IsChunk(type, t.batches[b][i])
      /\ type.kind = "dictionary" => Countable(Len(unify_dictionaries(t, i)))
  BY DEF IsTable
<1>2. IsSeq(t.batches) /\ Len(t.batches) \in 0..Len(t.batches) /\ DOMAIN t.batches = 1..Len(t.batches)
  BY DEF IsTable, IsSeq
<1>3. /\ column(t, i) \in Seq(Values(type))
      /\ Range(column(t, i)) = UNION {Range(Cells(t.batches[b][i])) : b \in 1..Len(t.batches)}
  <2>1. column(t, i) = Prefix(t, i, Len(t.batches))
    BY <1>1, <1>2, PrefixFacts
  <2>2. /\ Prefix(t, i, Len(t.batches)) \in Seq(Values(type))
        /\ Range(Prefix(t, i, Len(t.batches))) = UNION {Range(Cells(t.batches[b][i])) : b \in 1..Len(t.batches)}
    BY <1>1, <1>2, PrefixFacts
  <2> HIDE DEF Prefix, type
  <2> QED
    BY <2>1, <2>2, Zenon
<1>4. ASSUME type.kind = "dictionary"
      PROVE  /\ unify_dictionaries(t, i) \in Seq(Texts)
             /\ Range(column(t, i)) \subseteq {Null} \cup Range(unify_dictionaries(t, i))
  <2>1. \A b \in DOMAIN t.batches :
          /\ t.batches[b][i].labels \in Seq(Texts)
          /\ t.batches[b][i].cells \in Seq({Null} \cup 0..(Len(t.batches[b][i].labels) - 1))
    BY <1>1, <1>4 DEF IsChunk
  <2>2. /\ unify_dictionaries(t, i) \in Seq(Texts)
        /\ \A b \in DOMAIN t.batches :
             Range(t.batches[b][i].labels) \subseteq Range(unify_dictionaries(t, i))
    BY <1>2, <2>1, UnifiedLabels
  <2>3. ASSUME NEW b \in DOMAIN t.batches, NEW v \in Range(Cells(t.batches[b][i]))
        PROVE  v \in {Null} \cup Range(t.batches[b][i].labels)
    <3> DEFINE chunk == t.batches[b][i]
               n == Len(chunk.labels)
    <3>1. PICK r \in DOMAIN chunk.cells : v = IF chunk.labels = <<>> \/ chunk.cells[r] = Null
                                              THEN chunk.cells[r] ELSE chunk.labels[chunk.cells[r] + 1]
      BY <2>3 DEF Range, Cells
    <3>2. /\ chunk.cells[r] \in {Null} \cup 0..(n - 1) /\ n \in Nat /\ DOMAIN chunk.labels = 1..n
          /\ chunk.labels = <<>> => n = 0
      BY <2>1, LenProperties, ElementOfSeq, EmptySeq
    <3>3. CASE chunk.cells[r] = Null
      BY <3>1, <3>3
    <3>4. CASE chunk.cells[r] # Null
      <4>1. chunk.cells[r] + 1 \in 1..n /\ chunk.labels # <<>>
        BY <3>2, <3>4
      <4> QED
        BY <3>1, <3>2, <3>4, <4>1 DEF Range
    <3> QED
      BY <3>3, <3>4
  <2> QED
    BY <1>2, <1>3, <2>2, <2>3
<1> QED
  BY <1>1, <1>3, <1>4

\* The leaf that is inferred for a list.
LEMMA InferredLeaf ==
  ASSUME NEW type, IsLeafType(type), NEW cells, NEW leaf, leaf = leaf_spec(type, cells)
  PROVE  /\ IsLeafSpec(leaf) /\ LeafFits(leaf, type)
         /\ type.kind = "string" => leaf.kind = "strings" /\ leaf.nullable = nulls(cells)
         /\ type.kind = "number" => leaf.kind = "number" /\ leaf.dtype = type.dtype
         /\ type.kind = "opaque" => leaf.kind = "opaque" /\ leaf.width = type.width
         /\ type.kind = "boolean" => leaf.kind = "boolean"
         /\ type.kind # "string" => leaf.fill = NoFill
<1>1. CASE type.kind = "string"
  <2>1. leaf = [kind |-> "strings", nullable |-> nulls(cells)]
    BY <1>1 DEF leaf_spec
  <2> QED
    BY <1>1, <2>1 DEF IsLeafSpec, LeafFits, nulls
<1>2. CASE type.kind = "number"
  <2>1. leaf = [kind |-> "number", dtype |-> type.dtype, fill |-> NoFill] /\ type.dtype \in DOMAIN Domain
    BY <1>2 DEF leaf_spec, IsLeafType
  <2> QED
    BY <1>2, <2>1 DEF IsLeafSpec, LeafFits
<1>3. CASE type.kind = "opaque"
  <2>1. leaf = [kind |-> "opaque", width |-> type.width, fill |-> NoFill] /\ type.width \in Nat \ {0}
    BY <1>3 DEF leaf_spec, IsLeafType
  <2> QED
    BY <1>3, <2>1 DEF IsLeafSpec, LeafFits
<1>4. CASE type.kind = "boolean"
  <2>1. leaf = [kind |-> "boolean", fill |-> NoFill]
    BY <1>4 DEF leaf_spec
  <2> QED
    BY <1>4, <2>1 DEF IsLeafSpec, LeafFits
<1> QED
  BY <1>1, <1>2, <1>3, <1>4 DEF IsLeafType, LeafKinds

\* What is inferred from a field with these cells and these labels.
InferredOf(spec, field, cells, labels) ==
  LET type == field.type
  IN  /\ IsSpec(spec) /\ Fits(spec, type)
      /\ spec.name = field.name /\ spec.attributes = field.metadata.other
      /\ type.kind # "dictionary" => spec.notes = field.metadata.h5col
      /\ spec.kind # "list" => spec.fill = NoFill
      /\ type.kind = "list" =>
           /\ spec.kind = "list"
           /\ spec.nullable = [k \in 1..type.levels |-> nulls(Level(cells, k - 1))]
           /\ Len(spec.nullable) = type.levels
           /\ spec.leaf = leaf_spec(type.of, Level(cells, type.levels))
      /\ type.kind = "dictionary" =>
           /\ spec.kind = "categorical" /\ spec.labels = labels
           /\ spec.dtype = code_dtype(type.index, Len(spec.labels))
           /\ ~unsigned(spec.dtype) /\ Len(spec.labels) <= highest(spec.dtype)
           /\ spec.notes = with_ordered(field.metadata.h5col, type.ordered)
      /\ type.kind = "string" => spec.kind = "string" /\ spec.width = max_utf8_bytes(cells)
      /\ type.kind = "opaque" => spec.kind = "opaque" /\ spec.width = type.width
      /\ type.kind = "number" => spec.kind = "number" /\ spec.dtype = type.dtype
      /\ type.kind = "boolean" => spec.kind = "boolean"

\* The spec that is inferred for a field.
LEMMA InferredSpec ==
  ASSUME NEW t, IsTable(t), NEW i \in DOMAIN t.fields, importable(t.fields[i].type),
         NEW spec, spec = spec_from_field(t, i)
  PROVE  InferredOf(spec, t.fields[i], column(t, i), unify_dictionaries(t, i))
<1> SUFFICES LET field == t.fields[i]
                 type  == field.type
             IN  /\ IsSpec(spec) /\ Fits(spec, type)
                 /\ spec.name = field.name /\ spec.attributes = field.metadata.other
                 /\ type.kind # "dictionary" => spec.notes = field.metadata.h5col
                 /\ spec.kind # "list" => spec.fill = NoFill
                 /\ type.kind = "list" =>
                      /\ spec.kind = "list"
                      /\ spec.nullable = [k \in 1..type.levels |-> nulls(Level(column(t, i), k - 1))]
                      /\ Len(spec.nullable) = type.levels
                      /\ spec.leaf = leaf_spec(type.of, Level(column(t, i), type.levels))
                 /\ type.kind = "dictionary" =>
                      /\ spec.kind = "categorical" /\ spec.labels = unify_dictionaries(t, i)
                      /\ spec.dtype = code_dtype(type.index, Len(spec.labels))
                      /\ ~unsigned(spec.dtype) /\ Len(spec.labels) <= highest(spec.dtype)
                      /\ spec.notes = with_ordered(field.metadata.h5col, type.ordered)
                 /\ type.kind = "string" => spec.kind = "string" /\ spec.width = max_utf8_bytes(column(t, i))
                 /\ type.kind = "opaque" => spec.kind = "opaque" /\ spec.width = type.width
                 /\ type.kind = "number" => spec.kind = "number" /\ spec.dtype = type.dtype
                 /\ type.kind = "boolean" => spec.kind = "boolean"
  BY DEF InferredOf
<1> DEFINE field == t.fields[i]
           type == field.type
           cells == column(t, i)
           notes == field.metadata.h5col
           other == field.metadata.other
<1>1. /\ IsType(type) /\ cells \in Seq(Values(type))
      /\ type.kind = "dictionary" =>
           Countable(Len(unify_dictionaries(t, i))) /\ unify_dictionaries(t, i) \in Seq(Texts)
  BY TableColumn
<1>2. CASE type.kind = "list"
  <2> DEFINE nullable == [k \in 1..type.levels |-> nulls(Level(cells, k - 1))]
             leaf == leaf_spec(type.of, Level(cells, type.levels))
  <2>1. spec = [name |-> field.name, notes |-> notes, attributes |-> other,
                kind |-> "list", nullable |-> nullable, leaf |-> leaf]
    BY <1>2, Zenon DEF spec_from_field, values_spec_from_type
  <2>2. type.levels \in Nat /\ IsLeafType(type.of)
    <3>1. MaxLevels \in Nat
      BY ApartAssumption
    <3> QED
      BY <1>1, <1>2, <3>1 DEF IsType, IsLeafType, LeafKinds
  <2>3. IsLeafSpec(leaf) /\ LeafFits(leaf, type.of)
    BY <2>2, InferredLeaf
  <2>4. nullable \in Seq(BOOLEAN) /\ Len(nullable) = type.levels
    <3>1. nullable \in [1..type.levels -> BOOLEAN]
      BY DEF nulls
    <3> HIDE DEF nullable
    <3>2. nullable \in Seq(BOOLEAN)
      BY <2>2, <3>1, SeqDef, Zenon
    <3> QED
      BY <2>2, <3>1, <3>2, LenProperties
  <2> HIDE DEF nullable, leaf, notes, other, cells
  <2>5. /\ spec.kind = "list" /\ spec.nullable = nullable /\ spec.leaf = leaf
        /\ spec.name = field.name /\ spec.attributes = other /\ spec.notes = notes
    BY <2>1
  <2>6. IsSpec(spec)
    BY <2>1, <2>3, <2>4 DEF IsSpec
  <2>7. Fits(spec, type)
    BY <1>1, <1>2, <2>3, <2>4, <2>5 DEF Fits
  <2> QED
    BY <1>2, <2>4, <2>5, <2>6, <2>7 DEF nullable, leaf, notes, other, cells
<1>3. CASE type.kind = "dictionary"
  <2> DEFINE labels == unify_dictionaries(t, i)
             all == with_ordered(notes, type.ordered)
             d == code_dtype(type.index, Len(labels))
  <2>1. spec = [name |-> field.name, notes |-> all, attributes |-> other,
                kind |-> "categorical", fill |-> NoFill, labels |-> labels, dtype |-> d]
    BY <1>3, Zenon DEF spec_from_field
  <2>2. labels \in Seq(Texts) /\ Countable(Len(labels)) /\ Len(labels) \in Nat
    BY <1>1, <1>3, LenProperties
  <2>3. type.index \in DOMAIN Domain /\ ~is_float(type.index)
    BY <1>1, <1>3 DEF IsType, IsLeafType, LeafKinds
  <2>4. d \in DOMAIN Domain /\ ~is_float(d) /\ ~unsigned(d) /\ Len(labels) <= highest(d)
    BY <2>2, <2>3, InferredCodes
  <2> HIDE DEF labels, all, d, notes, other
  <2>5. /\ spec.kind = "categorical" /\ spec.labels = labels /\ spec.dtype = d /\ spec.fill = NoFill
        /\ spec.name = field.name /\ spec.attributes = other /\ spec.notes = all
    BY <2>1
  <2>6. IsSpec(spec)
    BY <2>1, <2>2, <2>4 DEF IsSpec
  <2>7. Fits(spec, type)
    BY <1>1, <1>3, <2>5 DEF Fits
  <2> QED
    BY <1>3, <2>4, <2>5, <2>6, <2>7 DEF labels, all, d, notes, other
<1>4. CASE type.kind = "string"
  <2> DEFINE width == max_utf8_bytes(cells)
  <2>1. spec = [name |-> field.name, notes |-> notes, attributes |-> other,
                kind |-> "string", fill |-> NoFill, width |-> width]
    BY <1>4, Zenon DEF spec_from_field
  <2>2. width \in Nat
    <3>1. cells \in Seq({Null} \cup Texts)
      BY <1>1, <1>4 DEF Values, Leaves
    <3> QED
      BY <3>1, Widths
  <2> HIDE DEF width, notes, other
  <2>3. /\ spec.kind = "string" /\ spec.width = width /\ spec.fill = NoFill
        /\ spec.name = field.name /\ spec.attributes = other /\ spec.notes = notes
    BY <2>1
  <2>4. IsSpec(spec) /\ Fits(spec, type)
    BY <1>1, <1>4, <2>1, <2>2 DEF IsSpec, Fits, LeafKinds
  <2> QED
    BY <1>4, <2>3, <2>4 DEF width, notes, other
<1>5. CASE type.kind = "opaque"
  <2>1. spec = [name |-> field.name, notes |-> notes, attributes |-> other,
                kind |-> "opaque", fill |-> NoFill, width |-> type.width]
    BY <1>5, Zenon DEF spec_from_field
  <2>2. type.width \in Nat \ {0}
    BY <1>1, <1>5 DEF IsType, IsLeafType
  <2> HIDE DEF notes, other
  <2>3. /\ spec.kind = "opaque" /\ spec.width = type.width /\ spec.fill = NoFill
        /\ spec.name = field.name /\ spec.attributes = other /\ spec.notes = notes
    BY <2>1
  <2>4. IsSpec(spec) /\ Fits(spec, type)
    BY <1>1, <1>5, <2>1, <2>2 DEF IsSpec, Fits, LeafKinds
  <2> QED
    BY <1>5, <2>3, <2>4 DEF notes, other
<1>6. CASE type.kind = "number"
  <2>1. spec = [name |-> field.name, notes |-> notes, attributes |-> other,
                kind |-> "number", fill |-> NoFill, dtype |-> type.dtype]
    BY <1>6, Zenon DEF spec_from_field
  <2>2. type.dtype \in DOMAIN Domain
    BY <1>1, <1>6 DEF IsType, IsLeafType
  <2> HIDE DEF notes, other
  <2>3. /\ spec.kind = "number" /\ spec.dtype = type.dtype /\ spec.fill = NoFill
        /\ spec.name = field.name /\ spec.attributes = other /\ spec.notes = notes
    BY <2>1
  <2>4. IsSpec(spec) /\ Fits(spec, type)
    BY <1>1, <1>6, <2>1, <2>2 DEF IsSpec, Fits, LeafKinds
  <2> QED
    BY <1>6, <2>3, <2>4 DEF notes, other
<1>7. CASE type.kind = "boolean"
  <2>1. spec = [name |-> field.name, notes |-> notes, attributes |-> other,
                kind |-> "boolean", fill |-> NoFill]
    BY <1>7, Zenon DEF spec_from_field
  <2> HIDE DEF notes, other
  <2>3. /\ spec.kind = "boolean" /\ spec.fill = NoFill
        /\ spec.name = field.name /\ spec.attributes = other /\ spec.notes = notes
    BY <2>1
  <2>4. IsSpec(spec) /\ Fits(spec, type)
    BY <1>1, <1>7, <2>1 DEF IsSpec, Fits, LeafKinds
  <2> QED
    BY <1>7, <2>3, <2>4 DEF notes, other
<1> QED
  BY <1>1, <1>2, <1>3, <1>4, <1>5, <1>6, <1>7 DEF IsType, IsLeafType, LeafKinds

\* The spec that is inferred for an array.
LEMMA ArraySpec ==
  ASSUME NEW t, IsTable(t), IsArrays(t), NEW i \in DOMAIN t.fields,
         NEW spec, spec = infer_column_spec(t, i)
  PROVE  LET type == t.fields[i].type
         IN  /\ IsSpec(spec) /\ Fits(spec, type) /\ importable(type)
             /\ spec.kind = type.kind /\ type.kind \in LeafKinds
             /\ spec.name = t.fields[i].name /\ spec.notes = <<>> /\ spec.attributes = {}
             /\ spec.fill = NoFill /\ ~nulls(column(t, i))
             /\ type.kind = "number" => spec.dtype = type.dtype
             /\ type.kind = "string" => spec.width = max_utf8_bytes(column(t, i))
             /\ type.kind = "opaque" => spec.width = type.width
<1> DEFINE type == t.fields[i].type
           name == t.fields[i].name
           cells == column(t, i)
<1>1. /\ IsLeafType(type) /\ ~nulls(cells) /\ importable(type) /\ type.kind \in LeafKinds
      /\ IsType(type) /\ cells \in Seq(Values(type))
  <2>1. IsLeafType(type) /\ ~nulls(cells) /\ type.kind \in LeafKinds
    BY DEF IsArrays, IsLeafType
  <2>2. importable(type)
    BY <2>1 DEF importable
  <2> QED
    BY <2>1, <2>2, TableColumn
<1>2. CASE type.kind = "string"
  <2> DEFINE width == max_utf8_bytes(cells)
  <2>1. spec = [name |-> name, notes |-> <<>>, attributes |-> {}, kind |-> "string",
                fill |-> NoFill, width |-> width]
    BY <1>2, Zenon DEF infer_column_spec
  <2>2. width \in Nat
    <3>1. cells \in Seq({Null} \cup Texts)
      BY <1>1, <1>2 DEF Values, Leaves
    <3> QED
      BY <3>1, Widths
  <2> HIDE DEF width
  <2>3. IsSpec(spec) /\ Fits(spec, type)
    BY <1>1, <1>2, <2>1, <2>2 DEF IsSpec, Fits, LeafKinds
  <2> QED
    BY <1>1, <1>2, <2>1, <2>3 DEF width
<1>3. CASE type.kind = "opaque"
  <2>1. spec = [name |-> name, notes |-> <<>>, attributes |-> {}, kind |-> "opaque",
                fill |-> NoFill, width |-> type.width]
    BY <1>3, Zenon DEF infer_column_spec
  <2>2. type.width \in Nat \ {0}
    BY <1>1, <1>3 DEF IsLeafType
  <2>3. IsSpec(spec) /\ Fits(spec, type)
    BY <1>1, <1>3, <2>1, <2>2 DEF IsSpec, Fits, LeafKinds
  <2> QED
    BY <1>1, <1>3, <2>1, <2>3
<1>4. CASE type.kind = "number"
  <2>1. spec = [name |-> name, notes |-> <<>>, attributes |-> {}, kind |-> "number",
                fill |-> NoFill, dtype |-> type.dtype]
    BY <1>4, Zenon DEF infer_column_spec
  <2>2. type.dtype \in DOMAIN Domain
    BY <1>1, <1>4 DEF IsLeafType
  <2>3. IsSpec(spec) /\ Fits(spec, type)
    BY <1>1, <1>4, <2>1, <2>2 DEF IsSpec, Fits, LeafKinds
  <2> QED
    BY <1>1, <1>4, <2>1, <2>3
<1>5. CASE type.kind = "boolean"
  <2>1. spec = [name |-> name, notes |-> <<>>, attributes |-> {}, kind |-> "boolean",
                fill |-> NoFill]
    BY <1>5, Zenon DEF infer_column_spec
  <2>3. IsSpec(spec) /\ Fits(spec, type)
    BY <1>1, <1>5, <2>1 DEF IsSpec, Fits, LeafKinds
  <2> QED
    BY <1>1, <1>5, <2>1, <2>3
<1> QED
  BY <1>1, <1>2, <1>3, <1>4, <1>5 DEF LeafKinds

-----------------------------------------------------------------------------
(* Checked specs.                                                          *)

\* What a leaf is once its fill has been checked against the elements.
LeafSettled(leaf, cells, type) ==
  /\ leaf.kind \in {"number", "opaque"} => leaf.fill # NoFill /\ leaf.fill \notin Range(cells)
  /\ leaf.kind = "number" => leaf.fill \in Numbers(leaf.dtype)
  /\ leaf.kind = "opaque" => leaf.fill \in Bytes(leaf.width) /\ leaf.width = type.width
  /\ leaf.kind = "boolean" => ~nulls(cells)

\* What a spec is that has been checked against the data, or inferred from arrays.
Settled(spec, t, i) ==
  /\ IsSpec(spec) /\ Fits(spec, t.fields[i].type) /\ spec.name = t.fields[i].name
  /\ importable(t.fields[i].type)
  /\ spec.kind \in {"number", "string", "opaque"} =>
       fill_of(spec) # NoFill /\ (spec.fill = fill_of(spec) \/ ~nulls(column(t, i)))
  /\ spec.kind = "number" => fill_of(spec) \in Numbers(spec.dtype)
  /\ spec.kind = "string" => fill_of(spec) \in Texts
  /\ spec.kind = "opaque" => fill_of(spec) \in Bytes(spec.width) /\ spec.width = t.fields[i].type.width
  /\ spec.kind = "boolean" => fill_of(spec) = NoFill /\ ~nulls(column(t, i))
  /\ spec.kind = "categorical" => fill_of(spec) = default_categorical_fill(spec.dtype)
  /\ spec.kind = "list" =>
       LeafSettled(spec.leaf, Level(column(t, i), Len(spec.nullable)), t.fields[i].type.of)

\* The fill of a checked spec is no value of the column.
Fresh(spec, t, i) ==
  spec.kind \in {"number", "string", "opaque"} => fill_of(spec) \notin Range(column(t, i))

\* NaN is no raw bytes.
LEMMA NaNNoBytes ==
  ASSUME NEW w \in Nat, NEW b \in Bytes(w)
  PROVE  b # NaN
<1>1. b \in Seq(0..255)
  BY SeqDef, Zenon DEF Bytes
<1> QED
  BY <1>1, ApartAssumption

\* A width that its own fill fits is the width of the type.
LEMMA SameWidth ==
  ASSUME NEW w \in Nat, NEW fill \in Bytes(w), NEW type, type.kind = "opaque",
         fill_scalar_fits(fill, type)
  PROVE  w = type.width
<1>1. Len(fill) = w
  <2>1. fill \in Seq(0..255) /\ DOMAIN fill = 1..w
    BY SeqDef, Zenon DEF Bytes
  <2> QED
    BY <2>1, LenProperties
<1>2. Len(fill) = type.width
  BY DEF fill_scalar_fits
<1> QED
  BY <1>1, <1>2

\* What it means that a fill was chosen.
LEMMA ChosenMeans ==
  ASSUME NEW spec, NEW cells, NEW type
  PROVE  \A notes : chosen_fill(spec, notes, cells, type).reason = "none" =>
           /\ Choice(spec) = NaN \/ fill_scalar_fits(Choice(spec), type)
           /\ Choice(spec) \notin Range(cells)
<1> TAKE notes
<1> QED
  BY ChosenClean

\* A checked spec is settled, and so is one inferred from arrays.
LEMMA SpecsSettled ==
  ASSUME NEW t, IsTable(t), NEW i \in DOMAIN t.fields, NEW spec
  PROVE  /\ Ready(spec, t, i) => Settled(spec, t, i) /\ Fresh(spec, t, i)
         /\ IsArrays(t) /\ spec = infer_column_spec(t, i) => Settled(spec, t, i)
<1> DEFINE type == t.fields[i].type
           cells == column(t, i)
<1>1. ASSUME Ready(spec, t, i)
      PROVE  Settled(spec, t, i) /\ Fresh(spec, t, i)
  <2>1. /\ IsSpec(spec) /\ Fits(spec, type) /\ spec.name = t.fields[i].name
        /\ Filled(spec) /\ checked(spec, t, i).reason = "none"
    BY <1>1 DEF Ready
  <2>2. IsType(type) /\ importable(type)
    BY <2>1 DEF Fits, IsType, importable, IsLeafType
  <2>3. CASE spec.kind \in {"number", "string", "opaque"}
    <3>1. checked(spec, t, i) = chosen_fill(spec, spec.notes, cells, type)
      BY <2>3 DEF checked, fill_for
    <3>2. spec.fill # NoFill /\ fill_of(spec) = spec.fill /\ Choice(spec) = spec.fill
      BY <2>1, <2>3 DEF Filled, fill_of, Choice
    <3>3. /\ spec.fill = NaN \/ fill_scalar_fits(spec.fill, type)
          /\ spec.fill \notin Range(cells)
      BY <2>1, <3>1, <3>2, ChosenMeans
    <3>4. /\ spec.kind = "number" => spec.fill \in Numbers(spec.dtype)
          /\ spec.kind = "string" => spec.fill \in Texts
          /\ spec.kind = "opaque" => spec.fill \in Bytes(spec.width) /\ spec.width \in Nat
      BY <2>1, <3>2 DEF IsSpec
    <3>5. ASSUME spec.kind = "opaque" PROVE spec.width = type.width
      <4>1. type.kind = "opaque" /\ IsLeafType(type)
        BY <2>1, <3>5 DEF Fits, IsType, LeafKinds
      <4>2. spec.fill # NaN
        BY <3>4, <3>5, NaNNoBytes
      <4> QED
        BY <3>3, <3>4, <3>5, <4>1, <4>2, SameWidth
    <3> QED
      BY <2>1, <2>2, <2>3, <3>2, <3>3, <3>4, <3>5 DEF Settled, Fresh
  <2>4. CASE spec.kind = "boolean"
    <3>1. ~nulls(cells)
      BY <2>1, <2>4 DEF checked, fill_for, Outcome
    <3> QED
      BY <2>1, <2>2, <2>4, <3>1 DEF Settled, Fresh, fill_of
  <2>5. CASE spec.kind = "categorical"
    <3>1. fill_of(spec) = default_categorical_fill(spec.dtype)
      BY <2>1, <2>5 DEF Filled, fill_of
    <3> QED
      BY <2>1, <2>2, <2>5, <3>1 DEF Settled, Fresh
  <2>6. CASE spec.kind = "list"
    <3> DEFINE leaf == spec.leaf
               leaves == Level(cells, Len(spec.nullable))
    <3>1. /\ IsLeafSpec(leaf) /\ LeafFilled(leaf) /\ IsLeafType(type.of) /\ LeafFits(leaf, type.of)
          /\ leaf_fill(leaf, leaves, type.of).reason = "none"
      BY <2>1, <2>6 DEF IsSpec, Filled, Fits, IsType, IsLeafType, LeafKinds, checked, apply_list_fills
    <3>2. ASSUME leaf.kind \in {"number", "opaque"}
          PROVE  /\ leaf.fill # NoFill /\ leaf.fill \notin Range(leaves)
                 /\ leaf.fill = NaN \/ fill_scalar_fits(leaf.fill, type.of)
      <4>1. leaf_fill(leaf, leaves, type.of) = chosen_fill(leaf, <<>>, leaves, type.of)
        BY <3>2 DEF leaf_fill
      <4>2. leaf.fill # NoFill /\ Choice(leaf) = leaf.fill
        BY <3>1, <3>2 DEF LeafFilled, Choice
      <4> QED
        BY <3>1, <4>1, <4>2, ChosenMeans
    <3>3. ASSUME leaf.kind = "number" PROVE leaf.fill \in Numbers(leaf.dtype)
      BY <3>1, <3>2, <3>3 DEF IsLeafSpec
    <3>4. ASSUME leaf.kind = "opaque" PROVE leaf.fill \in Bytes(leaf.width) /\ leaf.width = type.of.width
      <4>1. leaf.fill \in Bytes(leaf.width) /\ leaf.width \in Nat /\ type.of.kind = "opaque"
        BY <3>1, <3>2, <3>4 DEF IsLeafSpec, LeafFits
      <4>2. leaf.fill # NaN
        BY <4>1, NaNNoBytes
      <4> QED
        BY <3>2, <3>4, <4>1, <4>2, SameWidth
    <3>5. ASSUME leaf.kind = "boolean" PROVE ~nulls(leaves)
      BY <3>1, <3>5 DEF leaf_fill, Outcome
    <3>6. LeafSettled(leaf, leaves, type.of)
      BY <3>2, <3>3, <3>4, <3>5 DEF LeafSettled
    <3> QED
      BY <2>1, <2>2, <2>6, <3>6 DEF Settled, Fresh
  <2> QED
    BY <2>1, <2>3, <2>4, <2>5, <2>6 DEF IsSpec, LeafKinds
<1>2. ASSUME IsArrays(t), spec = infer_column_spec(t, i)
      PROVE  Settled(spec, t, i)
  <2>1. /\ IsSpec(spec) /\ Fits(spec, type) /\ importable(type)
        /\ spec.kind = type.kind /\ type.kind \in LeafKinds
        /\ spec.name = t.fields[i].name
        /\ spec.fill = NoFill /\ ~nulls(cells)
        /\ type.kind = "opaque" => spec.width = type.width
    BY <1>2, ArraySpec
  <2>2. CASE spec.kind \in {"number", "string", "opaque"}
    <3>1. fill_of(spec) = recommended_fill(spec) /\ Choice(spec) = recommended_fill(spec)
      BY <2>1, <2>2 DEF fill_of, Choice
    <3>2. /\ fill_of(spec) # NoFill
          /\ spec.kind = "number" => fill_of(spec) \in Numbers(spec.dtype)
          /\ spec.kind = "string" => fill_of(spec) \in Texts
          /\ spec.kind = "opaque" => fill_of(spec) \in Bytes(spec.width)
      BY <2>1, <2>2, <3>1, ChoiceFits
    <3> QED
      BY <2>1, <2>2, <3>2 DEF Settled
  <2>3. CASE spec.kind = "boolean"
    BY <2>1, <2>3 DEF Settled, fill_of
  <2> QED
    BY <2>1, <2>2, <2>3 DEF LeafKinds
<1> QED
  BY <1>1, <1>2

-----------------------------------------------------------------------------
(* What inferred specs take.                                               *)

\* What is on a level of one value is on that level of its column.
LEMMA ValueInColumn ==
  ASSUME NEW S, NEW n \in Nat, NEW cells \in Seq(Nested(S, n)), NEW v \in Range(cells), NEW k \in 0..n
  PROVE  Range(Level(<<v>>, k)) \subseteq Range(Level(cells, k))
BY LevelOfValues

\* What is on the levels of a list column, and of a value in it.
LEMMA ListLevels ==
  ASSUME NEW type, IsType(type), type.kind = "list", NEW n, n = type.levels,
         NEW S, S = Leaves(type.of), NEW cells \in Seq(Values(type))
  PROVE  /\ n \in Nat /\ n \in 1..MaxLevels /\ IsLeafType(type.of) /\ type.of.kind \in LeafKinds
         /\ cells \in Seq(Nested(S, n)) /\ Range(cells) \subseteq Nested(S, n)
         /\ Range(Level(cells, n)) \subseteq S
         /\ \A v \in Range(cells) : \A k \in 0..n : Range(Level(<<v>>, k)) \subseteq Range(Level(cells, k))
<1>1. MaxLevels \in Nat
  BY ApartAssumption
<1>2. n \in 1..MaxLevels /\ IsLeafType(type.of)
  BY DEF IsType, IsLeafType, LeafKinds
<1>3. n \in Nat /\ type.of.kind \in LeafKinds
  BY <1>1, <1>2 DEF IsLeafType
<1>4. cells \in Seq(Nested(S, n))
  BY DEF Values
<1>5. Level(cells, n) \in Seq(Nested(S, n - n))
  BY <1>3, <1>4, LevelLists
<1>6. n - n = 0 /\ Nested(S, 0) = S
  BY <1>3, NestedUp
<1>7. Level(cells, n) \in Seq(S)
  BY <1>5, <1>6
<1>8. Range(cells) \subseteq Nested(S, n) /\ Range(Level(cells, n)) \subseteq S
  BY <1>4, <1>7, RangeOfSeq
<1>9. \A v \in Range(cells) : \A k \in 0..n : Range(Level(<<v>>, k)) \subseteq Range(Level(cells, k))
  BY <1>3, <1>4, ValueInColumn
<1> QED
  BY <1>2, <1>3, <1>4, <1>8, <1>9

\* A list column, the leaf and the MASKs inferred for it, the leaf with a fill.
ListInferred(type, cells, n, of, leaves, bare, f, leaf, nullable) ==
  /\ IsType(type) /\ type.kind = "list" /\ cells \in Seq(Values(type))
  /\ n = type.levels /\ of = type.of /\ leaves = Level(cells, n)
  /\ bare = leaf_spec(of, leaves) /\ leaf = with_leaf_fill(bare, f)
  /\ bare.kind = "number" => f \in {NoFill} \cup Numbers(bare.dtype)
  /\ bare.kind = "opaque" => f \in {NoFill} \cup Bytes(bare.width)
  /\ nullable = [k \in 1..n |-> nulls(Level(cells, k - 1))]

\* The MASKs and the leaf that are inferred for a list take every value in it.
LEMMA ListTakes ==
  ASSUME NEW type, NEW cells, NEW n, NEW of, NEW leaves, NEW bare, NEW f, NEW leaf, NEW nullable,
         ListInferred(type, cells, n, of, leaves, bare, f, leaf, nullable),
         leaf_fill(leaf, leaves, of).reason = "none", NEW v \in Range(cells)
  PROVE  /\ \A k \in 1..n : nulls(Level(<<v>>, k - 1)) => nullable[k]
         /\ \A e \in Range(Level(<<v>>, n)) : encodable_leaf(leaf, e)
<1>0. /\ IsType(type) /\ type.kind = "list" /\ cells \in Seq(Values(type))
      /\ n = type.levels /\ of = type.of /\ leaves = Level(cells, n)
      /\ bare = leaf_spec(of, leaves) /\ leaf = with_leaf_fill(bare, f)
      /\ bare.kind = "number" => f \in {NoFill} \cup Numbers(bare.dtype)
      /\ bare.kind = "opaque" => f \in {NoFill} \cup Bytes(bare.width)
      /\ nullable = [k \in 1..n |-> nulls(Level(cells, k - 1))]
  BY DEF ListInferred
<1>1. PICK S : S = Leaves(type.of) /\ S = Leaves(of)
  BY <1>0
<1>2. /\ n \in Nat /\ IsLeafType(of) /\ of.kind \in LeafKinds /\ Range(leaves) \subseteq S
      /\ \A k \in 0..n : Range(Level(<<v>>, k)) \subseteq Range(Level(cells, k))
  <2>1. n \in Nat /\ IsLeafType(type.of) /\ type.of.kind \in LeafKinds
    BY <1>0, <1>1, ListLevels
  <2>2. Range(Level(cells, n)) \subseteq S
    BY <1>0, <1>1, ListLevels
  <2>3. \A u \in Range(cells) : \A k \in 0..n : Range(Level(<<u>>, k)) \subseteq Range(Level(cells, k))
    BY <1>0, <1>1, ListLevels
  <2> QED
    BY <1>0, <1>1, <2>1, <2>2, <2>3
<1>3. ASSUME NEW k \in 1..n, nulls(Level(<<v>>, k - 1)) PROVE nullable[k]
  <2>1. n \in Nat
    BY <1>2
  <2>2. k - 1 \in 0..n
    BY <2>1
  <2>3. Range(Level(<<v>>, k - 1)) \subseteq Range(Level(cells, k - 1))
    BY <1>2, <2>2
  <2>4. nulls(Level(cells, k - 1))
    BY <1>3, <2>3 DEF nulls
  <2> QED
    BY <1>0, <2>4
<1>4. /\ IsLeafSpec(bare)
      /\ of.kind = "string" => bare.kind = "strings" /\ bare.nullable = nulls(leaves)
      /\ of.kind = "number" => bare.kind = "number" /\ bare.dtype = of.dtype
      /\ of.kind = "opaque" => bare.kind = "opaque"
      /\ of.kind = "boolean" => bare.kind = "boolean"
  BY <1>0, <1>2, InferredLeaf
<1>5. /\ leaf.kind = bare.kind
      /\ bare.kind = "strings" => leaf = bare
      /\ bare.kind = "number" => leaf.dtype = bare.dtype
  BY <1>0, <1>4, LeafWithFill
<1>6. ASSUME NEW e \in Range(Level(<<v>>, n)) PROVE encodable_leaf(leaf, e)
  <2>1. e \in Range(leaves) /\ e \in S
    <3>1. n \in 0..n
      BY <1>2
    <3> QED
      BY <1>0, <1>2, <1>6, <3>1
  <2>2. CASE of.kind = "string"
    BY <1>4, <1>5, <2>1, <2>2 DEF encodable_leaf, nulls
  <2>3. CASE of.kind = "opaque"
    BY <1>4, <1>5, <2>1, <2>3 DEF encodable_leaf
  <2>4. CASE of.kind = "boolean"
    <3>1. ~nulls(leaves)
      BY <1>4, <1>5, <2>4 DEF leaf_fill, Outcome
    <3> QED
      BY <1>4, <1>5, <2>1, <2>4, <3>1 DEF encodable_leaf, nulls
  <2>5. CASE of.kind = "number"
    <3>1. of.dtype \in DOMAIN Domain /\ S = {Null} \cup Numbers(of.dtype)
      BY <1>1, <1>2, <2>5, Apart DEF IsLeafType
    <3>2. e = Null \/ e \in Domain[of.dtype] \/ is_float(of.dtype)
      BY <2>1, <3>1 DEF Numbers
    <3> QED
      BY <1>4, <1>5, <2>5, <3>2 DEF encodable_leaf
  <2> QED
    BY <1>2, <2>2, <2>3, <2>4, <2>5 DEF LeafKinds
<1> QED
  BY <1>3, <1>6

\* A string without padding has none to lose.
LEMMA Unpadded ==
  ASSUME NEW s \in Texts
  PROVE  unpadded(s) \in Texts /\ unpadded(unpadded(s)) = unpadded(s)
<1> DEFINE ends == {i \in DOMAIN s : s[i] # Nul}
           n == Max({0} \cup ends)
<1>1. DOMAIN s = 1..Len(s) /\ Len(s) \in Nat /\ ends \subseteq 1..Len(s)
  BY LenProperties DEF Texts
<1>2. /\ n \in {0} \cup ends /\ \A k \in {0} \cup ends : k <= n
  <2> DEFINE E == {0} \cup ends
  <2>1. E \subseteq Int /\ E # {} /\ IsFiniteSet(E)
    <3>1. E \subseteq 0..Len(s) /\ IsFiniteSet(0..Len(s))
      BY <1>1, FS_Interval
    <3> QED
      BY <3>1, FS_Subset
  <2> HIDE DEF E
  <2>2. Max(E) \in E /\ \A k \in E : k <= Max(E)
    <3>1. \E x \in E : \A y \in E : x >= y
      BY <2>1, Extremes
    <3> QED
      BY <2>1, <3>1 DEF Max
  <2> QED
    BY <2>2 DEF E
<1> HIDE DEF n
<1>3. n \in 0..Len(s) /\ unpadded(s) = SubSeq(s, 1, n)
  BY <1>1, <1>2 DEF unpadded, n
<1>4. PICK u : u = unpadded(s)
  OBVIOUS
<1>5. u = [i \in 1..n |-> s[i]] /\ u \in Seq(Chars) /\ Len(u) = n
  <2>1. u = SubSeq(s, 1, n) /\ s \in Seq(Chars) /\ n \in 0..Len(s)
    BY <1>3, <1>4 DEF Texts
  <2> QED
    BY <2>1, SubSeqProperties
<1>6. PICK others : others = {i \in DOMAIN u : u[i] # Nul}
  OBVIOUS
<1>7. DOMAIN u = 1..n /\ others = ends
  <2>1. DOMAIN u = 1..n
    BY <1>5
  <2>2. \A i \in ends : i \in 1..n
    BY <1>1, <1>2
  <2>3. \A i \in 1..n : u[i] = s[i]
    BY <1>5
  <2>4. \A i \in 1..n : i \in DOMAIN s
    BY <1>1, <1>3
  <2> QED
    BY <1>6, <2>1, <2>2, <2>3, <2>4
<1>8. unpadded(u) = SubSeq(u, 1, n)
  <2>1. unpadded(u) = SubSeq(u, 1, Max({0} \cup others))
    BY <1>6 DEF unpadded
  <2> QED
    BY <1>7, <2>1 DEF n
<1>9. SubSeq(u, 1, n) = u
  BY <1>3, <1>5, SubSeqProperties
<1> QED
  BY <1>4, <1>5, <1>8, <1>9 DEF Texts

\* The labels that are read back: as many, each without its padding.
LEMMA ReadLabels ==
  ASSUME NEW spec, spec.labels \in Seq(Texts), NEW read, read = load_category_labels(spec)
  PROVE  /\ read \in Seq(Texts) /\ Len(read) = Len(spec.labels) /\ DOMAIN read = DOMAIN spec.labels
         /\ \A l \in Range(read) : l = unpadded(l)
         /\ \A l \in Range(spec.labels) : l = unpadded(l) => l \in Range(read)
         /\ (\A l \in Range(spec.labels) : l = unpadded(l)) => read = spec.labels
<1>1. PICK labels : labels = spec.labels
  OBVIOUS
<1>2. PICK n \in Nat : n = Len(labels)
  BY <1>1, LenProperties
<1>3. /\ DOMAIN labels = 1..n /\ labels = [k \in 1..n |-> labels[k]]
      /\ \A k \in 1..n : labels[k] \in Texts
  BY <1>1, <1>2, LenProperties, SeqDef, ElementOfSeq
<1>4. read = [k \in 1..n |-> unpadded(labels[k])]
  BY <1>1, <1>3 DEF load_category_labels
<1>5. \A k \in 1..n : read[k] \in Texts /\ read[k] = unpadded(labels[k]) /\ read[k] = unpadded(read[k])
  BY <1>3, <1>4, Unpadded
<1>6. read \in [1..n -> Texts]
  BY <1>4, <1>5
<1>7. read \in Seq(Texts) /\ Len(read) = n /\ DOMAIN read = 1..n
  <2>1. read \in Seq(Texts)
    BY <1>2, <1>6, SeqDef, Zenon
  <2> QED
    BY <1>2, <1>6, <2>1, LenProperties
<1>8. \A l \in Range(read) : l = unpadded(l)
  BY <1>5, <1>7 DEF Range
<1>9. \A l \in Range(labels) : l = unpadded(l) => l \in Range(read)
  BY <1>3, <1>5, <1>7 DEF Range
<1>10. ASSUME \A l \in Range(labels) : l = unpadded(l) PROVE read = labels
  <2>1. \A k \in 1..n : unpadded(labels[k]) = labels[k]
    BY <1>3, <1>10 DEF Range
  <2> QED
    BY <1>3, <1>4, <2>1
<1> QED
  BY <1>1, <1>2, <1>3, <1>7, <1>8, <1>9, <1>10

\* The code of a label that is read back is one of that label.
LEMMA CodeOf ==
  ASSUME NEW spec, spec.labels \in Seq(Texts), NEW read, read = load_category_labels(spec),
         NEW v \in Range(read), NEW c, c = code_of(spec, v)
  PROVE  /\ c \in 0..(Len(spec.labels) - 1) /\ c \in Int /\ read[c + 1] = v
         /\ read # <<>> /\ spec.labels # <<>>
<1>1. PICK n \in Nat : n = Len(spec.labels)
  BY LenProperties
<1>2. DOMAIN read = 1..n /\ DOMAIN spec.labels = 1..n
  BY <1>1, ReadLabels, LenProperties
<1>3. PICK same : same = {k \in 1..n : read[k] = v}
  OBVIOUS
<1>4. same # {} /\ same \subseteq Int /\ IsFiniteSet(same)
  <2>1. same # {}
    BY <1>2, <1>3 DEF Range
  <2>2. same \subseteq 1..n /\ IsFiniteSet(1..n) /\ 1..n \subseteq Int
    BY <1>3, FS_Interval
  <2>3. IsFiniteSet(same)
    BY <2>2, FS_Subset, Zenon
  <2> QED
    BY <2>1, <2>2, <2>3
<1>5. Max(same) \in same
  <2>1. \E x \in same : \A y \in same : x >= y
    BY <1>4, Extremes
  <2> QED
    BY <1>4, <2>1 DEF Max
<1>6. c = Max(same) - 1
  <2>1. {k \in DOMAIN spec.labels : load_category_labels(spec)[k] = v} = same
    BY <1>2, <1>3
  <2> QED
    BY <2>1 DEF code_of
<1>7. PICK k \in 1..n : k = Max(same) /\ read[k] = v
  BY <1>3, <1>5
<1>8. c = k - 1 /\ c + 1 = k /\ c \in 0..(n - 1)
  BY <1>6, <1>7
<1>9. n # 0 /\ read # <<>> /\ spec.labels # <<>>
  BY <1>2, <1>7
<1> QED
  BY <1>1, <1>7, <1>8, <1>9

\* Inferred specs take every value of their column, whatever fill they have; but not
\* one of a label that ends in a NUL.
LEMMA InferredTakes ==
  ASSUME NEW t, IsTable(t), NEW i \in DOMAIN t.fields, importable(t.fields[i].type),
         NEW bare, bare = spec_from_field(t, i), NEW f, MayHave(bare, f),
         NEW spec, spec = with_fill(bare, f), checked(spec, t, i).reason = "none",
         NEW v \in Range(column(t, i)), t.fields[i].type.kind = "dictionary" => v = Null \/ v = unpadded(v)
  PROVE  encodable(spec, Taken(spec, v))
<1>1. PICK type : type = t.fields[i].type
  OBVIOUS
<1>2. PICK cells : cells = column(t, i)
  OBVIOUS
<1>3. /\ IsType(type) /\ cells \in Seq(Values(type))
      /\ type.kind = "dictionary" => Range(cells) \subseteq {Null} \cup Range(unify_dictionaries(t, i))
  BY <1>1, <1>2, TableColumn
<1>4. /\ IsSpec(bare)
      /\ type.kind = "list" =>
           /\ bare.kind = "list"
           /\ bare.nullable = [k \in 1..type.levels |-> nulls(Level(cells, k - 1))]
           /\ Len(bare.nullable) = type.levels
           /\ bare.leaf = leaf_spec(type.of, Level(cells, type.levels))
      /\ type.kind = "dictionary" => bare.kind = "categorical" /\ bare.labels = unify_dictionaries(t, i)
      /\ type.kind = "string" => bare.kind = "string" /\ bare.width = max_utf8_bytes(cells)
      /\ type.kind = "opaque" => bare.kind = "opaque"
      /\ type.kind = "number" => bare.kind = "number"
      /\ type.kind = "boolean" => bare.kind = "boolean"
  <2>1. InferredOf(bare, t.fields[i], cells, unify_dictionaries(t, i))
    BY <1>1, <1>2, InferredSpec
  <2> QED
    BY <1>1, <2>1 DEF InferredOf
<1>5. /\ spec.kind = bare.kind
      /\ bare.kind = "categorical" => spec.labels = bare.labels
      /\ bare.kind = "string" => spec.width = bare.width
      /\ bare.kind = "list" => spec.nullable = bare.nullable /\ spec.leaf = with_leaf_fill(bare.leaf, f)
  BY <1>4, WithFill
<1>6. CASE type.kind \in {"number", "opaque", "boolean"}
  BY <1>4, <1>5, <1>6 DEF encodable
<1>7. CASE type.kind = "dictionary"
  <2>1. spec.kind = "categorical" /\ spec.labels \in Seq(Texts) /\ Taken(spec, v) = v
    BY <1>4, <1>5, <1>7 DEF IsSpec, Taken
  <2>2. v = Null \/ (v \in Range(spec.labels) /\ v = unpadded(v))
    BY <1>1, <1>2, <1>3, <1>4, <1>5, <1>7
  <2>3. v = Null \/ v \in Range(load_category_labels(spec))
    BY <2>1, <2>2, ReadLabels
  <2> QED
    BY <2>1, <2>3 DEF encodable
<1>8. CASE type.kind = "string"
  <2>1. cells \in Seq({Null} \cup Texts)
    BY <1>3, <1>8 DEF Values, Leaves
  <2>2. \A u \in Range(cells) \ {Null} : encoded_len(u) <= max_utf8_bytes(cells)
    BY <2>1, Widths
  <2> QED
    BY <1>2, <1>4, <1>5, <1>8, <2>2 DEF encodable, Taken
<1>9. CASE type.kind = "list"
  <2>1. PICK leaves : leaves = Level(cells, type.levels)
    OBVIOUS
  <2>2. /\ spec.kind = "list" /\ Taken(spec, v) = v /\ Len(spec.nullable) = type.levels
        /\ spec.nullable = [k \in 1..type.levels |-> nulls(Level(cells, k - 1))]
        /\ bare.leaf = leaf_spec(type.of, leaves) /\ spec.leaf = with_leaf_fill(bare.leaf, f)
    BY <1>4, <1>5, <1>9, <2>1 DEF Taken
  <2>3. leaf_fill(spec.leaf, leaves, type.of).reason = "none"
    BY <1>1, <1>2, <2>1, <2>2 DEF checked, apply_list_fills
  <2>4. /\ bare.leaf.kind = "number" => f \in {NoFill} \cup Numbers(bare.leaf.dtype)
        /\ bare.leaf.kind = "opaque" => f \in {NoFill} \cup Bytes(bare.leaf.width)
    BY <1>4, <1>9 DEF MayHave
  <2>5. /\ \A k \in 1..type.levels : nulls(Level(<<v>>, k - 1)) => spec.nullable[k]
        /\ \A e \in Range(Level(<<v>>, type.levels)) : encodable_leaf(spec.leaf, e)
    <3>1. v \in Range(cells)
      BY <1>2
    <3>2. ListInferred(type, cells, type.levels, type.of, leaves, bare.leaf, f, spec.leaf, spec.nullable)
      BY <1>3, <1>9, <2>1, <2>2, <2>4 DEF ListInferred
    <3> QED
      BY <2>3, <3>1, <3>2, ListTakes
  <2> QED
    BY <2>2, <2>5 DEF encodable, encodable_element
<1> QED
  BY <1>3, <1>6, <1>7, <1>8, <1>9 DEF IsType, IsLeafType, LeafKinds

\* So do the specs that are inferred for arrays.
LEMMA ArraysTaken ==
  ASSUME NEW t, IsTable(t), IsArrays(t), NEW i \in DOMAIN t.fields,
         NEW spec, spec = infer_column_spec(t, i), NEW v \in Range(column(t, i))
  PROVE  encodable(spec, Taken(spec, v))
<1> DEFINE type == t.fields[i].type
           cells == column(t, i)
<1>1. /\ importable(type) /\ spec.kind = type.kind /\ type.kind \in LeafKinds
      /\ type.kind = "string" => spec.width = max_utf8_bytes(cells)
  BY ArraySpec
<1>2. CASE type.kind # "string"
  BY <1>1, <1>2 DEF encodable, LeafKinds
<1>3. CASE type.kind = "string"
  <2>1. cells \in Seq({Null} \cup Texts)
    BY <1>1, <1>3, TableColumn DEF Values, Leaves
  <2>2. \A u \in Range(cells) \ {Null} : encoded_len(u) <= max_utf8_bytes(cells)
    BY <2>1, Widths
  <2> QED
    BY <1>1, <1>3, <2>2 DEF encodable, Taken
<1> QED
  BY <1>2, <1>3

-----------------------------------------------------------------------------
(* What comes back of a value.                                             *)

\* What a reader of the export sees of a stored value.
Shown(spec, x) ==
  IF spec.kind = "list" THEN values_array(spec, x)
  ELSE LET c == IF is_missing(x, fill_of(spec)) THEN Null ELSE x
           read == load_category_labels(spec)
       IN  IF spec.kind # "categorical" \/ read = <<>> \/ c = Null THEN c ELSE read[c + 1]

\* The fill of a categorical column is no code.
NoCode(spec) == spec.kind = "categorical" => fill_of(spec) \notin 0..(Len(spec.labels) - 1)

\* The numbers of a column, whatever the spec stores them as, can be cast.
LEMMA NumberCells ==
  ASSUME NEW t, IsTable(t), NEW i \in DOMAIN t.fields, NEW spec, Settled(spec, t, i),
         spec.kind = "number", NEW v \in Range(column(t, i)), v # Null
  PROVE  /\ spec.dtype \in DOMAIN Domain
         /\ v \in Int \/ (is_float(spec.dtype) /\ v \in Int \cup {NaN})
<1>1. PICK type : type = t.fields[i].type
  OBVIOUS
<1>2. Fits(spec, type) /\ IsSpec(spec) /\ importable(type)
  BY <1>1 DEF Settled
<1>3. /\ spec.dtype \in DOMAIN Domain
      /\ \/ type.kind = "boolean"
         \/ type.kind = "number" /\ (is_float(type.dtype) => is_float(spec.dtype))
      /\ IsType(type)
  BY <1>2 DEF IsSpec, Fits
<1>4. v \in Leaves(type) /\ IsLeafType(type)
  <2>1. column(t, i) \in Seq(Values(type))
    BY <1>1, <1>2, TableColumn
  <2>2. Values(type) = Leaves(type) /\ IsLeafType(type)
    BY <1>3 DEF Values, IsType, LeafKinds
  <2>3. column(t, i) \in Seq(Leaves(type))
    BY <2>1, <2>2
  <2> QED
    BY <2>2, <2>3, RangeOfSeq
<1>5. CASE type.kind = "boolean"
  <2>1. v \in {0, 1}
    BY <1>4, <1>5, Apart
  <2> QED
    BY <1>3, <2>1
<1>6. CASE type.kind = "number"
  <2>1. v \in Numbers(type.dtype) /\ type.dtype \in DOMAIN Domain
    BY <1>4, <1>6, Apart DEF IsLeafType
  <2>2. CASE is_float(type.dtype)
    BY <1>3, <1>6, <2>1, <2>2 DEF Numbers
  <2>3. CASE ~is_float(type.dtype)
    BY <1>3, <2>1, <2>3, Datatypes
  <2> QED
    BY <2>2, <2>3
<1> QED
  BY <1>3, <1>5, <1>6

\* A value of a column without lists comes back from the file as it was.
LEMMA ScalarKept ==
  ASSUME NEW t, IsTable(t), NEW i \in DOMAIN t.fields, NEW spec,
         Settled(spec, t, i), Fresh(spec, t, i), NoCode(spec), spec.kind # "list",
         NEW v \in Range(column(t, i)), encodable(spec, Taken(spec, v)), Holds(spec, v)
  PROVE  Shown(spec, Stored(spec, v)) = v
<1>1. PICK fill : fill = fill_of(spec)
  OBVIOUS
<1>2. PICK y : y = Taken(spec, v)
  OBVIOUS
<1>3. PICK col : col = Created(spec, <<>>)
  OBVIOUS
<1>4. col.spec = spec /\ col.fill = fill /\ Stored(spec, v) = encode(col, y)
  BY <1>1, <1>2, <1>3 DEF Created, Stored
<1>5. IsSpec(spec)
  BY DEF Settled
<1>6. CASE spec.kind = "boolean"
  <2>1. fill = NoFill /\ v # Null
    BY <1>1, <1>6 DEF Settled, nulls
  <2>2. y = v /\ encode(col, y) = v
    BY <1>2, <1>4, <1>6, <2>1 DEF Taken, encode
  <2> QED
    BY <1>1, <1>4, <1>6, <2>1, <2>2 DEF Shown, is_missing
<1>7. CASE spec.kind \in {"number", "opaque", "string"}
  <2>1. fill # NoFill /\ fill # v /\ (v = Null => spec.fill = fill)
    BY <1>1, <1>7 DEF Settled, Fresh, nulls
  <2>2. encode(col, y) = IF v = Null THEN fill ELSE v
    <3>1. CASE spec.kind = "number"
      <4>1. spec.dtype \in DOMAIN Domain /\ fill \in Numbers(spec.dtype)
        BY <1>1, <1>5, <3>1 DEF Settled, IsSpec
      <4>2. CASE v = Null
        <5>1. y = astype(fill, spec.dtype)
          BY <1>2, <2>1, <3>1, <4>2 DEF Taken
        <5>2. fill \in Int \/ (is_float(spec.dtype) /\ fill \in Int \cup {NaN})
          BY <4>1, Datatypes DEF Numbers
        <5>3. fill \in Domain[spec.dtype] \/ is_float(spec.dtype)
          BY <4>1 DEF Numbers
        <5>4. y = fill
          BY <4>1, <5>1, <5>2, <5>3, Casts
        <5>5. fill # Null
          BY <5>2, ApartAssumption
        <5> QED
          BY <1>4, <3>1, <4>2, <5>4, <5>5 DEF encode
      <4>3. CASE v # Null
        <5>1. y = astype(v, spec.dtype)
          BY <1>2, <3>1, <4>3 DEF Taken
        <5>2. v \in Int \/ (is_float(spec.dtype) /\ v \in Int \cup {NaN})
          BY <3>1, <4>3, NumberCells
        <5>3. v \in Domain[spec.dtype] \/ is_float(spec.dtype)
          BY <3>1, <4>3 DEF Holds
        <5>4. y = v
          BY <4>1, <5>1, <5>2, <5>3, Casts
        <5> QED
          BY <1>4, <3>1, <4>3, <5>4 DEF encode
      <4> QED
        BY <4>2, <4>3
    <3>2. CASE spec.kind = "opaque"
      <4>1. y = IF v = Null THEN fill ELSE v
        BY <1>2, <2>1, <3>2 DEF Taken
      <4>2. encode(col, y) = IF y = Null THEN fill ELSE y
        BY <1>4, <3>2 DEF encode
      <4> QED
        BY <4>1, <4>2
    <3>3. CASE spec.kind = "string"
      <4>1. y = v
        BY <1>2, <3>3 DEF Taken
      <4>2. v # Null => unpadded(v) = v
        BY <3>3 DEF Holds
      <4> QED
        BY <1>4, <3>3, <4>1, <4>2 DEF encode
    <3> QED
      BY <1>7, <3>1, <3>2, <3>3
  <2> QED
    BY <1>1, <1>4, <1>7, <2>1, <2>2 DEF Shown, is_missing
<1>8. CASE spec.kind = "categorical"
  <2>0. PICK read : read = load_category_labels(spec)
    OBVIOUS
  <2>1. y = v /\ (v = Null \/ v \in Range(read)) /\ spec.labels \in Seq(Texts)
    BY <1>2, <1>5, <1>8, <2>0 DEF Taken, encodable, IsSpec
  <2>2. fill # NoFill /\ fill \in Int
    <3>1. fill = default_categorical_fill(spec.dtype) /\ spec.dtype \in DOMAIN Domain /\ ~is_float(spec.dtype)
      BY <1>1, <1>5, <1>8 DEF Settled, IsSpec
    <3>2. highest(spec.dtype) \in Int
      BY <3>1, Datatypes
    <3>3. fill \in Int
      BY <3>1, <3>2 DEF default_categorical_fill
    <3> QED
      BY <3>3, ApartAssumption
  <2>3. CASE v = Null
    <3>1. encode(col, y) = fill
      BY <1>4, <1>8, <2>1, <2>3 DEF encode
    <3> QED
      BY <1>1, <1>4, <1>8, <2>2, <2>3, <3>1 DEF Shown, is_missing
  <2>4. CASE v # Null
    <3>1. PICK c : c = code_of(spec, v)
      OBVIOUS
    <3>2. c \in 0..(Len(spec.labels) - 1) /\ c \in Int /\ read[c + 1] = v /\ read # <<>>
      BY <2>0, <2>1, <2>4, <3>1, CodeOf
    <3>3. encode(col, y) = c
      BY <1>4, <1>8, <2>1, <2>4, <3>1 DEF encode
    <3>4. c # fill /\ c # Null
      BY <1>1, <1>8, <3>2, ApartAssumption DEF NoCode
    <3> QED
      BY <1>1, <1>4, <1>8, <2>0, <3>2, <3>3, <3>4 DEF Shown, is_missing
  <2> QED
    BY <2>3, <2>4
<1> QED
  BY <1>5, <1>6, <1>7, <1>8 DEF IsSpec, LeafKinds

\* More leaves, more lists.
LEMMA NestedGrows ==
  ASSUME NEW S, NEW T, S \subseteq T
  PROVE  \A n \in Nat : Nested(S, n) \subseteq Nested(T, n)
<1> DEFINE P == {n \in Nat : Nested(S, n) \subseteq Nested(T, n)}
<1>1. 0 \in P
  BY NestedUp
<1>2. ASSUME NEW n \in P PROVE n + 1 \in P
  <2>1. n \in Nat /\ Nested(S, n) \subseteq Nested(T, n)
    BY <1>2
  <2>2. Seq(Nested(S, n)) \subseteq Seq(Nested(T, n))
    BY <2>1
  <2>3. Nested(S, n + 1) = {Null} \cup Seq(Nested(S, n)) /\ Nested(T, n + 1) = {Null} \cup Seq(Nested(T, n))
    BY <2>1, NestedUp
  <2> QED
    BY <2>1, <2>2, <2>3
<1>3. Nat \subseteq P
  <2> HIDE DEF P
  <2> QED
    BY <1>1, <1>2, NatSetInduction
<1> QED
  BY <1>3

\* No list is taken for a null, whatever is in it.
LEMMA EverythingApart ==
  ASSUME NEW S, S \subseteq Everything, NEW n \in 1..MaxLevels
  PROVE  NullApart(S, n)
<1>1. ASSUME NEW k \in 0..(n - 1) PROVE Null \notin Seq(Nested(S, k))
  <2>1. k \in Nat /\ k \in 0..MaxLevels
    BY ApartAssumption
  <2>2. Nested(S, k) \subseteq Nested(Everything, k)
    BY <2>1, NestedGrows
  <2>3. Seq(Nested(S, k)) \subseteq Seq(Nested(Everything, k))
    BY <2>2
  <2> QED
    BY <2>1, <2>3, ApartAssumption
<1> QED
  BY <1>1 DEF NullApart

\* All leaves are among everything.
LEMMA LeavesAreThings ==
  ASSUME NEW type, IsLeafType(type)
  PROVE  Leaves(type) \subseteq Everything
<1>1. CASE type.kind = "number"
  <2>1. type.dtype \in DOMAIN Domain /\ Leaves(type) = {Null} \cup Numbers(type.dtype)
    BY <1>1, Apart DEF IsLeafType
  <2>2. Numbers(type.dtype) \subseteq Int \cup {NaN}
    BY <2>1, Datatypes DEF Numbers
  <2> QED
    BY <2>1, <2>2 DEF Everything
<1>2. CASE type.kind = "boolean"
  BY <1>2, Apart DEF Everything
<1>3. CASE type.kind = "opaque"
  <2>1. type.width \in Nat /\ Leaves(type) = {Null} \cup Bytes(type.width)
    BY <1>3, Apart DEF IsLeafType
  <2>2. ASSUME NEW b \in Bytes(type.width) PROVE b \in Seq(0..255)
    <3>1. PICK w \in Nat : w = type.width
      BY <2>1
    <3>2. b \in [1..w -> 0..255]
      BY <3>1 DEF Bytes
    <3> QED
      BY <3>2, SeqDef, Zenon
  <2> QED
    BY <2>1, <2>2 DEF Everything
<1>4. CASE type.kind = "string"
  BY <1>4, Apart DEF Everything
<1> QED
  BY <1>1, <1>2, <1>3, <1>4 DEF IsLeafType, LeafKinds

\* The element type of a leaf is a type of leaves.
LEMMA LeafTypes ==
  ASSUME NEW leaf, IsLeafSpec(leaf), NEW type, type = element_type(leaf)
  PROVE  /\ IsLeafType(type)
         /\ leaf.kind = "strings" => type.kind = "string" /\ Leaves(type) = {Null} \cup Texts
         /\ leaf.kind = "number" =>
              type.kind = "number" /\ type.dtype = leaf.dtype /\ Leaves(type) = {Null} \cup Numbers(leaf.dtype)
         /\ leaf.kind = "opaque" =>
              type.kind = "opaque" /\ type.width = leaf.width /\ Leaves(type) = {Null} \cup Bytes(leaf.width)
         /\ leaf.kind = "boolean" => type.kind = "boolean" /\ Leaves(type) = {Null, 0, 1}
<1>1. CASE leaf.kind = "strings"
  <2>1. type = [kind |-> "string", large |-> TRUE]
    BY <1>1, Zenon DEF element_type
  <2>2. type.kind = "string" /\ IsLeafType(type)
    BY <2>1 DEF IsLeafType, LeafKinds
  <2> QED
    BY <1>1, <2>2, Apart
<1>2. CASE leaf.kind = "number"
  <2>1. type = [kind |-> "number", dtype |-> leaf.dtype]
    BY <1>2, Zenon DEF element_type
  <2>2. type.kind = "number" /\ type.dtype = leaf.dtype /\ IsLeafType(type)
    BY <1>2, <2>1 DEF IsLeafType, LeafKinds, IsLeafSpec
  <2>3. Leaves(type) = {Null} \cup Numbers(type.dtype)
    BY <2>2, Apart
  <2> QED
    BY <1>2, <2>2, <2>3
<1>3. CASE leaf.kind = "opaque"
  <2>1. type = [kind |-> "opaque", width |-> leaf.width]
    BY <1>3, Zenon DEF element_type
  <2>2. type.kind = "opaque" /\ type.width = leaf.width /\ IsLeafType(type)
    BY <1>3, <2>1 DEF IsLeafType, LeafKinds, IsLeafSpec
  <2>3. Leaves(type) = {Null} \cup Bytes(type.width)
    BY <2>2, Apart
  <2> QED
    BY <1>3, <2>2, <2>3
<1>4. CASE leaf.kind = "boolean"
  <2>1. type = [kind |-> "boolean"]
    BY <1>4, Zenon DEF element_type
  <2>2. type.kind = "boolean" /\ IsLeafType(type)
    BY <2>1 DEF IsLeafType, LeafKinds
  <2> QED
    BY <1>4, <2>2, Apart
<1> QED
  BY <1>1, <1>2, <1>3, <1>4 DEF IsLeafSpec

\* An element comes back from the file as it was.
LEMMA LeafKept ==
  ASSUME NEW leaf, IsLeafSpec(leaf), NEW type, IsLeafType(type), LeafFits(leaf, type),
         NEW leaves, LeafSettled(leaf, leaves, type), NEW e \in Range(leaves), e \in Leaves(type),
         encodable_leaf(leaf, e), NEW of, of = element_type(leaf)
  PROVE  /\ leaf_array(leaf, encode_leaf(leaf, e)) = e
         /\ e \in Leaves(of) /\ encode_leaf(leaf, e) \in Leaves(of)
<1>1. CASE leaf.kind = "strings"
  <2>1. Leaves(type) = {Null} \cup Texts
    BY <1>1, Apart DEF LeafFits
  <2>2. Leaves(of) = {Null} \cup Texts
    BY <1>1, LeafTypes
  <2> QED
    BY <1>1, <2>1, <2>2 DEF leaf_array, encode_leaf
<1>2. CASE leaf.kind = "boolean"
  <2>1. Leaves(type) = {Null, 0, 1}
    BY <1>2, Apart DEF LeafFits
  <2>2. Leaves(of) = {Null, 0, 1}
    BY <1>2, LeafTypes
  <2> QED
    BY <1>2, <2>1, <2>2 DEF leaf_array, encode_leaf
<1>3. CASE leaf.kind \in {"number", "opaque"}
  <2>1. leaf.fill # NoFill /\ leaf.fill # e
    BY <1>3 DEF LeafSettled
  <2>2. leaf_array(leaf, encode_leaf(leaf, e)) = e
    BY <1>3, <2>1 DEF leaf_array, encode_leaf, is_missing
  <2>3. leaf.fill \in Leaves(of) /\ e \in Leaves(of)
    <3>1. CASE leaf.kind = "number"
      <4>1. Leaves(of) = {Null} \cup Numbers(leaf.dtype) /\ leaf.fill \in Numbers(leaf.dtype)
            /\ leaf.dtype \in DOMAIN Domain
        BY <3>1, LeafTypes DEF LeafSettled, IsLeafSpec
      <4>2. e = Null \/ e \in Domain[leaf.dtype] \/ is_float(leaf.dtype)
        BY <3>1 DEF encodable_leaf
      <4>3. e = Null \/ e \in Int \cup {NaN}
        <5>1. CASE type.kind = "boolean"
          BY <5>1, Apart
        <5>2. CASE type.kind = "number"
          <6>1. e = Null \/ e \in Numbers(type.dtype)
            BY <5>2, Apart
          <6>2. type.dtype \in DOMAIN Domain
            BY <5>2 DEF IsLeafType
          <6> QED
            BY <6>1, <6>2, Datatypes DEF Numbers
        <5> QED
          BY <3>1, <5>1, <5>2 DEF LeafFits
      <4>4. e = Null \/ e \in Numbers(leaf.dtype)
        BY <4>1, <4>2, <4>3 DEF Numbers
      <4> QED
        BY <4>1, <4>4
    <3>2. CASE leaf.kind = "opaque"
      <4>1. Leaves(of) = {Null} \cup Bytes(leaf.width) /\ leaf.fill \in Bytes(leaf.width)
            /\ leaf.width = type.width
        BY <3>2, LeafTypes DEF LeafSettled
      <4>2. Leaves(type) = {Null} \cup Bytes(type.width)
        BY <3>2, Apart DEF LeafFits
      <4> QED
        BY <4>1, <4>2
    <3> QED
      BY <1>3, <3>1, <3>2
  <2>4. encode_leaf(leaf, e) = leaf.fill \/ encode_leaf(leaf, e) = e
    BY DEF encode_leaf
  <2> QED
    BY <2>2, <2>3, <2>4
<1> QED
  BY <1>1, <1>2, <1>3 DEF IsLeafSpec

\* A list comes back from the file as it was, whatever its leaves are stored as.
LEMMA ListKept ==
  ASSUME NEW t, IsTable(t), NEW i \in DOMAIN t.fields, NEW spec, Settled(spec, t, i),
         spec.kind = "list", NEW v \in Range(column(t, i)), encodable(spec, Taken(spec, v))
  PROVE  /\ Shown(spec, Stored(spec, v)) = v
         /\ v \in Nested(Leaves(element_type(spec.leaf)), Len(spec.nullable))
<1>1. PICK type : type = t.fields[i].type
  OBVIOUS
<1>2. PICK leaf : leaf = spec.leaf
  OBVIOUS
<1>3. PICK n : n = Len(spec.nullable)
  OBVIOUS
<1>4. PICK cells : cells = column(t, i)
  OBVIOUS
<1>5. PICK leaves : leaves = Level(cells, n)
  OBVIOUS
<1>6. PICK of : of = element_type(leaf)
  OBVIOUS
<1>7. /\ IsSpec(spec) /\ IsLeafSpec(leaf) /\ importable(type)
      /\ IsType(type) /\ type.kind = "list" /\ n = type.levels /\ LeafFits(leaf, type.of)
      /\ LeafSettled(leaf, leaves, type.of)
  BY <1>1, <1>2, <1>3, <1>4, <1>5 DEF Settled, IsSpec, Fits
<1>8. cells \in Seq(Values(type))
  BY <1>1, <1>4, <1>7, TableColumn
<1>9. PICK S : S = Leaves(type.of)
  OBVIOUS
<1>10. /\ n \in Nat /\ n \in 1..MaxLevels /\ IsLeafType(type.of)
       /\ Range(cells) \subseteq Nested(S, n) /\ Range(leaves) \subseteq S
       /\ \A u \in Range(cells) : \A k \in 0..n : Range(Level(<<u>>, k)) \subseteq Range(Level(cells, k))
  <2>1. n \in Nat /\ n \in 1..MaxLevels /\ IsLeafType(type.of)
    BY <1>7, <1>8, <1>9, ListLevels
  <2>2. Range(cells) \subseteq Nested(S, n)
    BY <1>7, <1>8, <1>9, ListLevels
  <2>3. Range(Level(cells, n)) \subseteq S
    BY <1>7, <1>8, <1>9, ListLevels
  <2>4. \A u \in Range(cells) : \A k \in 0..n : Range(Level(<<u>>, k)) \subseteq Range(Level(cells, k))
    BY <1>7, <1>8, <1>9, ListLevels
  <2> QED
    BY <1>5, <2>1, <2>2, <2>3, <2>4
<1>11. PICK E : E = Range(Level(<<v>>, n))
  OBVIOUS
<1>12. v \in Nested(S, n) /\ E \subseteq Range(leaves) /\ E \subseteq S
  <2>1. v \in Range(cells) /\ n \in 0..n
    BY <1>4, <1>10
  <2> QED
    BY <1>5, <1>10, <1>11, <2>1
<1>13. Taken(spec, v) = v
  BY DEF Taken
<1>14. \A e \in E : encodable_leaf(leaf, e)
  BY <1>2, <1>3, <1>11, <1>13 DEF encodable, encodable_element
<1>15. PICK T : T = Leaves(of)
  OBVIOUS
<1>16. IsLeafType(of)
  BY <1>6, <1>7, LeafTypes
<1>17. NullApart(T, n)
  <2>1. T \subseteq Everything
    BY <1>15, <1>16, LeavesAreThings
  <2> QED
    BY <1>10, <2>1, EverythingApart
<1>18. \A e \in E : /\ leaf_array(leaf, encode_leaf(leaf, e)) = e
                    /\ e \in T /\ encode_leaf(leaf, e) \in T
  <2> TAKE e \in E
  <2>1. e \in Range(leaves) /\ e \in Leaves(type.of) /\ encodable_leaf(leaf, e)
    BY <1>9, <1>12, <1>14
  <2> QED
    BY <1>6, <1>7, <1>10, <1>15, <2>1, LeafKept
<1>19. PICK image : image = [e \in E |-> encode_leaf(leaf, e)]
  OBVIOUS
<1>20. PICK w : w = on_leaves(image, n, v)
  OBVIOUS
<1>21. Stored(spec, v) = w
  BY <1>2, <1>3, <1>11, <1>13, <1>19, <1>20 DEF Stored, encode, Created, encode_element
<1>22. \A e \in E : image[e] \in T
  BY <1>18, <1>19
<1>23a. Mapped(S, T, n, v, E, image, w)
  BY <1>10, <1>11, <1>12, <1>17, <1>20, <1>22 DEF Mapped
<1>23. w \in Nested(T, n)
  BY <1>23a, LeavesImage
<1>24. PICK F : F = Range(Level(<<w>>, n))
  OBVIOUS
<1>25. PICK back : back = [e \in F |-> leaf_array(leaf, e)]
  OBVIOUS
<1>26. Shown(spec, w) = on_leaves(back, n, w)
  BY <1>2, <1>3, <1>24, <1>25 DEF Shown, values_array
<1>27. (\A f \in F : \E e \in E : f = image[e]) /\ (\A e \in E : image[e] \in F)
  BY <1>23a, <1>24, LeavesImage
<1>27a. \A f \in F : back[f] \in T
  BY <1>18, <1>19, <1>25, <1>27
<1>27b. \A e \in E : back[image[e]] = e
  BY <1>18, <1>19, <1>25, <1>27
<1>28. on_leaves(back, n, w) = v
  <2>1. Undoes(back, E, image)
    BY <1>27b DEF Undoes
  <2>2. Comes(w, n, E, image, v)
    BY <1>23a, LeavesImage
  <2> QED
    BY <2>1, <2>2 DEF Comes
<1>29. v \in Nested(T, n)
  <2>2. v = on_leaves(back, n, w)
    BY <1>28
  <2>3. Mapped(T, T, n, w, F, back, v)
    BY <1>10, <1>17, <1>23, <1>24, <1>27a, <2>2 DEF Mapped
  <2> QED
    BY <2>3, LeavesImage
<1> QED
  BY <1>2, <1>3, <1>6, <1>15, <1>21, <1>26, <1>28, <1>29

\* What is stored, as the export has it before labels are looked up.
Unmasked(spec, x) == IF is_missing(x, fill_of(spec)) THEN Null ELSE x

\* Every value that is appended comes back from the file as it was.
LEMMA RowKept ==
  ASSUME NEW t, IsTable(t), NEW i \in DOMAIN t.fields, NEW spec,
         Settled(spec, t, i), Fresh(spec, t, i), NoCode(spec),
         NEW v \in Range(column(t, i)), encodable(spec, Taken(spec, v)), Holds(spec, v)
  PROVE  Shown(spec, Stored(spec, v)) = v
BY ListKept, ScalarKept

\* The values of a spec are not a null.
LEMMA NeverNull ==
  ASSUME NEW x
  PROVE  /\ \A d \in DOMAIN Domain : x \in Numbers(d) => x # Null
         /\ x \in Texts => x # Null
         /\ \A w \in Nat : x \in Bytes(w) => x # Null
<1>1. ASSUME NEW d \in DOMAIN Domain, x \in Numbers(d) PROVE x # Null
  <2>1. x \in Int \cup {NaN}
    BY <1>1, Datatypes DEF Numbers
  <2> QED
    BY <2>1, ApartAssumption
<1>2. x \in Texts => x # Null
  BY ApartAssumption
<1>3. ASSUME NEW w \in Nat, x \in Bytes(w) PROVE x # Null
  <2>1. x \in Seq(0..255)
    BY <1>3, SeqDef, Zenon DEF Bytes
  <2> QED
    BY <2>1, ApartAssumption
<1> QED
  BY <1>1, <1>2, <1>3

\* What the export holds of a stored value without levels.
LEMMA ScalarOut ==
  ASSUME NEW t, IsTable(t), NEW i \in DOMAIN t.fields, NEW spec,
         Settled(spec, t, i), NoCode(spec), spec.kind # "list",
         NEW v \in Range(column(t, i)), encodable(spec, Taken(spec, v)),
         NEW c, c = Unmasked(spec, Stored(spec, v))
  PROVE  /\ spec.kind \in {"number", "string", "opaque"} => c # fill_of(spec)
         /\ spec.kind = "number" => c \in {Null} \cup Numbers(spec.dtype)
         /\ spec.kind = "string" => c = Null \/ (c \in Texts /\ c = unpadded(c))
         /\ spec.kind = "opaque" => c \in {Null} \cup Bytes(spec.width)
         /\ spec.kind = "boolean" => c \in {0, 1} /\ c # Null
         /\ spec.kind = "categorical" => c \in {Null} \cup 0..(Len(spec.labels) - 1)
<1>1. PICK type : type = t.fields[i].type
  OBVIOUS
<1>2. PICK fill : fill = fill_of(spec)
  OBVIOUS
<1>3. PICK y : y = Taken(spec, v)
  OBVIOUS
<1>4. PICK x : x = Stored(spec, v)
  OBVIOUS
<1>5. /\ IsSpec(spec) /\ Fits(spec, type) /\ importable(type)
      /\ spec.kind \in {"number", "string", "opaque"} => fill # NoFill /\ (spec.fill = fill \/ v # Null)
  BY <1>1, <1>2 DEF Settled, nulls
<1>6. c = IF fill # NoFill /\ x = fill THEN Null ELSE x
  BY <1>2, <1>4 DEF Unmasked, is_missing
<1>7. IsType(type) /\ (spec.kind \in LeafKinds => v \in Leaves(type))
  <2>1. IsType(type) /\ column(t, i) \in Seq(Values(type))
    BY <1>1, <1>5, TableColumn
  <2>2. spec.kind \in LeafKinds => Values(type) = Leaves(type)
    <3>1. spec.kind \in LeafKinds => type.kind # "list"
      BY <1>5 DEF Fits, LeafKinds
    <3> QED
      BY <3>1 DEF Values
  <2>3. v \in Values(type)
    BY <2>1, RangeOfSeq
  <2> QED
    BY <2>1, <2>2, <2>3
<1>8. x = IF y = Null THEN fill
          ELSE IF spec.kind = "categorical" THEN code_of(spec, y)
          ELSE IF spec.kind = "string" THEN unpadded(y) ELSE y
  BY <1>2, <1>3, <1>4 DEF Stored, encode, Created
<1>9. CASE spec.kind = "number"
  <2>1. spec.dtype \in DOMAIN Domain /\ fill \in Numbers(spec.dtype)
    BY <1>2, <1>5, <1>9 DEF Settled, IsSpec
  <2>2. y \in Numbers(spec.dtype)
    <3>1. PICK z : z = IF v = Null THEN spec.fill ELSE v
      OBVIOUS
    <3>2. y = astype(z, spec.dtype)
      BY <1>3, <1>9, <3>1 DEF Taken
    <3>3. z \in Int \/ (is_float(spec.dtype) /\ z \in Int \cup {NaN})
      <4>1. CASE v = Null
        BY <1>5, <1>9, <2>1, <3>1, <4>1, Datatypes DEF Numbers
      <4>2. CASE v # Null
        BY <1>9, <3>1, <4>2, NumberCells
      <4> QED
        BY <4>1, <4>2
    <3> QED
      BY <2>1, <3>2, <3>3, Casts
  <2>3. y # Null /\ fill # Null
    BY <2>1, <2>2, NeverNull
  <2> QED
    BY <1>2, <1>5, <1>6, <1>8, <1>9, <2>2, <2>3
<1>10. CASE spec.kind = "string"
  <2>1. fill \in Texts /\ fill # Null
    BY <1>2, <1>10, NeverNull DEF Settled
  <2>2. y = v /\ (v = Null \/ v \in Texts)
    BY <1>3, <1>5, <1>7, <1>10, Apart DEF Taken, Fits, IsType, LeafKinds
  <2>3. v # Null => unpadded(v) \in Texts /\ unpadded(unpadded(v)) = unpadded(v)
    BY <2>2, Unpadded
  <2> QED
    BY <1>2, <1>5, <1>6, <1>8, <1>10, <2>1, <2>2, <2>3
<1>11. CASE spec.kind = "opaque"
  <2>1. fill \in Bytes(spec.width) /\ spec.width \in Nat /\ spec.width = type.width
    BY <1>1, <1>2, <1>5, <1>11 DEF Settled, IsSpec
  <2>2. fill # Null
    BY <2>1, NeverNull
  <2>3. v = Null \/ v \in Bytes(spec.width)
    <3>1. IsLeafType(type) /\ type.kind = "opaque"
      BY <1>5, <1>7, <1>11 DEF Fits, IsType, LeafKinds
    <3>2. v \in {Null} \cup Bytes(type.width)
      BY <1>7, <1>11, <3>1, Apart DEF LeafKinds
    <3> QED
      BY <2>1, <3>2
  <2>4. y = IF v = Null THEN fill ELSE v
    BY <1>3, <1>5, <1>11 DEF Taken
  <2> QED
    BY <1>2, <1>5, <1>6, <1>8, <1>11, <2>1, <2>2, <2>3, <2>4
<1>12. CASE spec.kind = "boolean"
  <2>1. fill = NoFill /\ v # Null /\ y = v
    BY <1>2, <1>3, <1>12 DEF Settled, nulls, Taken
  <2>2. v \in {0, 1}
    <3>1. IsLeafType(type) /\ type.kind = "boolean"
      BY <1>5, <1>7, <1>12 DEF Fits, IsType, LeafKinds
    <3> QED
      BY <1>7, <1>12, <2>1, <3>1, Apart DEF LeafKinds
  <2> QED
    BY <1>6, <1>8, <1>12, <2>1, <2>2
<1>13. CASE spec.kind = "categorical"
  <2>1. y = v /\ (y = Null \/ y \in Range(load_category_labels(spec))) /\ spec.labels \in Seq(Texts)
    BY <1>3, <1>5, <1>13 DEF Taken, encodable, IsSpec
  <2>2. fill # NoFill
    <3>1. fill = default_categorical_fill(spec.dtype) /\ spec.dtype \in DOMAIN Domain /\ ~is_float(spec.dtype)
      BY <1>2, <1>5, <1>13 DEF Settled, IsSpec
    <3>2. highest(spec.dtype) \in Int
      BY <3>1, Datatypes
    <3>3. fill \in Int
      BY <3>1, <3>2 DEF default_categorical_fill
    <3> QED
      BY <3>3, ApartAssumption
  <2>3. CASE y = Null
    BY <1>6, <1>8, <1>13, <2>2, <2>3
  <2>4. CASE y # Null
    <3>1. x = code_of(spec, y)
      BY <1>8, <1>13, <2>4
    <3>2. x \in 0..(Len(spec.labels) - 1)
      BY <2>1, <2>4, <3>1, CodeOf
    <3> QED
      BY <1>6, <1>13, <3>2
  <2> QED
    BY <2>3, <2>4
<1> QED
  BY <1>5, <1>9, <1>10, <1>11, <1>12, <1>13 DEF IsSpec, LeafKinds

-----------------------------------------------------------------------------
(* Exports.                                                                *)

\* The rows of a column after n batches, and the chunk that is exported of rows.
Rows(t, i, spec, n) == [r \in DOMAIN Prefix(t, i, n) |-> Stored(spec, Prefix(t, i, n)[r])]

Chunk(spec, rows) ==
  IF spec.kind = "list" THEN list_array(Created(spec, rows)) ELSE column_array(Created(spec, rows))

Out(spec, x) == IF spec.kind = "list" THEN values_array(spec, x) ELSE Unmasked(spec, x)

AllShown(cells, spec, rows) == cells = [r \in DOMAIN rows |-> Shown(spec, rows[r])]

\* A column as one chunk: its labels, its codes or values, and what they say.
LEMMA ChunkOut ==
  ASSUME NEW spec, NEW rows, NEW chunk, chunk = Chunk(spec, rows)
  PROVE  /\ chunk = [labels |-> chunk.labels, cells |-> chunk.cells]
         /\ chunk.labels = IF spec.kind = "categorical" THEN load_category_labels(spec) ELSE <<>>
         /\ chunk.cells = [r \in DOMAIN rows |-> Out(spec, rows[r])]
         /\ AllShown(Cells(chunk), spec, rows)
<1>1. PICK col : col = Created(spec, rows)
  OBVIOUS
<1>2. col.spec = spec /\ col.fill = fill_of(spec) /\ col.rows = rows
  BY <1>1 DEF Created
<1>3. CASE spec.kind = "list"
  <2>1. chunk = [labels |-> <<>>, cells |-> [r \in DOMAIN rows |-> values_array(spec, rows[r])]]
    BY <1>1, <1>2, <1>3 DEF Chunk, list_array
  <2>2. chunk.labels = <<>> /\ chunk.cells = [r \in DOMAIN rows |-> values_array(spec, rows[r])]
    BY <2>1
  <2>3. Cells(chunk) = chunk.cells
    BY <2>2 DEF Cells
  <2> QED
    BY <1>3, <2>1, <2>2, <2>3 DEF Out, Shown, AllShown
<1>4. CASE spec.kind # "list"
  <2>1. chunk = [labels |-> IF spec.kind = "categorical" THEN load_category_labels(spec) ELSE <<>>,
                 cells |-> [r \in DOMAIN rows |-> IF is_missing(rows[r], fill_of(spec)) THEN Null ELSE rows[r]]]
    BY <1>1, <1>2, <1>4 DEF Chunk, column_array
  <2>2. /\ chunk.labels = IF spec.kind = "categorical" THEN load_category_labels(spec) ELSE <<>>
        /\ chunk.cells = [r \in DOMAIN rows |-> Unmasked(spec, rows[r])]
    BY <2>1 DEF Unmasked
  <2>3. \A r \in DOMAIN rows : chunk.cells[r] = Unmasked(spec, rows[r])
    BY <2>2
  <2>4. Cells(chunk) = [r \in DOMAIN rows |->
                          IF chunk.labels = <<>> \/ Unmasked(spec, rows[r]) = Null THEN Unmasked(spec, rows[r])
                          ELSE chunk.labels[Unmasked(spec, rows[r]) + 1]]
    BY <2>2, <2>3 DEF Cells
  <2>5. \A r \in DOMAIN rows :
          (IF chunk.labels = <<>> \/ Unmasked(spec, rows[r]) = Null THEN Unmasked(spec, rows[r])
           ELSE chunk.labels[Unmasked(spec, rows[r]) + 1]) = Shown(spec, rows[r])
    BY <1>4, <2>2 DEF Shown, Unmasked
  <2>6. Cells(chunk) = [r \in DOMAIN rows |-> Shown(spec, rows[r])]
    BY <2>4, <2>5
  <2>7. chunk.cells = [r \in DOMAIN rows |-> Out(spec, rows[r])]
    BY <1>4, <2>2 DEF Out
  <2> QED
    BY <2>1, <2>2, <2>6, <2>7 DEF AllShown
<1> QED
  BY <1>3, <1>4

\* A column of the file after n batches.
Holding(t, i, spec, n) ==
  /\ Settled(spec, t, i) /\ NoCode(spec) /\ n \in 0..Len(t.batches)
  /\ spec.kind = "categorical" => IsInjective(spec.labels)
  /\ \A v \in Range(Prefix(t, i, n)) : encodable(spec, Taken(spec, v))

\* What a row of the export is.
LEMMA RowOut ==
  ASSUME NEW t, IsTable(t), NEW i \in DOMAIN t.fields, NEW spec, NEW n, Holding(t, i, spec, n),
         NEW P, P = Prefix(t, i, n), NEW r \in DOMAIN P,
         NEW c, c = Out(spec, Rows(t, i, spec, n)[r])
  PROVE  /\ spec.kind = "list" =>
              c = P[r] /\ c \in Nested(Leaves(element_type(spec.leaf)), Len(spec.nullable))
         /\ spec.kind \in {"number", "string", "opaque"} => c # fill_of(spec)
         /\ spec.kind = "number" => c \in {Null} \cup Numbers(spec.dtype)
         /\ spec.kind = "string" => c = Null \/ (c \in Texts /\ c = unpadded(c))
         /\ spec.kind = "opaque" => c \in {Null} \cup Bytes(spec.width)
         /\ spec.kind = "boolean" => c \in {0, 1} /\ c # Null
         /\ spec.kind = "categorical" => c \in {Null} \cup 0..(Len(spec.labels) - 1)
<1>1. Settled(spec, t, i) /\ NoCode(spec) /\ n \in 0..Len(t.batches)
  BY DEF Holding
<1>2. PICK v : v = P[r]
  OBVIOUS
<1>3. v \in Range(P) /\ encodable(spec, Taken(spec, v))
  <2>1. v \in Range(P)
    BY <1>2 DEF Range
  <2> QED
    BY <2>1 DEF Holding
<1>4. v \in Range(column(t, i))
  <2>1. IsType(t.fields[i].type)
    BY <1>1 DEF Settled, Fits
  <2> QED
    BY <1>1, <1>3, <2>1, PrefixesInColumn
<1>5. c = Out(spec, Stored(spec, v))
  BY <1>2 DEF Rows
<1>6. CASE spec.kind = "list"
  <2>1. Shown(spec, Stored(spec, v)) = v
        /\ v \in Nested(Leaves(element_type(spec.leaf)), Len(spec.nullable))
    BY <1>1, <1>3, <1>4, <1>6, ListKept
  <2>2. c = v
    BY <1>5, <1>6, <2>1 DEF Out, Shown
  <2> QED
    BY <1>2, <1>6, <2>1, <2>2
<1>7. CASE spec.kind # "list"
  <2>1. c = Unmasked(spec, Stored(spec, v))
    BY <1>5, <1>7 DEF Out
  <2> QED
    BY <1>1, <1>3, <1>4, <1>7, <2>1, ScalarOut
<1> QED
  BY <1>6, <1>7

\* The type under which a column is exported.
LEMMA ExportType ==
  ASSUME NEW t, NEW i, NEW spec, Settled(spec, t, i), NEW type, type = arrow_type(spec)
  PROVE  /\ IsType(type) /\ importable(type) /\ Exportable(type, spec.notes)
         /\ spec.kind = "list" =>
              /\ type.kind = "list" /\ type.levels = Len(spec.nullable)
              /\ type.of = element_type(spec.leaf) /\ Exportable(type.of, <<>>)
         /\ spec.kind = "categorical" =>
              /\ type.kind = "dictionary" /\ type.index = spec.dtype
              /\ type.ordered = ("ordered" \in DOMAIN spec.notes /\ spec.notes["ordered"])
         /\ spec.kind \in LeafKinds => type.kind = spec.kind
         /\ spec.kind = "number" => type.dtype = spec.dtype /\ Leaves(type) = {Null} \cup Numbers(spec.dtype)
         /\ spec.kind = "string" => Leaves(type) = {Null} \cup Texts
         /\ spec.kind = "opaque" => type.width = spec.width /\ Leaves(type) = {Null} \cup Bytes(spec.width)
         /\ spec.kind = "boolean" => Leaves(type) = {Null, 0, 1}
<1>1. IsSpec(spec) /\ Fits(spec, t.fields[i].type)
  BY DEF Settled
<1>2. CASE spec.kind = "list"
  <2>1. PICK of : of = element_type(spec.leaf)
    OBVIOUS
  <2>2. type = [kind |-> "list", large |-> TRUE, levels |-> Len(spec.nullable), of |-> of]
    BY <1>2, <2>1, Zenon DEF arrow_type
  <2>3. IsLeafSpec(spec.leaf) /\ Len(spec.nullable) \in 1..MaxLevels
    BY <1>1, <1>2 DEF IsSpec, Fits, IsType, IsLeafType, LeafKinds
  <2>4. IsLeafType(of)
    BY <2>1, <2>3, LeafTypes
  <2>5. Exportable(of, <<>>)
    <3>1. CASE spec.leaf.kind = "strings"
      <4>1. of = [kind |-> "string", large |-> TRUE]
        BY <2>1, <3>1, Zenon DEF element_type
      <4> QED
        BY <4>1 DEF Exportable
    <3>2. CASE spec.leaf.kind = "number"
      <4>1. of = [kind |-> "number", dtype |-> spec.leaf.dtype]
        BY <2>1, <3>2, Zenon DEF element_type
      <4> QED
        BY <4>1 DEF Exportable
    <3>3. CASE spec.leaf.kind = "opaque"
      <4>1. of = [kind |-> "opaque", width |-> spec.leaf.width]
        BY <2>1, <3>3, Zenon DEF element_type
      <4> QED
        BY <4>1 DEF Exportable
    <3>4. CASE spec.leaf.kind = "boolean"
      <4>1. of = [kind |-> "boolean"]
        BY <2>1, <3>4, Zenon DEF element_type
      <4> QED
        BY <4>1 DEF Exportable
    <3> QED
      BY <2>3, <3>1, <3>2, <3>3, <3>4 DEF IsLeafSpec
  <2>6. type.kind = "list" /\ type.levels = Len(spec.nullable) /\ type.of = of
    BY <2>2
  <2>7. Exportable(type, spec.notes)
    BY <2>2, <2>6 DEF Exportable
  <2>8. IsType(type) /\ importable(type)
    BY <2>3, <2>4, <2>6 DEF IsType, importable, IsLeafType
  <2> QED
    BY <1>2, <2>1, <2>5, <2>6, <2>7, <2>8 DEF LeafKinds
<1>3. CASE spec.kind = "categorical"
  <2>1. PICK o : o = ("ordered" \in DOMAIN spec.notes /\ spec.notes["ordered"])
    OBVIOUS
  <2>2. type = [kind |-> "dictionary", index |-> spec.dtype, ordered |-> o]
    BY <1>3, <2>1, Zenon DEF arrow_type
  <2>3. spec.dtype \in DOMAIN Domain /\ ~is_float(spec.dtype)
    BY <1>1, <1>3 DEF IsSpec
  <2>4. type.kind = "dictionary" /\ type.index = spec.dtype /\ type.ordered = o
    BY <2>2
  <2>5. Exportable(type, spec.notes)
    BY <2>1, <2>2, <2>4 DEF Exportable
  <2>6. IsType(type) /\ importable(type)
    BY <2>3, <2>4 DEF IsType, importable
  <2> QED
    BY <1>3, <2>1, <2>4, <2>5, <2>6 DEF LeafKinds
<1>4. CASE spec.kind = "string"
  <2>1. type = [kind |-> "string", large |-> TRUE]
    BY <1>4, Zenon DEF arrow_type, element_type
  <2>2. IsLeafType(type) /\ type.kind = "string" /\ Exportable(type, spec.notes)
    BY <2>1 DEF IsLeafType, LeafKinds, Exportable
  <2>3. Leaves(type) = {Null} \cup Texts
    BY <2>2, Apart
  <2> QED
    BY <1>4, <2>2, <2>3 DEF IsType, importable, LeafKinds
<1>5. CASE spec.kind = "number"
  <2>1. type = [kind |-> "number", dtype |-> spec.dtype]
    BY <1>5, Zenon DEF arrow_type, element_type
  <2>2. spec.dtype \in DOMAIN Domain
    BY <1>1, <1>5 DEF IsSpec
  <2>3. IsLeafType(type) /\ type.kind = "number" /\ type.dtype = spec.dtype /\ Exportable(type, spec.notes)
    BY <2>1, <2>2 DEF IsLeafType, LeafKinds, Exportable
  <2>4. Leaves(type) = {Null} \cup Numbers(type.dtype)
    BY <2>3, Apart
  <2> QED
    BY <1>5, <2>3, <2>4 DEF IsType, importable, LeafKinds
<1>6. CASE spec.kind = "opaque"
  <2>1. type = [kind |-> "opaque", width |-> spec.width]
    BY <1>6, Zenon DEF arrow_type, element_type
  <2>2. spec.width \in Nat \ {0}
    BY <1>1, <1>6 DEF IsSpec
  <2>3. IsLeafType(type) /\ type.kind = "opaque" /\ type.width = spec.width /\ Exportable(type, spec.notes)
    BY <2>1, <2>2 DEF IsLeafType, LeafKinds, Exportable
  <2>4. Leaves(type) = {Null} \cup Bytes(type.width)
    BY <2>3, Apart
  <2> QED
    BY <1>6, <2>3, <2>4 DEF IsType, importable, LeafKinds
<1>7. CASE spec.kind = "boolean"
  <2>1. type = [kind |-> "boolean"]
    BY <1>7, Zenon DEF arrow_type, element_type
  <2>2. IsLeafType(type) /\ type.kind = "boolean" /\ Exportable(type, spec.notes)
    BY <2>1 DEF IsLeafType, LeafKinds, Exportable
  <2>3. Leaves(type) = {Null, 0, 1}
    BY <2>2, Apart
  <2> QED
    BY <1>7, <2>2, <2>3 DEF IsType, importable, LeafKinds
<1> QED
  BY <1>1, <1>2, <1>3, <1>4, <1>5, <1>6, <1>7 DEF IsSpec, LeafKinds

\* The chunk under which a column is exported, whatever part of it is written.
LEMMA ExportChunk ==
  ASSUME NEW t, IsTable(t), NEW i \in DOMAIN t.fields, NEW spec, NEW n, Holding(t, i, spec, n),
         NEW chunk, chunk = Chunk(spec, Rows(t, i, spec, n))
  PROVE  /\ IsChunk(arrow_type(spec), chunk)
         /\ chunk = [labels |-> chunk.labels, cells |-> chunk.cells]
         /\ \A l \in Range(chunk.labels) : l = unpadded(l)
         /\ spec.kind = "categorical" => chunk.labels = load_category_labels(spec)
         /\ spec.kind # "categorical" => chunk.labels = <<>>
         /\ spec.kind = "string" => \A v \in Range(chunk.cells) \ {Null} : v = unpadded(v)
         /\ spec.kind \in {"number", "string", "opaque"} => fill_of(spec) \notin Range(chunk.cells)
         /\ spec.kind = "boolean" => ~nulls(chunk.cells)
         /\ spec.kind = "list" => chunk.cells = Prefix(t, i, n)
<1>1. PICK P : P = Prefix(t, i, n)
  OBVIOUS
<1>2. PICK type : type = arrow_type(spec)
  OBVIOUS
<1>3. PICK rows : rows = Rows(t, i, spec, n)
  OBVIOUS
<1>4. PICK cells : cells = chunk.cells
  OBVIOUS
<1>5. Settled(spec, t, i) /\ NoCode(spec) /\ n \in 0..Len(t.batches) /\ IsSpec(spec)
  BY DEF Holding, Settled
<1>6. PICK m \in Nat : DOMAIN P = 1..m /\ (P = [r \in 1..m |-> P[r]])
  <2>1. IsType(t.fields[i].type)
    BY <1>5 DEF Settled, Fits
  <2>2. P \in Seq(Values(t.fields[i].type))
    BY <1>1, <1>5, <2>1, PrefixFacts
  <2>3. Len(P) \in Nat /\ DOMAIN P = 1..Len(P) /\ P = [r \in 1..Len(P) |-> P[r]]
    BY <2>2, LenProperties, SeqDef
  <2> QED
    BY <2>3
<1>7. /\ chunk = [labels |-> chunk.labels, cells |-> cells]
      /\ chunk.labels = IF spec.kind = "categorical" THEN load_category_labels(spec) ELSE <<>>
      /\ cells = [r \in 1..m |-> Out(spec, rows[r])]
  <2>1. DOMAIN rows = 1..m
    BY <1>1, <1>3, <1>6 DEF Rows
  <2>2. /\ chunk = [labels |-> chunk.labels, cells |-> chunk.cells]
        /\ chunk.labels = IF spec.kind = "categorical" THEN load_category_labels(spec) ELSE <<>>
        /\ chunk.cells = [r \in DOMAIN rows |-> Out(spec, rows[r])]
    BY <1>3, ChunkOut
  <2> QED
    BY <1>4, <2>1, <2>2
<1>8. \A r \in 1..m :
         /\ spec.kind = "list" =>
              cells[r] = P[r] /\ cells[r] \in Nested(Leaves(element_type(spec.leaf)), Len(spec.nullable))
         /\ spec.kind \in {"number", "string", "opaque"} => cells[r] # fill_of(spec)
         /\ spec.kind = "number" => cells[r] \in {Null} \cup Numbers(spec.dtype)
         /\ spec.kind = "string" => cells[r] = Null \/ (cells[r] \in Texts /\ cells[r] = unpadded(cells[r]))
         /\ spec.kind = "opaque" => cells[r] \in {Null} \cup Bytes(spec.width)
         /\ spec.kind = "boolean" => cells[r] \in {0, 1} /\ cells[r] # Null
         /\ spec.kind = "categorical" => cells[r] \in {Null} \cup 0..(Len(spec.labels) - 1)
  <2> TAKE r \in 1..m
  <2>1. r \in DOMAIN P /\ cells[r] = Out(spec, Rows(t, i, spec, n)[r])
    BY <1>3, <1>6, <1>7
  <2> QED
    BY <1>1, <2>1, RowOut
<1>9. \A V : (\A r \in 1..m : cells[r] \in V) => cells \in Seq(V)
  <2> SUFFICES ASSUME NEW V, \A r \in 1..m : cells[r] \in V
               PROVE  cells \in Seq(V)
    OBVIOUS
  <2>1. cells = [r \in 1..m |-> cells[r]]
    BY <1>7
  <2>2. m \in Nat /\ cells \in [1..m -> V]
    BY <1>6, <2>1
  <2> QED
    BY <2>2, SeqDef, Zenon
<1>10. Range(cells) = {cells[r] : r \in 1..m}
  BY <1>7 DEF Range
<1>11. ASSUME spec.kind # "categorical"
       PROVE  /\ chunk.labels = <<>> /\ type.kind # "dictionary"
              /\ \A l \in Range(chunk.labels) : l = unpadded(l)
              /\ \A V : Values(type) = V /\ cells \in Seq(V) => IsChunk(type, chunk)
  <2>1. type.kind # "dictionary"
    BY <1>2, <1>5, <1>11, ExportType DEF LeafKinds, IsSpec
  <2>2. chunk.labels = <<>>
    BY <1>7, <1>11
  <2>3. \A l \in Range(chunk.labels) : l = unpadded(l)
    BY <2>2 DEF Range
  <2> QED
    BY <1>4, <2>1, <2>2, <2>3 DEF IsChunk
<1>12. CASE spec.kind = "list"
  <2>1. Values(type) = Nested(Leaves(element_type(spec.leaf)), Len(spec.nullable))
    BY <1>2, <1>5, <1>12, ExportType DEF Values
  <2>2. cells \in Seq(Values(type))
    BY <1>8, <1>9, <1>12, <2>1
  <2>3. cells = P
    BY <1>6, <1>7, <1>8, <1>12
  <2> QED
    BY <1>1, <1>2, <1>4, <1>7, <1>11, <1>12, <2>2, <2>3
<1>13. CASE spec.kind = "categorical"
  <2>1. type.kind = "dictionary" /\ chunk.labels = load_category_labels(spec) /\ spec.labels \in Seq(Texts)
    BY <1>2, <1>5, <1>7, <1>13, ExportType DEF IsSpec
  <2>2. cells \in Seq({Null} \cup 0..(Len(spec.labels) - 1))
    BY <1>8, <1>9, <1>13
  <2>3. /\ chunk.labels \in Seq(Texts) /\ Len(chunk.labels) = Len(spec.labels)
        /\ \A l \in Range(chunk.labels) : l = unpadded(l)
    BY <2>1, ReadLabels
  <2> QED
    BY <1>2, <1>4, <1>7, <1>13, <2>1, <2>2, <2>3 DEF IsChunk
<1>14. CASE spec.kind \in LeafKinds
  <2>1. Values(type) = Leaves(type)
    BY <1>2, <1>5, <1>14, ExportType DEF Values, LeafKinds
  <2>2. \A r \in 1..m : cells[r] \in Leaves(type)
    <3>1. CASE spec.kind = "number"
      BY <1>2, <1>5, <1>8, <3>1, ExportType
    <3>2. CASE spec.kind = "string"
      BY <1>2, <1>5, <1>8, <3>2, ExportType
    <3>3. CASE spec.kind = "opaque"
      BY <1>2, <1>5, <1>8, <3>3, ExportType
    <3>4. CASE spec.kind = "boolean"
      BY <1>2, <1>5, <1>8, <3>4, ExportType
    <3> QED
      BY <1>14, <3>1, <3>2, <3>3, <3>4 DEF LeafKinds
  <2>3. cells \in Seq(Values(type))
    BY <1>9, <2>1, <2>2
  <2>4. spec.kind # "categorical" /\ spec.kind # "list"
    BY <1>14 DEF LeafKinds
  <2>5. IsChunk(type, chunk) /\ chunk.labels = <<>> /\ \A l \in Range(chunk.labels) : l = unpadded(l)
    BY <1>11, <2>3, <2>4
  <2>6. spec.kind = "string" => \A v \in Range(cells) \ {Null} : v = unpadded(v)
    BY <1>8, <1>10
  <2>7. spec.kind \in {"number", "string", "opaque"} => fill_of(spec) \notin Range(cells)
    BY <1>8, <1>10
  <2>8. spec.kind = "boolean" => ~nulls(cells)
    BY <1>8, <1>10 DEF nulls
  <2> QED
    BY <1>2, <1>4, <1>7, <2>4, <2>5, <2>6, <2>7, <2>8
<1> QED
  BY <1>5, <1>12, <1>13, <1>14 DEF IsSpec

\* File f has the columns ss with the rows of the first n batches of t.
OpenFile(t, ss, n, f) ==
  /\ IsTable(t)
  /\ \A i \in DOMAIN t.fields : Holding(t, i, ss[i], n) /\ validate_column_spec(ss[i])
  /\ IsInjective([i \in DOMAIN t.fields |-> ss[i].name])
  /\ f = [i \in DOMAIN t.fields |-> Created(ss[i], Rows(t, i, ss[i], n))]

\* A function on 1..n is a sequence.
LEMMA OneToN ==
  ASSUME NEW n \in Nat, NEW s, DOMAIN s = 1..n, s = [i \in DOMAIN s |-> s[i]]
  PROVE  IsSeq(s) /\ Len(s) = n
<1>1. PICK V : V = {s[i] : i \in 1..n}
  OBVIOUS
<1>2. n \in Nat /\ s \in [1..n -> V]
  BY <1>1
<1>3. s \in Seq(V)
  BY <1>2, SeqDef, Zenon
<1>4. Len(s) = n
  BY <1>3, LenProperties
<1> QED
  BY <1>4 DEF IsSeq

IsField(field, spec) ==
  field = [name |-> spec.name, type |-> arrow_type(spec), metadata |-> [h5col |-> spec.notes, other |-> {}]]

\* Export e has one batch of the columns ss.
Shaped(e, t, ss, n) ==
  /\ DOMAIN e.fields = DOMAIN t.fields /\ IsSeq(e.fields) /\ IsSeq(e.batches) /\ Len(e.batches) = 1
  /\ DOMAIN e.batches = {1} /\ IsSeq(e.batches[1]) /\ Len(e.batches[1]) = Len(e.fields)
  /\ \A i \in DOMAIN t.fields :
       /\ IsField(e.fields[i], ss[i])
       /\ e.batches[1][i] = Chunk(ss[i], Rows(t, i, ss[i], n))

\* An export has a field and a chunk for every column.
LEMMA ExportShape ==
  ASSUME NEW t, NEW ss, NEW n, NEW f, OpenFile(t, ss, n, f), NEW e, e = table_arrow(f)
  PROVE  Shaped(e, t, ss, n)
<1>1. PICK m \in Nat : DOMAIN t.fields = 1..m
  <2>1. IsSeq(t.fields)
    BY DEF OpenFile, IsTable
  <2>2. DOMAIN t.fields = 1..Len(t.fields) /\ Len(t.fields) \in Nat
    BY <2>1 DEF IsSeq
  <2> QED
    BY <2>2
<1>2. /\ DOMAIN f = 1..m
      /\ \A i \in 1..m : f[i] = Created(ss[i], Rows(t, i, ss[i], n))
  BY <1>1 DEF OpenFile
<1>3. PICK batch : batch = [i \in DOMAIN f |-> IF f[i].spec.kind = "list" THEN list_array(f[i]) ELSE column_array(f[i])]
  OBVIOUS
<1>4. PICK fields : fields = [i \in DOMAIN f |->
                  [name |-> f[i].spec.name, type |-> arrow_type(f[i].spec), metadata |-> column_metadata(f[i])]]
  OBVIOUS
<1>5. e = [fields |-> fields, batches |-> <<batch>>]
  BY <1>3, <1>4, Zenon DEF table_arrow
<1>6. e.fields = fields /\ e.batches = <<batch>>
  BY <1>5
<1>7. e.batches[1] = batch /\ Len(e.batches) = 1 /\ DOMAIN e.batches = {1} /\ IsSeq(e.batches)
  <2>1. PICK one : one = <<batch>>
    OBVIOUS
  <2>2. Len(one) = 1 /\ DOMAIN one = 1..1 /\ one[1] = batch
    BY <2>1
  <2>3. one = [i \in DOMAIN one |-> one[i]]
    BY <2>1
  <2>4. IsSeq(one)
    BY <2>2, <2>3, OneToN
  <2> QED
    BY <1>6, <2>1, <2>2, <2>4
<1>8. DOMAIN fields = 1..m /\ IsSeq(fields) /\ Len(fields) = m
  <2>1. DOMAIN fields = 1..m /\ fields = [i \in DOMAIN fields |-> fields[i]]
    BY <1>2, <1>4
  <2> QED
    BY <2>1, OneToN
<1>9. IsSeq(batch) /\ Len(batch) = m
  <2>1. DOMAIN batch = 1..m /\ batch = [i \in DOMAIN batch |-> batch[i]]
    BY <1>2, <1>3
  <2> QED
    BY <2>1, OneToN
<1>10. ASSUME NEW i \in 1..m
       PROVE  /\ fields[i] = [name |-> ss[i].name, type |-> arrow_type(ss[i]),
                              metadata |-> [h5col |-> ss[i].notes, other |-> {}]]
              /\ batch[i] = Chunk(ss[i], Rows(t, i, ss[i], n))
  <2>1. PICK col : col = f[i]
    OBVIOUS
  <2>2. col.spec = ss[i] /\ col = Created(ss[i], Rows(t, i, ss[i], n))
    BY <1>2, <2>1 DEF Created
  <2>3. fields[i] = [name |-> col.spec.name, type |-> arrow_type(col.spec), metadata |-> column_metadata(col)]
    BY <1>2, <1>4, <2>1
  <2>4. column_metadata(col) = [h5col |-> ss[i].notes, other |-> {}]
    BY <2>2 DEF column_metadata
  <2>5. batch[i] = IF ss[i].kind = "list" THEN list_array(col) ELSE column_array(col)
    BY <1>2, <1>3, <2>1, <2>2
  <2> QED
    BY <2>2, <2>3, <2>4, <2>5 DEF Chunk
<1> QED
  BY <1>1, <1>6, <1>7, <1>8, <1>9, <1>10 DEF Shaped, IsField

\* An export is a table, and has the form of an export.
LEMMA ExportTyped ==
  ASSUME NEW t, NEW ss, NEW n, NEW f, OpenFile(t, ss, n, f), NEW e, e = table_arrow(f)
  PROVE  /\ IsTable(e) /\ IsExport(e)
         /\ \A i \in DOMAIN t.fields : ss[i].kind = "categorical" =>
              /\ unify_dictionaries(e, i) = load_category_labels(ss[i])
              /\ e.batches[1][i].labels = load_category_labels(ss[i])
<1>0. Shaped(e, t, ss, n)
  BY ExportShape
<1>1. /\ DOMAIN e.fields = DOMAIN t.fields /\ IsSeq(e.fields) /\ IsSeq(e.batches) /\ Len(e.batches) = 1
      /\ DOMAIN e.batches = {1} /\ IsSeq(e.batches[1]) /\ Len(e.batches[1]) = Len(e.fields)
      /\ \A i \in DOMAIN t.fields : e.batches[1][i] = Chunk(ss[i], Rows(t, i, ss[i], n))
  BY <1>0 DEF Shaped
<1>field. ASSUME NEW i \in DOMAIN t.fields, NEW field, field = e.fields[i]
      PROVE  /\ field = [name |-> field.name, type |-> field.type, metadata |-> field.metadata]
             /\ field.type = arrow_type(ss[i])
             /\ field.metadata = [h5col |-> field.metadata.h5col, other |-> {}]
             /\ field.metadata.h5col = ss[i].notes
  <2>0. IsField(field, ss[i])
    BY <1>0, <1>field DEF Shaped
  <2>1. PICK m : m = [h5col |-> ss[i].notes, other |-> {}]
    OBVIOUS
  <2>2. field = [name |-> ss[i].name, type |-> arrow_type(ss[i]), metadata |-> m]
    BY <2>0, <2>1 DEF IsField
  <2>3. field.name = ss[i].name /\ field.type = arrow_type(ss[i]) /\ field.metadata = m
    BY <2>2
  <2>4. m.h5col = ss[i].notes
    BY <2>1
  <2> QED
    BY <2>1, <2>2, <2>3, <2>4
<1>2. ASSUME NEW i \in DOMAIN t.fields, NEW spec, spec = ss[i], NEW type, type = arrow_type(spec),
             NEW chunk, chunk = e.batches[1][i]
      PROVE  /\ IsType(type) /\ importable(type) /\ IsChunk(type, chunk) /\ Exportable(type, spec.notes)
             /\ type.kind = "list" => Exportable(type.of, <<>>)
             /\ chunk = [labels |-> chunk.labels, cells |-> chunk.cells]
             /\ \A l \in Range(chunk.labels) : l = unpadded(l)
             /\ type.kind = "string" => \A v \in Range(chunk.cells) \ {Null} : v = unpadded(v)
             /\ spec.kind = "categorical" <=> type.kind = "dictionary"
             /\ spec.kind = "categorical" =>
                  /\ unify_dictionaries(e, i) = load_category_labels(spec)
                  /\ chunk.labels = load_category_labels(spec)
                  /\ Countable(Len(unify_dictionaries(e, i)))
  <2>1. IsTable(t) /\ Holding(t, i, spec, n) /\ Settled(spec, t, i) /\ IsSpec(spec)
    BY <1>2 DEF OpenFile, Holding, Settled
  <2>2. /\ IsType(type) /\ importable(type) /\ Exportable(type, spec.notes)
        /\ spec.kind = "list" => type.kind = "list" /\ Exportable(type.of, <<>>)
        /\ spec.kind = "categorical" => type.kind = "dictionary"
        /\ spec.kind \in LeafKinds => type.kind = spec.kind
    BY <1>2, <2>1, ExportType
  <2>3. /\ type.kind = "list" => spec.kind = "list"
        /\ type.kind = "string" => spec.kind = "string"
        /\ type.kind = "dictionary" => spec.kind = "categorical"
    BY <2>1, <2>2 DEF IsSpec, LeafKinds
  <2>4. chunk = Chunk(spec, Rows(t, i, spec, n))
    BY <1>1, <1>2
  <2>5. /\ IsChunk(type, chunk)
        /\ chunk = [labels |-> chunk.labels, cells |-> chunk.cells]
        /\ \A l \in Range(chunk.labels) : l = unpadded(l)
        /\ spec.kind = "categorical" => chunk.labels = load_category_labels(spec)
        /\ spec.kind = "string" => \A v \in Range(chunk.cells) \ {Null} : v = unpadded(v)
    BY <1>2, <2>1, <2>4, ExportChunk
  <2>6. ASSUME spec.kind = "categorical"
        PROVE  /\ unify_dictionaries(e, i) = load_category_labels(spec)
               /\ Countable(Len(unify_dictionaries(e, i)))
    <3>1. PICK read : read = load_category_labels(spec)
      OBVIOUS
    <3>2. /\ read \in Seq(Texts) /\ Len(read) = Len(spec.labels) /\ chunk.labels = read
          /\ Countable(Len(spec.labels))
      BY <2>1, <2>5, <2>6, <3>1, ReadLabels DEF IsSpec
    <3>3. \A b \in DOMAIN e.batches : e.batches[b][i].labels \in Seq(Texts)
      BY <1>1, <1>2, <3>2
    <3>4. unify_dictionaries(e, i) = e.batches[1][i].labels
      BY <1>1, <3>3, UnifiedLabels
    <3> QED
      BY <1>2, <3>1, <3>2, <3>4
  <2> QED
    BY <2>2, <2>3, <2>5, <2>6
<1>3. ASSUME NEW i \in DOMAIN t.fields
      PROVE  /\ IsType(e.fields[i].type) /\ IsChunk(e.fields[i].type, e.batches[1][i])
             /\ e.fields[i].type.kind = "dictionary" => Countable(Len(unify_dictionaries(e, i)))
  <2>1. e.fields[i].type = arrow_type(ss[i])
    BY <1>field
  <2> QED
    BY <1>2, <2>1
<1>4. IsTable(e)
  BY <1>1, <1>3 DEF IsTable
<1>5. ASSUME NEW i \in DOMAIN e.fields, NEW field, field = e.fields[i], NEW chunk, chunk = e.batches[1][i]
      PROVE  /\ IsType(field.type)
             /\ field = [name |-> field.name, type |-> field.type, metadata |-> field.metadata]
             /\ field.metadata = [h5col |-> field.metadata.h5col, other |-> {}]
             /\ Exportable(field.type, field.metadata.h5col)
             /\ field.type.kind = "list" => Exportable(field.type.of, <<>>)
             /\ chunk = [labels |-> chunk.labels, cells |-> chunk.cells]
             /\ \A l \in Range(chunk.labels) : l = unpadded(l)
             /\ field.type.kind = "string" => \A v \in Range(chunk.cells) \ {Null} : v = unpadded(v)
  <2>1. i \in DOMAIN t.fields
    BY <1>1
  <2>2. /\ field = [name |-> field.name, type |-> field.type, metadata |-> field.metadata]
        /\ field.type = arrow_type(ss[i])
        /\ field.metadata = [h5col |-> field.metadata.h5col, other |-> {}]
        /\ field.metadata.h5col = ss[i].notes
    BY <1>5, <1>field, <2>1
  <2>3. PICK type : type = arrow_type(ss[i])
    OBVIOUS
  <2>4. /\ IsType(type) /\ Exportable(type, ss[i].notes)
        /\ type.kind = "list" => Exportable(type.of, <<>>)
        /\ chunk = [labels |-> chunk.labels, cells |-> chunk.cells]
        /\ \A l \in Range(chunk.labels) : l = unpadded(l)
        /\ type.kind = "string" => \A v \in Range(chunk.cells) \ {Null} : v = unpadded(v)
    BY <1>2, <1>5, <2>1, <2>3
  <2> QED
    BY <2>2, <2>3, <2>4
<1>6. IsExport(e)
  BY <1>1, <1>5 DEF IsExport
<1> QED
  BY <1>2, <1>4, <1>6

-----------------------------------------------------------------------------
(* Exports that can be imported.                                           *)

\* A spec that nobody supplied: inferred from a schema that can be imported, and
\* checked, or from an array.
Natural(t, i, spec) ==
  \/ IsArrays(t) /\ spec = infer_column_spec(t, i)
  \/ importable_schema(t) /\ spec = Inferred(t, i) /\ Ready(spec, t, i)

\* The annotations of a spec are some that a field of type may have.
NotesFit(notes, type) ==
  /\ DOMAIN notes \subseteq allowed(type)
  /\ \A k \in DOMAIN notes \cap Bounds : parse_bound(notes[k], type)

\* Such a spec has the recommended fill and the annotations of its field.
Plain(spec) ==
  /\ spec.kind \in {"number", "string", "opaque"} =>
       /\ fill_of(spec) = recommended_fill(spec)
       /\ validate_fill_outside_range(recommended_fill(spec), spec.notes)
  /\ spec.kind = "list" /\ spec.leaf.kind \in {"number", "opaque"} => spec.leaf.fill = recommended_fill(spec.leaf)
  /\ NotesFit(spec.notes, arrow_type(spec))

\* What annotations a type allows is a matter of its kind, or of its datatype.
LEMMA AlikeNotes ==
  ASSUME NEW notes, NEW type, NEW other, NotesFit(notes, type), other.kind = type.kind,
         type.kind = "number" => other.dtype = type.dtype
  PROVE  NotesFit(notes, other)
<1>1. allowed(other) = allowed(type)
  BY DEF allowed
<1>2. \A text : parse_bound(text, type) => parse_bound(text, other)
  BY DEF parse_bound
<1> QED
  BY <1>1, <1>2 DEF NotesFit

\* No annotations, or those of a categorical column, set no bounds.
LEMMA Boundless ==
  ASSUME NEW notes, NEW type, NotesFit(notes, type), type.kind # "number"
  PROVE  Bounds \cap DOMAIN notes = {} /\ \A fill : validate_fill_outside_range(fill, notes)
<1>1. \A k \in DOMAIN notes \cap Bounds : parse_bound(notes[k], type)
  BY DEF NotesFit
<1>2. DOMAIN notes \cap Bounds = {}
  BY <1>1 DEF parse_bound
<1>3. \A fill : validate_fill_outside_range(fill, notes)
  BY <1>2 DEF validate_fill_outside_range, Bounds
<1> QED
  BY <1>2, <1>3

\* Without annotations nothing bounds a fill.
LEMMA NoNotes ==
  ASSUME NEW type
  PROVE  NotesFit(<<>>, type) /\ \A fill : validate_fill_outside_range(fill, <<>>)
<1>1. DOMAIN <<>> = {}
  OBVIOUS
<1>2. NotesFit(<<>>, type)
  BY <1>1 DEF NotesFit
<1>3. \A fill : validate_fill_outside_range(fill, <<>>)
  BY <1>1 DEF validate_fill_outside_range
<1> QED
  BY <1>2, <1>3

\* A flag is added only where ordered is an annotation anyway.
LEMMA OrderedFits ==
  ASSUME NEW notes, NEW type, NotesFit(notes, type), type.kind = "dictionary", NEW ordered
  PROVE  NotesFit(with_ordered(notes, ordered), type)
<1>1. PICK more : more = with_ordered(notes, ordered)
  OBVIOUS
<1>2. DOMAIN notes \subseteq Common \cup {"ordered"} /\ allowed(type) = Common \cup {"ordered"}
  BY DEF NotesFit, allowed
<1>3. DOMAIN more \subseteq Common \cup {"ordered"}
  BY <1>1, <1>2 DEF with_ordered
<1>4. Bounds \cap (Common \cup {"ordered"}) = {}
  BY DEF Bounds, Common
<1> QED
  BY <1>1, <1>2, <1>3, <1>4 DEF NotesFit

\* What is recommended depends on the kind of a spec, its datatype and its width.
LEMMA SameRecommended ==
  ASSUME NEW a, NEW b, a.kind = b.kind,
         a.kind \in {"string", "opaque", "number"},
         a.kind = "number" => a.dtype = b.dtype, a.kind = "opaque" => a.width = b.width
  PROVE  recommended_fill(a) = recommended_fill(b)
<1>1. CASE a.kind = "string"
  BY <1>1 DEF recommended_fill
<1>2. CASE a.kind = "opaque"
  BY <1>2 DEF recommended_fill
<1>3. CASE a.kind = "number"
  BY <1>3 DEF recommended_fill
<1> QED
  BY <1>1, <1>2, <1>3

\* A spec that nobody supplied has the recommended fill, which its notes allow.
LEMMA NaturalSpec ==
  ASSUME NEW t, IsTable(t), NEW i \in DOMAIN t.fields, NEW spec, Natural(t, i, spec)
  PROVE  Plain(spec)
<1>1. PICK type : type = t.fields[i].type
  OBVIOUS
<1>2. PICK cells : cells = column(t, i)
  OBVIOUS
<1>3. CASE IsArrays(t) /\ spec = infer_column_spec(t, i)
  <2>1. spec.kind \in LeafKinds /\ spec.notes = <<>> /\ spec.fill = NoFill
    BY <1>3, ArraySpec
  <2>2. spec.kind \in {"number", "string", "opaque"} => fill_of(spec) = recommended_fill(spec)
    BY <2>1 DEF fill_of
  <2>3. spec.kind # "list"
    BY <2>1 DEF LeafKinds
  <2> QED
    BY <2>1, <2>2, <2>3, NoNotes DEF Plain
<1>4. CASE importable_schema(t) /\ spec = Inferred(t, i) /\ Ready(spec, t, i)
  <2>1. PICK bare : bare = spec_from_field(t, i)
    OBVIOUS
  <2>2. PICK out : out = checked(bare, t, i)
    OBVIOUS
  <2>3. spec = with_fill(bare, out.fill)
    BY <1>4, <2>1, <2>2 DEF Inferred
  <2>4. importable(type) /\ NotesFit(t.fields[i].metadata.h5col, type)
    BY <1>1, <1>4 DEF importable_schema, annotations, NotesFit
  <2>5. /\ IsSpec(bare) /\ Fits(bare, type)
        /\ type.kind # "dictionary" => bare.notes = t.fields[i].metadata.h5col
        /\ bare.kind # "list" => bare.fill = NoFill
        /\ type.kind = "list" => bare.kind = "list" /\ bare.leaf = leaf_spec(type.of, Level(cells, type.levels))
        /\ type.kind = "dictionary" =>
             bare.kind = "categorical" /\ bare.notes = with_ordered(t.fields[i].metadata.h5col, type.ordered)
        /\ type.kind = "string" => bare.kind = "string"
        /\ type.kind = "opaque" => bare.kind = "opaque"
        /\ type.kind = "number" => bare.kind = "number" /\ bare.dtype = type.dtype
        /\ type.kind = "boolean" => bare.kind = "boolean"
    <3>1. importable(t.fields[i].type)
      BY <1>1, <2>4
    <3>2. InferredOf(bare, t.fields[i], column(t, i), unify_dictionaries(t, i))
      BY <2>1, <3>1, InferredSpec
    <3> QED
      BY <1>1, <1>2, <3>2 DEF InferredOf
  <2>6. IsType(type)
    BY <2>5 DEF Fits
  <2>7. /\ MayHave(bare, out.fill)
        /\ bare.kind \in {"number", "string", "opaque"} => out.fill = Choice(bare)
        /\ bare.kind = "list" /\ bare.leaf.kind \in {"number", "opaque"} => out.fill = Choice(bare.leaf)
    BY <1>1, <2>2, <2>5, CheckedFill
  <2>8. /\ IsSpec(spec) /\ spec.kind = bare.kind /\ spec.notes = bare.notes
        /\ bare.kind # "list" => spec.fill = out.fill
        /\ bare.kind \in {"number", "categorical"} => spec.dtype = bare.dtype
        /\ bare.kind \in {"string", "opaque"} => spec.width = bare.width
        /\ bare.kind = "list" => spec.leaf = with_leaf_fill(bare.leaf, out.fill)
    BY <2>3, <2>5, <2>7, WithFill
  <2>9. Settled(spec, t, i)
    BY <1>4, SpecsSettled
  <2>10. NotesFit(spec.notes, arrow_type(spec))
    <3>1. PICK other : other = arrow_type(spec)
      OBVIOUS
    <3>2. NotesFit(spec.notes, type)
      BY <2>4, <2>5, <2>8, OrderedFits
    <3>3. /\ spec.kind = "list" => other.kind = "list"
          /\ spec.kind = "categorical" => other.kind = "dictionary"
          /\ spec.kind \in LeafKinds => other.kind = spec.kind
          /\ spec.kind = "number" => other.dtype = spec.dtype
      BY <2>9, <3>1, ExportType
    <3>4. other.kind = type.kind /\ (type.kind = "number" => other.dtype = type.dtype)
      <4>1. type.kind \in LeafKinds \cup {"dictionary", "list"}
        BY <2>4 DEF importable
      <4> QED
        BY <2>5, <2>8, <3>3, <4>1 DEF LeafKinds
    <3> QED
      BY <3>1, <3>2, <3>4, AlikeNotes
  <2>11. ASSUME spec.kind \in {"number", "string", "opaque"}
         PROVE  /\ fill_of(spec) = recommended_fill(spec)
                /\ validate_fill_outside_range(recommended_fill(spec), spec.notes)
    <3>1. spec.fill = Choice(bare) /\ bare.fill = NoFill /\ Choice(bare) # NoFill
      BY <2>5, <2>7, <2>8, <2>11, ChoiceFits
    <3>2. Choice(bare) = recommended_fill(bare)
      BY <3>1 DEF Choice
    <3>3. recommended_fill(bare) = recommended_fill(spec)
      BY <2>8, <2>11, SameRecommended
    <3>4. fill_of(spec) = spec.fill /\ Choice(spec) = spec.fill
      BY <2>11, <3>1 DEF fill_of, Choice
    <3>5. chosen_fill(spec, spec.notes, cells, type).reason = "none"
      BY <1>1, <1>2, <1>4, <2>11 DEF Ready, checked, fill_for
    <3>6. validate_fill_outside_range(Choice(spec), spec.notes)
      BY <3>5, ChosenClean
    <3> QED
      BY <3>1, <3>2, <3>3, <3>4, <3>6
  <2>12. ASSUME spec.kind = "list", spec.leaf.kind \in {"number", "opaque"}
         PROVE  spec.leaf.fill = recommended_fill(spec.leaf)
    <3>1. PICK leaf : leaf = bare.leaf
      OBVIOUS
    <3>2. PICK of : of = type.of
      OBVIOUS
    <3>3. PICK leaves : leaves = Level(cells, type.levels)
      OBVIOUS
    <3>4. type.kind = "list" /\ leaf = leaf_spec(of, leaves) /\ IsLeafType(of)
      <4>1. type.kind = "list"
        BY <2>5, <2>8, <2>12 DEF Fits
      <4>2. IsLeafType(of)
        BY <2>6, <3>2, <4>1 DEF IsType, IsLeafType, LeafKinds
      <4> QED
        BY <2>5, <3>1, <3>2, <3>3, <4>1, <4>2
    <3>5. IsLeafSpec(leaf) /\ (of.kind # "string" => leaf.fill = NoFill)
          /\ (of.kind = "string" => leaf.kind = "strings")
      BY <3>4, InferredLeaf
    <3>6. /\ leaf.kind = "number" => out.fill \in {NoFill} \cup Numbers(leaf.dtype)
          /\ leaf.kind = "opaque" => out.fill \in {NoFill} \cup Bytes(leaf.width)
      BY <2>7, <2>8, <2>12, <3>1 DEF MayHave
    <3>7. spec.leaf = with_leaf_fill(leaf, out.fill)
      BY <2>8, <2>12, <3>1
    <3>8. /\ spec.leaf.kind = leaf.kind
          /\ leaf.kind # "strings" => spec.leaf.fill = out.fill
          /\ leaf.kind = "number" => spec.leaf.dtype = leaf.dtype
          /\ leaf.kind = "opaque" => spec.leaf.width = leaf.width
      BY <3>5, <3>6, <3>7, LeafWithFill
    <3>9. out.fill = Choice(leaf) /\ leaf.fill = NoFill
      BY <2>7, <2>8, <2>12, <3>1, <3>5, <3>8
    <3>10. Choice(leaf) = recommended_fill(leaf)
      BY <3>9 DEF Choice
    <3>11. recommended_fill(spec.leaf) = recommended_fill(leaf)
      BY <2>12, <3>8, SameRecommended
    <3> QED
      BY <2>12, <3>8, <3>9, <3>10, <3>11
  <2> QED
    BY <2>10, <2>11, <2>12 DEF Plain
<1> QED
  BY <1>3, <1>4 DEF Natural

\* A column of one batch, and of an export.
LEMMA OneBatch ==
  ASSUME NEW t, IsTable(t), NEW i \in DOMAIN t.fields, IsType(t.fields[i].type), Len(t.batches) = 1,
         NEW chunk, chunk = t.batches[1][i]
  PROVE  /\ column(t, i) = Cells(chunk)
         /\ t.fields[i].type.kind # "dictionary" => Cells(chunk) = chunk.cells
<1>1. Prefix(t, i, 0) = <<>> /\ Prefix(t, i, 1) = Prefix(t, i, 0) \o Cells(chunk)
  <2>1. 0 \in 0..Len(t.batches) /\ 0 < Len(t.batches) /\ 0 + 1 = 1
    OBVIOUS
  <2>2. Prefix(t, i, 0) = <<>> /\ Prefix(t, i, 0 + 1) = Prefix(t, i, 0) \o Cells(t.batches[0 + 1][i])
    BY <2>1, PrefixFacts
  <2> QED
    BY <2>1, <2>2
<1>2. column(t, i) = Prefix(t, i, 1) /\ IsChunk(t.fields[i].type, chunk)
  <2>1. 1 \in 0..Len(t.batches) /\ 1 \in DOMAIN t.batches
    BY DEF IsTable, IsSeq
  <2> QED
    BY <2>1, PrefixFacts
<1>3. Cells(chunk) \in Seq(Values(t.fields[i].type))
  BY <1>2, ChunkCells
<1>4. <<>> \o Cells(chunk) = Cells(chunk)
  BY <1>3, ConcatEmptySeq
<1>5. ASSUME t.fields[i].type.kind # "dictionary" PROVE Cells(chunk) = chunk.cells
  <2>1. chunk.labels = <<>> /\ chunk.cells \in Seq(Values(t.fields[i].type))
    BY <1>2, <1>5 DEF IsChunk
  <2>2. Cells(chunk) = [r \in DOMAIN chunk.cells |-> chunk.cells[r]]
    BY <2>1 DEF Cells
  <2>3. chunk.cells = [r \in DOMAIN chunk.cells |-> chunk.cells[r]]
    <3>1. PICK V : V = Values(t.fields[i].type)
      OBVIOUS
    <3>2. PICK s : s = chunk.cells
      OBVIOUS
    <3>3. s \in Seq(V)
      BY <2>1, <3>1, <3>2
    <3>4. DOMAIN s = 1..Len(s) /\ s = [r \in 1..Len(s) |-> s[r]]
      BY <3>3, LenProperties, SeqDef
    <3> QED
      BY <3>2, <3>4
  <2> QED
    BY <2>2, <2>3
<1> QED
  BY <1>1, <1>2, <1>4, <1>5

\* Raw bytes are a sequence of so many.
LEMMA BytesInSeq ==
  ASSUME NEW w \in Nat, NEW b \in Bytes(w)
  PROVE  b \in Seq(0..255) /\ Len(b) = w
<1>1. b \in Seq(0..255)
  BY SeqDef, Zenon DEF Bytes
<1>2. DOMAIN b = 1..w
  BY DEF Bytes
<1> QED
  BY <1>1, <1>2, LenProperties

\* The fill of a number or of raw bytes can be said in their own type.
LEMMA RecommendedSaid ==
  ASSUME NEW a, NEW type, a.kind = type.kind, a.kind \in {"number", "string", "opaque"},
         a.kind = "number" => a.dtype = type.dtype /\ a.dtype \in DOMAIN Domain,
         a.kind = "opaque" => a.width = type.width /\ a.width \in Nat
  PROVE  fill_scalar_fits(recommended_fill(a), type)
<1>1. CASE a.kind = "number"
  <2>1. ~is_float(a.dtype) => recommended_fill(a) \in Domain[a.dtype]
    BY <1>1, Recommends
  <2> QED
    BY <1>1, <2>1 DEF fill_scalar_fits
<1>2. CASE a.kind = "string"
  BY <1>2 DEF fill_scalar_fits
<1>3. CASE a.kind = "opaque"
  <2>1. recommended_fill(a) \in Bytes(a.width)
    BY <1>3, Recommends
  <2>2. Len(recommended_fill(a)) = a.width
    BY <1>3, <2>1, BytesInSeq
  <2> QED
    BY <1>3, <2>2 DEF fill_scalar_fits
<1> QED
  BY <1>1, <1>2, <1>3

\* A fill that is recommended, that is no value, and outside the bounds is chosen.
LEMMA RecommendedChosen ==
  ASSUME NEW a, a.fill = NoFill, NEW type, a.kind = type.kind, a.kind \in {"number", "string", "opaque"},
         a.kind = "number" => a.dtype = type.dtype /\ a.dtype \in DOMAIN Domain,
         a.kind = "opaque" => a.width = type.width /\ a.width \in Nat,
         NEW cells, recommended_fill(a) \notin Range(cells),
         NEW notes, validate_fill_outside_range(recommended_fill(a), notes)
  PROVE  chosen_fill(a, notes, cells, type).reason = "none"
<1>1. Choice(a) = recommended_fill(a)
  BY DEF Choice
<1>2. fill_scalar_fits(Choice(a), type)
  BY <1>1, RecommendedSaid
<1> QED
  BY <1>1, <1>2, ChosenClean

\* What an export is to its importer.
LEMMA ExportField ==
  ASSUME NEW t, NEW ss, NEW n, NEW f, OpenFile(t, ss, n, f), NEW e, e = table_arrow(f),
         NEW i \in DOMAIN t.fields, NEW spec, spec = ss[i], NEW field, field = e.fields[i],
         NEW type, type = field.type, NEW new, new = spec_from_field(e, i)
  PROVE  /\ i \in DOMAIN e.fields /\ field.name = spec.name /\ type = arrow_type(spec)
         /\ field.metadata.h5col = spec.notes /\ field.metadata.other = {}
         /\ IsTable(e) /\ IsType(type) /\ importable(type) /\ Len(e.batches) = 1
         /\ Holding(t, i, spec, n) /\ Settled(spec, t, i) /\ IsSpec(spec)
         /\ e.batches[1][i] = Chunk(spec, Rows(t, i, spec, n))
         /\ InferredOf(new, field, column(e, i), unify_dictionaries(e, i))
         /\ spec.kind = "categorical" =>
              /\ unify_dictionaries(e, i) = load_category_labels(spec)
              /\ e.batches[1][i].labels = load_category_labels(spec)
<1>1. /\ Holding(t, i, spec, n) /\ Settled(spec, t, i) /\ IsSpec(spec) /\ IsTable(t)
  BY DEF OpenFile, Holding, Settled
<1>2. Shaped(e, t, ss, n)
  BY ExportShape
<1>3. IsField(field, spec) /\ i \in DOMAIN e.fields /\ Len(e.batches) = 1
      /\ e.batches[1][i] = Chunk(spec, Rows(t, i, spec, n))
  BY <1>2 DEF Shaped
<1>4. field.name = spec.name /\ type = arrow_type(spec)
      /\ field.metadata.h5col = spec.notes /\ field.metadata.other = {}
  <2>1. PICK m : m = [h5col |-> spec.notes, other |-> {}]
    OBVIOUS
  <2>2. field = [name |-> spec.name, type |-> arrow_type(spec), metadata |-> m]
    BY <1>3, <2>1 DEF IsField
  <2>3. field.name = spec.name /\ field.type = arrow_type(spec) /\ field.metadata = m
    BY <2>2
  <2>4. m.h5col = spec.notes /\ m.other = {}
    BY <2>1
  <2> QED
    BY <2>3, <2>4
<1>5. IsType(type) /\ importable(type)
  BY <1>1, <1>4, ExportType
<1>6. IsTable(e)
  BY ExportTyped
<1>7. spec.kind = "categorical" =>
        /\ unify_dictionaries(e, i) = load_category_labels(spec)
        /\ e.batches[1][i].labels = load_category_labels(spec)
  BY ExportTyped
<1>8. InferredOf(new, field, column(e, i), unify_dictionaries(e, i))
  <2>1. importable(e.fields[i].type)
    BY <1>5
  <2> QED
    BY <1>3, <1>6, <2>1, InferredSpec
<1> QED
  BY <1>1, <1>3, <1>4, <1>5, <1>6, <1>7, <1>8

\* Column i of file f, of table t, and the same column of the export of f.
Exporting(t, ss, n, f, e, i, spec, new) ==
  /\ OpenFile(t, ss, n, f) /\ e = table_arrow(f) /\ i \in DOMAIN t.fields
  /\ spec = ss[i] /\ new = spec_from_field(e, i)

\* Fewer lists have fewer leaves.
LEMMA FewerLeaves ==
  ASSUME NEW S, NEW n \in Nat, NEW few \in Seq(Nested(S, n)), NEW cells \in Seq(Nested(S, n)),
         Range(few) \subseteq Range(cells)
  PROVE  Range(Level(few, n)) \subseteq Range(Level(cells, n))
<1>1. n \in 0..n
  OBVIOUS
<1>2. ASSUME NEW x \in Range(Level(few, n))
      PROVE  \E v \in Range(few) : x \in Range(Level(<<v>>, n))
  <2>1. IsWithin(x, few, n)
    BY <1>1, <1>2, LevelOfValues
  <2> QED
    BY <2>1 DEF IsWithin
<1>3. \A v \in Range(few) : Range(Level(<<v>>, n)) \subseteq Range(Level(cells, n))
  BY <1>1, ValueInColumn
<1> QED
  BY <1>2, <1>3

\* The leaves of an exported list are leaves of what was imported.
LEMMA ExportedLeaves ==
  ASSUME NEW t, IsTable(t), NEW i \in DOMAIN t.fields, NEW spec, NEW n, Holding(t, i, spec, n),
         spec.kind = "list", NEW levels, levels = Len(spec.nullable)
  PROVE  Range(Level(Prefix(t, i, n), levels)) \subseteq Range(Level(column(t, i), levels))
<1>1. PICK type : type = t.fields[i].type
  OBVIOUS
<1>2. PICK S : S = Leaves(type.of)
  OBVIOUS
<1>3. PICK P : P = Prefix(t, i, n)
  OBVIOUS
<1>4. PICK cells : cells = column(t, i)
  OBVIOUS
<1>5. IsType(type) /\ type.kind = "list" /\ levels = type.levels /\ n \in 0..Len(t.batches)
  BY <1>1 DEF Holding, Settled, Fits
<1>6. importable(type)
  BY <1>1 DEF Holding, Settled
<1>7. P \in Seq(Values(type)) /\ Range(P) \subseteq Range(cells)
  BY <1>1, <1>3, <1>4, <1>5, PrefixFacts, PrefixesInColumn
<1>8. cells \in Seq(Values(type))
  BY <1>1, <1>4, <1>6, TableColumn
<1>9. levels \in Nat /\ P \in Seq(Nested(S, levels)) /\ cells \in Seq(Nested(S, levels))
  BY <1>2, <1>5, <1>7, <1>8, ListLevels
<1>10. Range(Level(P, levels)) \subseteq Range(Level(cells, levels))
  BY <1>7, <1>9, FewerLeaves
<1> QED
  BY <1>3, <1>4, <1>10

\* What is exported has no missing value where none can be said, and the fill
\* that is recommended for it is no value of it.
LEMMA CheckedAgain ==
  ASSUME NEW t, NEW ss, NEW n, NEW f, NEW e, NEW i, NEW spec, NEW new,
         Exporting(t, ss, n, f, e, i, spec, new), Plain(spec)
  PROVE  checked(new, e, i).reason = "none"
<1>1. PICK field : field = e.fields[i]
  OBVIOUS
<1>2. PICK type : type = field.type
  OBVIOUS
<1>3. PICK cells : cells = column(e, i)
  OBVIOUS
<1>4. PICK chunk : chunk = Chunk(spec, Rows(t, i, spec, n))
  OBVIOUS
<1>5. /\ i \in DOMAIN e.fields /\ type = arrow_type(spec)
      /\ field.metadata.h5col = spec.notes
      /\ IsTable(e) /\ IsType(type) /\ importable(type) /\ Len(e.batches) = 1
      /\ Holding(t, i, spec, n) /\ Settled(spec, t, i) /\ IsSpec(spec)
      /\ e.batches[1][i] = chunk
      /\ InferredOf(new, field, cells, unify_dictionaries(e, i))
  BY <1>1, <1>2, <1>3, <1>4, ExportField DEF Exporting
<1>6. IsTable(t) /\ i \in DOMAIN t.fields
  BY DEF Exporting, OpenFile
<1>7. /\ spec.kind \in {"number", "string", "opaque"} => fill_of(spec) \notin Range(chunk.cells)
      /\ spec.kind = "boolean" => ~nulls(chunk.cells)
      /\ spec.kind = "list" => chunk.cells = Prefix(t, i, n)
  BY <1>4, <1>5, <1>6, ExportChunk
<1>8. type.kind # "dictionary" => cells = chunk.cells
  <2>1. IsTable(e) /\ i \in DOMAIN e.fields /\ IsType(e.fields[i].type) /\ Len(e.batches) = 1
        /\ chunk = e.batches[1][i]
    BY <1>1, <1>2, <1>5
  <2>2. column(e, i) = Cells(chunk)
    BY <2>1, OneBatch
  <2>3. e.fields[i].type.kind # "dictionary" => Cells(chunk) = chunk.cells
    BY <2>1, OneBatch
  <2> QED
    BY <1>1, <1>2, <1>3, <2>2, <2>3
<1>9. /\ spec.kind = "list" => type.kind = "list" /\ type.levels = Len(spec.nullable)
                               /\ type.of = element_type(spec.leaf)
      /\ spec.kind = "categorical" => type.kind = "dictionary"
      /\ spec.kind \in LeafKinds => type.kind = spec.kind
      /\ spec.kind = "number" => type.dtype = spec.dtype
      /\ spec.kind = "opaque" => type.width = spec.width
  BY <1>5, ExportType
<1>10. CASE spec.kind \in {"number", "string", "opaque"}
  <2>1. type.kind = spec.kind /\ cells = chunk.cells
    BY <1>8, <1>9, <1>10 DEF LeafKinds
  <2>2. /\ new.kind = spec.kind /\ new.fill = NoFill /\ new.notes = spec.notes
        /\ new.kind = "number" => new.dtype = type.dtype
        /\ new.kind = "opaque" => new.width = type.width
    BY <1>2, <1>5, <1>10, <2>1 DEF InferredOf
  <2>3. /\ new.kind = "number" => new.dtype = spec.dtype /\ new.dtype \in DOMAIN Domain
        /\ new.kind = "opaque" => new.width = spec.width /\ new.width \in Nat
    BY <1>5, <1>9, <2>2 DEF IsSpec
  <2>4. recommended_fill(new) = recommended_fill(spec)
    BY <1>10, <2>2, <2>3, SameRecommended
  <2>5. recommended_fill(spec) \notin Range(cells) /\ validate_fill_outside_range(recommended_fill(spec), spec.notes)
    BY <1>7, <1>10, <2>1 DEF Plain
  <2>6. chosen_fill(new, new.notes, cells, type).reason = "none"
    BY <1>10, <2>1, <2>2, <2>3, <2>4, <2>5, RecommendedChosen
  <2> QED
    BY <1>1, <1>2, <1>3, <1>10, <2>2, <2>6 DEF checked, fill_for
<1>11. CASE spec.kind = "boolean"
  <2>1. new.kind = "boolean" /\ ~nulls(cells)
    BY <1>2, <1>5, <1>7, <1>8, <1>9, <1>11 DEF InferredOf, LeafKinds
  <2> QED
    BY <1>3, <2>1 DEF checked, fill_for, Outcome
<1>12. CASE spec.kind = "categorical"
  <2>1. new.kind = "categorical"
    BY <1>2, <1>5, <1>9, <1>12 DEF InferredOf
  <2> QED
    BY <2>1 DEF checked, fill_for, Outcome
<1>13. CASE spec.kind = "list"
  <2>1. PICK levels : levels = Len(spec.nullable)
    OBVIOUS
  <2>2. PICK leaves : leaves = Level(cells, levels)
    OBVIOUS
  <2>3. PICK of : of = type.of
    OBVIOUS
  <2>4. PICK leaf : leaf = new.leaf
    OBVIOUS
  <2>5. PICK old : old = spec.leaf
    OBVIOUS
  <2>6. type.kind = "list" /\ of = element_type(old) /\ type.levels = levels
        /\ new.kind = "list" /\ Len(new.nullable) = levels /\ leaf = leaf_spec(of, leaves)
    BY <1>2, <1>5, <1>9, <1>13, <2>1, <2>2, <2>3, <2>4, <2>5 DEF InferredOf
  <2>7. cells = Prefix(t, i, n)
    BY <1>7, <1>8, <1>13, <2>6
  <2>8. Range(leaves) \subseteq Range(Level(column(t, i), levels))
    BY <1>5, <1>6, <1>13, <2>1, <2>2, <2>7, ExportedLeaves
  <2>9. PICK all : all = Level(column(t, i), levels)
    OBVIOUS
  <2>10. LeafSettled(old, all, t.fields[i].type.of) /\ IsLeafSpec(old)
    BY <1>5, <1>13, <2>1, <2>5, <2>9 DEF Settled, IsSpec
  <2>11. /\ old.kind \in {"number", "opaque"} => old.fill \notin Range(leaves)
         /\ old.kind = "boolean" => ~nulls(leaves)
    BY <2>8, <2>9, <2>10 DEF LeafSettled, nulls
  <2>12. /\ IsLeafType(of)
         /\ old.kind = "strings" => of.kind = "string"
         /\ old.kind = "number" => of.kind = "number" /\ of.dtype = old.dtype
         /\ old.kind = "opaque" => of.kind = "opaque" /\ of.width = old.width
         /\ old.kind = "boolean" => of.kind = "boolean"
    BY <2>6, <2>10, LeafTypes
  <2>13. /\ IsLeafSpec(leaf)
         /\ of.kind = "string" => leaf.kind = "strings"
         /\ of.kind = "number" => leaf.kind = "number" /\ leaf.dtype = of.dtype
         /\ of.kind = "opaque" => leaf.kind = "opaque" /\ leaf.width = of.width
         /\ of.kind = "boolean" => leaf.kind = "boolean"
         /\ of.kind # "string" => leaf.fill = NoFill
    BY <2>6, <2>12, InferredLeaf
  <2>14. leaf_fill(leaf, leaves, of).reason = "none"
    <3>1. CASE old.kind = "strings"
      BY <2>12, <2>13, <3>1 DEF leaf_fill, Outcome
    <3>2. CASE old.kind = "boolean"
      BY <2>11, <2>12, <2>13, <3>2 DEF leaf_fill, Outcome
    <3>3. CASE old.kind \in {"number", "opaque"}
      <4>1. /\ leaf.kind = old.kind /\ of.kind = old.kind /\ leaf.fill = NoFill
            /\ leaf.kind = "number" => leaf.dtype = of.dtype /\ leaf.dtype = old.dtype
            /\ leaf.kind = "opaque" => leaf.width = of.width /\ leaf.width = old.width
        BY <2>12, <2>13, <3>3
      <4>2. /\ leaf.kind = "number" => leaf.dtype \in DOMAIN Domain
            /\ leaf.kind = "opaque" => leaf.width \in Nat
        BY <2>13 DEF IsLeafSpec
      <4>3. recommended_fill(leaf) = recommended_fill(old)
        BY <3>3, <4>1, SameRecommended
      <4>4. recommended_fill(leaf) \notin Range(leaves)
        BY <1>13, <2>5, <2>11, <3>3, <4>3 DEF Plain
      <4>5. validate_fill_outside_range(recommended_fill(leaf), <<>>)
        BY NoNotes
      <4>6. chosen_fill(leaf, <<>>, leaves, of).reason = "none"
        BY <3>3, <4>1, <4>2, <4>4, <4>5, RecommendedChosen
      <4> QED
        BY <3>3, <4>1, <4>6 DEF leaf_fill
    <3> QED
      BY <2>10, <3>1, <3>2, <3>3 DEF IsLeafSpec
  <2> QED
    BY <1>1, <1>2, <1>3, <2>2, <2>3, <2>4, <2>6, <2>14 DEF checked, apply_list_fills
<1> QED
  BY <1>5, <1>10, <1>11, <1>12, <1>13 DEF IsSpec, LeafKinds

\* The spec that is inferred from an export can be created, but for labels that
\* read back alike.
LEMMA ValidAgain ==
  ASSUME NEW t, NEW ss, NEW n, NEW f, NEW e, NEW i, NEW spec, NEW new,
         Exporting(t, ss, n, f, e, i, spec, new), Plain(spec)
  PROVE  validate_column_spec(Inferred(e, i)) \/ ~IsInjective(e.batches[1][i].labels)
<1> SUFFICES ASSUME IsInjective(e.batches[1][i].labels)
             PROVE  validate_column_spec(Inferred(e, i))
  OBVIOUS
<1>1. PICK field : field = e.fields[i]
  OBVIOUS
<1>2. PICK type : type = field.type
  OBVIOUS
<1>3. PICK labels : labels = unify_dictionaries(e, i)
  OBVIOUS
<1>4. PICK out : out = checked(new, e, i)
  OBVIOUS
<1>5. PICK w : w = with_fill(new, out.fill)
  OBVIOUS
<1>6. w = Inferred(e, i)
  BY <1>4, <1>5 DEF Inferred, Exporting
<1>7. /\ i \in DOMAIN e.fields /\ field.name = spec.name /\ type = arrow_type(spec)
      /\ field.metadata.h5col = spec.notes /\ field.metadata.other = {}
      /\ Settled(spec, t, i) /\ IsSpec(spec)
      /\ InferredOf(new, field, column(e, i), labels)
      /\ spec.kind = "categorical" => labels = e.batches[1][i].labels
  BY <1>1, <1>2, <1>3, ExportField DEF Exporting
<1>8. validate_column_name(spec.name)
  <2>1. validate_column_spec(spec)
    BY DEF Exporting, OpenFile
  <2> QED
    BY <2>1 DEF validate_column_spec
<1>9. /\ spec.kind = "list" => type.kind = "list"
      /\ spec.kind = "categorical" => type.kind = "dictionary"
      /\ spec.kind \in LeafKinds => type.kind = spec.kind
      /\ spec.kind = "number" => type.dtype = spec.dtype
  BY <1>7, ExportType
<1>10. /\ IsSpec(new) /\ Fits(new, type)
       /\ new.name = field.name /\ new.attributes = field.metadata.other
       /\ type.kind # "dictionary" => new.notes = field.metadata.h5col
       /\ new.kind # "list" => new.fill = NoFill
       /\ type.kind = "list" => new.kind = "list"
       /\ type.kind = "dictionary" =>
            /\ new.kind = "categorical" /\ new.labels = labels
            /\ ~unsigned(new.dtype) /\ Len(new.labels) <= highest(new.dtype)
            /\ new.notes = with_ordered(field.metadata.h5col, type.ordered)
       /\ type.kind = "string" => new.kind = "string"
       /\ type.kind = "opaque" => new.kind = "opaque"
       /\ type.kind = "number" => new.kind = "number" /\ new.dtype = type.dtype
       /\ type.kind = "boolean" => new.kind = "boolean"
  BY <1>2, <1>7 DEF InferredOf
<1>11. /\ MayHave(new, out.fill)
       /\ new.kind \in {"number", "string", "opaque"} => out.fill = Choice(new)
       /\ new.kind \in {"boolean", "categorical"} => out.fill = NoFill
  <2>1. Fits(new, e.fields[i].type)
    BY <1>1, <1>2, <1>10
  <2> QED
    BY <1>4, <1>10, <2>1, CheckedFill
<1>12. /\ IsSpec(w) /\ w.kind = new.kind /\ w.name = new.name
       /\ w.notes = new.notes /\ w.attributes = new.attributes
       /\ new.kind # "list" => w.fill = out.fill
       /\ new.kind \in {"number", "categorical"} => w.dtype = new.dtype
       /\ new.kind = "categorical" => w.labels = new.labels
  BY <1>5, <1>10, <1>11, WithFill
<1>13. validate_attribute_names(w.attributes) /\ validate_column_name(w.name)
  BY <1>7, <1>8, <1>10, <1>12 DEF validate_attribute_names
<1>14. NotesFit(spec.notes, type)
  BY <1>7 DEF Plain
<1>15. CASE spec.kind = "categorical"
  <2>1. /\ w.kind = "categorical" /\ w.labels = e.batches[1][i].labels /\ w.fill = NoFill
        /\ ~unsigned(w.dtype) /\ Len(w.labels) <= highest(w.dtype)
        /\ w.notes = with_ordered(spec.notes, type.ordered)
    BY <1>7, <1>9, <1>10, <1>11, <1>12, <1>15
  <2>2. IsInjective(w.labels)
    BY <2>1
  <2>3. w.dtype \in DOMAIN Domain /\ ~is_float(w.dtype) /\ w.labels \in Seq(Texts)
    BY <1>12, <2>1 DEF IsSpec
  <2>4. PICK d \in DOMAIN Domain : d = w.dtype
    BY <2>3
  <2>5. PICK m \in Nat : m = Len(w.labels)
    BY <2>3, LenProperties
  <2>6. /\ lowest(d) \in Int /\ highest(d) \in Int /\ Domain[d] = lowest(d)..highest(d)
        /\ lowest(d) < -1 /\ 0 <= highest(d)
    <3>1. /\ lowest(d) \in Int /\ highest(d) \in Int /\ Domain[d] = lowest(d)..highest(d)
          /\ 0 <= highest(d) /\ (lowest(d) = 0 \/ lowest(d) < -1)
      BY <2>3, <2>4, Datatypes
    <3>2. lowest(d) # 0
      BY <2>1, <2>3, <2>4 DEF unsigned
    <3> QED
      BY <3>1, <3>2
  <2>7. fill_of(w) = -1
    BY <2>1 DEF fill_of, default_categorical_fill
  <2>8. fill_of(w) \in Domain[w.dtype] /\ fill_of(w) \notin 0..(Len(w.labels) - 1)
    BY <2>4, <2>5, <2>6, <2>7
  <2>9. Len(w.labels) - 1 <= highest(w.dtype)
    BY <2>1, <2>4, <2>5, <2>6
  <2>10. validate_fill_outside_range(fill_of(w), w.notes)
    <3>1. type.kind = "dictionary" /\ NotesFit(w.notes, type)
      BY <1>9, <1>14, <1>15, <2>1, OrderedFits
    <3> QED
      BY <3>1, Boundless
  <2> QED
    BY <1>6, <1>13, <2>1, <2>2, <2>8, <2>9, <2>10 DEF validate_column_spec
<1>16. CASE spec.kind = "boolean"
  <2>1. type.kind = "boolean" /\ w.kind = "boolean" /\ w.fill = NoFill /\ w.notes = spec.notes
    BY <1>7, <1>9, <1>10, <1>11, <1>12, <1>16 DEF LeafKinds
  <2>2. Bounds \cap DOMAIN w.notes = {}
    BY <1>14, <2>1, Boundless
  <2> QED
    BY <1>6, <1>13, <2>1, <2>2 DEF validate_column_spec
<1>17. CASE spec.kind = "number"
  <2>1. type.kind = "number" /\ w.kind = "number" /\ w.notes = spec.notes /\ w.dtype = spec.dtype
        /\ new.fill = NoFill /\ w.fill = Choice(new) /\ new.kind = "number" /\ new.dtype = spec.dtype
    BY <1>7, <1>9, <1>10, <1>11, <1>12, <1>17 DEF LeafKinds
  <2>2. Choice(new) = recommended_fill(new) /\ Choice(new) # NoFill
    BY <1>10, <2>1, ChoiceFits DEF Choice
  <2>3. fill_of(w) = recommended_fill(new)
    BY <2>1, <2>2 DEF fill_of
  <2>4. recommended_fill(new) = recommended_fill(spec)
    BY <1>17, <2>1, SameRecommended
  <2>5. validate_fill_outside_range(fill_of(w), w.notes)
    BY <1>17, <2>1, <2>3, <2>4 DEF Plain
  <2> QED
    BY <1>6, <1>13, <2>1, <2>5 DEF validate_column_spec
<1>18. CASE spec.kind \in {"string", "opaque", "list"}
  <2>1. w.kind = spec.kind
    BY <1>9, <1>10, <1>12, <1>18 DEF LeafKinds
  <2> QED
    BY <1>6, <1>13, <1>18, <2>1 DEF validate_column_spec
<1> QED
  BY <1>7, <1>15, <1>16, <1>17, <1>18 DEF IsSpec, LeafKinds

\* What is exported of specs that nobody supplied can be imported, but for labels
\* that read back alike.
LEMMA ExportImportable ==
  ASSUME NEW t, NEW ss, NEW n, NEW f, OpenFile(t, ss, n, f), NEW e, e = table_arrow(f),
         \A i \in DOMAIN t.fields : Natural(t, i, ss[i])
  PROVE  Importable(e)
<1>1. DOMAIN e.fields = DOMAIN t.fields /\ IsTable(t)
  <2>1. Shaped(e, t, ss, n)
    BY ExportShape
  <2> QED
    BY <2>1 DEF Shaped, OpenFile
<1>2. ASSUME NEW i \in DOMAIN t.fields, NEW spec, spec = ss[i], NEW field, field = e.fields[i],
             NEW new, new = spec_from_field(e, i)
      PROVE  /\ checked(new, e, i).reason = "none"
             /\ validate_column_spec(Inferred(e, i)) \/ ~IsInjective(e.batches[1][i].labels)
             /\ field.name = spec.name /\ validate_column_name(field.name) /\ importable(field.type)
             /\ annotations(field) /\ unifies(e, i)
  <2>1. Natural(t, i, spec) /\ Exporting(t, ss, n, f, e, i, spec, new)
    BY <1>2 DEF Exporting
  <2>2. Plain(spec)
    BY <1>1, <2>1, NaturalSpec
  <2>3. checked(new, e, i).reason = "none"
    BY <2>1, <2>2, CheckedAgain
  <2>4. validate_column_spec(Inferred(e, i)) \/ ~IsInjective(e.batches[1][i].labels)
    BY <2>1, <2>2, ValidAgain
  <2>5. /\ field.name = spec.name /\ field.type = arrow_type(spec)
        /\ field.metadata.h5col = spec.notes /\ field.metadata.other = {} /\ importable(field.type)
    BY <1>2, ExportField
  <2>6. validate_column_name(field.name)
    <3>1. validate_column_spec(spec)
      BY <1>2 DEF OpenFile
    <3> QED
      BY <2>5, <3>1 DEF validate_column_spec
  <2>7. annotations(field)
    <3>1. NotesFit(field.metadata.h5col, field.type)
      BY <2>2, <2>5 DEF Plain
    <3>2. validate_attribute_names(field.metadata.other)
      BY <2>5 DEF validate_attribute_names
    <3> QED
      BY <3>1, <3>2 DEF annotations, NotesFit
  <2>8. unifies(e, i)
    <3>1. Len(e.batches) = 1
      BY <1>2, ExportField
    <3> QED
      BY <3>1 DEF unifies
  <2> QED
    BY <2>3, <2>4, <2>5, <2>6, <2>7, <2>8
<1>3. IsInjective(names(e))
  <2>1. names(e) = [i \in DOMAIN t.fields |-> ss[i].name]
    BY <1>1, <1>2 DEF names
  <2> QED
    BY <2>1 DEF OpenFile
<1>4. importable_schema(e)
  BY <1>1, <1>2, <1>3 DEF importable_schema
<1> QED
  BY <1>1, <1>2, <1>4 DEF Importable

-----------------------------------------------------------------------------
(* Export after import.                                                    *)

\* A spec for this field, whatever its fill.
Alike(spec, field, labels) ==
  LET type == field.type
  IN  /\ spec.name = field.name
      /\ type.kind # "dictionary" => spec.notes = field.metadata.h5col
      /\ type.kind = "dictionary" =>
           /\ spec.kind = "categorical" /\ spec.labels = labels
           /\ spec.dtype = code_dtype(type.index, Len(labels))
           /\ spec.notes = with_ordered(field.metadata.h5col, type.ordered)
      /\ type.kind \in LeafKinds => spec.kind = type.kind
      /\ type.kind = "number" => spec.dtype = type.dtype
      /\ type.kind = "opaque" => spec.width = type.width
      /\ type.kind = "list" =>
           /\ spec.kind = "list" /\ Len(spec.nullable) = type.levels /\ IsLeafType(type.of)
           /\ type.of.kind = "string" => spec.leaf.kind = "strings"
           /\ type.of.kind # "string" => spec.leaf.kind = type.of.kind
           /\ type.of.kind = "number" => spec.leaf.dtype = type.of.dtype
           /\ type.of.kind = "opaque" => spec.leaf.width = type.of.width

\* The fill of a spec may be put into the spec it is inferred from.
LEMMA FillsAlike ==
  ASSUME NEW bare, IsSpec(bare), NEW f, NEW spec, spec = with_fill(bare, f), IsSpec(spec)
  PROVE  MayHave(bare, f)
<1>1. CASE bare.kind = "list"
  <2>1. spec = [bare EXCEPT !.leaf = with_leaf_fill(@, f)] /\ {"kind", "leaf"} \subseteq DOMAIN bare
    BY <1>1 DEF with_fill, IsSpec
  <2>2. spec.kind = "list" /\ spec.leaf = with_leaf_fill(bare.leaf, f)
    BY <1>1, <2>1
  <2>3. PICK leaf : leaf = bare.leaf
    OBVIOUS
  <2>4. PICK full : full = spec.leaf
    OBVIOUS
  <2>5. IsLeafSpec(leaf) /\ IsLeafSpec(full) /\ full = with_leaf_fill(leaf, f)
    BY <1>1, <2>2, <2>3, <2>4 DEF IsSpec
  <2>6. CASE leaf.kind = "number"
    <3>1. full = [leaf EXCEPT !.fill = f] /\ {"kind", "fill", "dtype"} \subseteq DOMAIN leaf
      BY <2>5, <2>6 DEF with_leaf_fill, IsLeafSpec
    <3>2. full.kind = leaf.kind /\ full.dtype = leaf.dtype /\ full.fill = f
      BY <3>1
    <3> QED
      BY <1>1, <2>3, <2>5, <2>6, <3>2 DEF IsLeafSpec, MayHave
  <2>7. CASE leaf.kind = "opaque"
    <3>1. full = [leaf EXCEPT !.fill = f] /\ {"kind", "fill", "width"} \subseteq DOMAIN leaf
      BY <2>5, <2>7 DEF with_leaf_fill, IsLeafSpec
    <3>2. full.kind = leaf.kind /\ full.width = leaf.width /\ full.fill = f
      BY <3>1
    <3> QED
      BY <1>1, <2>3, <2>5, <2>7, <3>2 DEF IsLeafSpec, MayHave
  <2> QED
    BY <1>1, <2>3, <2>6, <2>7 DEF MayHave
<1>2. CASE bare.kind # "list"
  <2>1. spec = [bare EXCEPT !.fill = f] /\ {"kind", "fill"} \subseteq DOMAIN bare
    BY <1>2 DEF with_fill, IsSpec
  <2>2. spec.kind = bare.kind /\ spec.fill = f
    BY <2>1
  <2>3. CASE bare.kind = "number"
    <3>1. spec.dtype = bare.dtype
      BY <2>1, <2>3 DEF IsSpec
    <3> QED
      BY <2>2, <2>3, <3>1 DEF IsSpec, MayHave
  <2>4. CASE bare.kind = "opaque"
    <3>1. spec.width = bare.width
      BY <2>1, <2>4 DEF IsSpec
    <3> QED
      BY <2>2, <2>4, <3>1 DEF IsSpec, MayHave
  <2>5. CASE bare.kind = "string"
    BY <2>2, <2>5 DEF IsSpec, MayHave
  <2> QED
    BY <1>2, <2>3, <2>4, <2>5 DEF MayHave
<1> QED
  BY <1>1, <1>2

\* A spec from a field is like the field, and may have its fill.
LEMMA FieldSpec ==
  ASSUME NEW t, IsTable(t), NEW i \in DOMAIN t.fields, importable(t.fields[i].type),
         NEW spec, IsSpec(spec), FromField(spec, t, i)
  PROVE  Alike(spec, t.fields[i], unify_dictionaries(t, i)) /\ MayHave(spec_from_field(t, i), FillIn(spec))
<1>1. PICK field : field = t.fields[i]
  OBVIOUS
<1>2. PICK type : type = field.type
  OBVIOUS
<1>3. PICK bare : bare = spec_from_field(t, i)
  OBVIOUS
<1>4. PICK f : f = FillIn(spec)
  OBVIOUS
<1>5. PICK cells : cells = column(t, i)
  OBVIOUS
<1>6. PICK labels : labels = unify_dictionaries(t, i)
  OBVIOUS
<1>7. InferredOf(bare, field, cells, labels) /\ spec = with_fill(bare, f)
  BY <1>1, <1>3, <1>4, <1>5, <1>6, InferredSpec DEF FromField
<1>8. /\ IsSpec(bare) /\ Fits(bare, type) /\ bare.name = field.name
      /\ type.kind # "dictionary" => bare.notes = field.metadata.h5col
      /\ type.kind = "list" =>
           bare.kind = "list" /\ Len(bare.nullable) = type.levels /\ bare.leaf = leaf_spec(type.of, Level(cells, type.levels))
      /\ type.kind = "dictionary" =>
           /\ bare.kind = "categorical" /\ bare.labels = labels
           /\ bare.dtype = code_dtype(type.index, Len(labels))
           /\ bare.notes = with_ordered(field.metadata.h5col, type.ordered)
      /\ type.kind = "string" => bare.kind = "string"
      /\ type.kind = "opaque" => bare.kind = "opaque" /\ bare.width = type.width
      /\ type.kind = "number" => bare.kind = "number" /\ bare.dtype = type.dtype
      /\ type.kind = "boolean" => bare.kind = "boolean"
  BY <1>2, <1>7 DEF InferredOf
<1>9. MayHave(bare, f)
  BY <1>4, <1>7, <1>8, FillsAlike
<1>10. /\ spec.kind = bare.kind /\ spec.name = bare.name /\ spec.notes = bare.notes
       /\ bare.kind \in {"number", "categorical"} => spec.dtype = bare.dtype
       /\ bare.kind \in {"string", "opaque"} => spec.width = bare.width
       /\ bare.kind = "categorical" => spec.labels = bare.labels
       /\ bare.kind = "list" => spec.nullable = bare.nullable /\ spec.leaf = with_leaf_fill(bare.leaf, f)
  BY <1>7, <1>8, <1>9, WithFill
<1>11. ASSUME type.kind = "list"
       PROVE  /\ spec.kind = "list" /\ Len(spec.nullable) = type.levels /\ IsLeafType(type.of)
              /\ type.of.kind = "string" => spec.leaf.kind = "strings"
              /\ type.of.kind # "string" => spec.leaf.kind = type.of.kind
              /\ type.of.kind = "number" => spec.leaf.dtype = type.of.dtype
              /\ type.of.kind = "opaque" => spec.leaf.width = type.of.width
  <2>1. PICK of : of = type.of
    OBVIOUS
  <2>2. PICK leaf : leaf = bare.leaf
    OBVIOUS
  <2>3. PICK leaves : leaves = Level(cells, type.levels)
    OBVIOUS
  <2>4. leaf = leaf_spec(of, leaves)
    BY <1>8, <1>11, <2>1, <2>2, <2>3
  <2>5. IsLeafType(of)
    BY <1>8, <1>11, <2>1 DEF Fits, IsType, IsLeafType, LeafKinds
  <2>6. /\ IsLeafSpec(leaf)
        /\ of.kind = "string" => leaf.kind = "strings"
        /\ of.kind = "number" => leaf.kind = "number" /\ leaf.dtype = of.dtype
        /\ of.kind = "opaque" => leaf.kind = "opaque" /\ leaf.width = of.width
        /\ of.kind = "boolean" => leaf.kind = "boolean"
    BY <2>4, <2>5, InferredLeaf
  <2>7. /\ leaf.kind = "number" => f \in {NoFill} \cup Numbers(leaf.dtype)
        /\ leaf.kind = "opaque" => f \in {NoFill} \cup Bytes(leaf.width)
    BY <1>8, <1>9, <1>11, <2>2 DEF MayHave
  <2>8. PICK full : full = with_leaf_fill(leaf, f)
    OBVIOUS
  <2>9. /\ full.kind = leaf.kind
        /\ leaf.kind = "number" => full.dtype = leaf.dtype
        /\ leaf.kind = "opaque" => full.width = leaf.width
    BY <2>6, <2>7, <2>8, LeafWithFill
  <2>10. of.kind \in LeafKinds
    BY <2>5 DEF IsLeafType
  <2> QED
    BY <1>8, <1>10, <1>11, <2>1, <2>2, <2>5, <2>6, <2>8, <2>9, <2>10 DEF LeafKinds
<1>12. Alike(spec, field, labels)
  BY <1>2, <1>8, <1>10, <1>11 DEF Alike, LeafKinds
<1> QED
  BY <1>1, <1>3, <1>4, <1>6, <1>9, <1>12

\* Column i of an export t that is imported whole.
Reimporting(t, i, spec) ==
  /\ IsTable(t) /\ IsExport(t) /\ i \in DOMAIN t.fields /\ importable(t.fields[i].type)
  /\ Alike(spec, t.fields[i], unify_dictionaries(t, i))
  /\ Holding(t, i, spec, 1) /\ Fresh(spec, t, i)

\* The labels of an export are those of its one chunk, and read back as they are.
LEMMA ExportLabels ==
  ASSUME NEW t, NEW i, NEW spec, Reimporting(t, i, spec), NEW chunk, chunk = t.batches[1][i]
  PROVE  /\ Len(t.batches) = 1 /\ IsChunk(t.fields[i].type, chunk) /\ IsType(t.fields[i].type)
         /\ chunk = [labels |-> chunk.labels, cells |-> chunk.cells]
         /\ t.fields[i].type.kind = "dictionary" =>
              /\ unify_dictionaries(t, i) = chunk.labels
              /\ spec.kind = "categorical" /\ spec.labels = chunk.labels
              /\ IsInjective(chunk.labels) /\ load_category_labels(spec) = chunk.labels
         /\ t.fields[i].type.kind # "dictionary" => chunk.labels = <<>>
         /\ t.fields[i].type.kind = "string" => \A v \in Range(chunk.cells) \ {Null} : v = unpadded(v)
<1>1. PICK type : type = t.fields[i].type
  OBVIOUS
<1>2. /\ Len(t.batches) = 1 /\ IsType(type) /\ \A l \in Range(chunk.labels) : l = unpadded(l)
      /\ chunk = [labels |-> chunk.labels, cells |-> chunk.cells]
      /\ type.kind = "string" => \A v \in Range(chunk.cells) \ {Null} : v = unpadded(v)
  BY <1>1 DEF Reimporting, IsExport
<1>3. IsSeq(t.batches) /\ DOMAIN t.batches = {1}
  BY <1>2 DEF Reimporting, IsTable, IsSeq
<1>4. IsChunk(type, chunk)
  BY <1>1, <1>3 DEF Reimporting, IsTable
<1>5. ASSUME type.kind = "dictionary" PROVE unify_dictionaries(t, i) = chunk.labels
  <2>1. \A b \in DOMAIN t.batches : t.batches[b][i].labels \in Seq(Texts)
    BY <1>3, <1>4, <1>5 DEF IsChunk
  <2> QED
    BY <1>2, <1>3, <2>1, UnifiedLabels
<1>6. type.kind # "dictionary" => chunk.labels = <<>>
  BY <1>4 DEF IsChunk
<1>7. ASSUME type.kind = "dictionary"
      PROVE  /\ spec.kind = "categorical" /\ spec.labels = chunk.labels
             /\ IsInjective(chunk.labels) /\ load_category_labels(spec) = chunk.labels
  <2>1. spec.kind = "categorical" /\ spec.labels = chunk.labels
    BY <1>1, <1>5, <1>7 DEF Reimporting, Alike
  <2>2. IsInjective(spec.labels)
    BY <2>1 DEF Reimporting, Holding
  <2>3. spec.labels \in Seq(Texts)
    BY <1>4, <1>7, <2>1 DEF IsChunk
  <2>4. load_category_labels(spec) = spec.labels
    BY <1>2, <2>1, <2>3, ReadLabels
  <2> QED
    BY <2>1, <2>2, <2>4
<1> QED
  BY <1>1, <1>2, <1>4, <1>5, <1>6, <1>7

\* A code is the code of its label only.
LEMMA CodeKept ==
  ASSUME NEW labels \in Seq(Texts), IsInjective(labels), NEW c \in {Null} \cup 0..(Len(labels) - 1),
         NEW d \in {Null} \cup 0..(Len(labels) - 1),
         (IF labels = <<>> \/ c = Null THEN c ELSE labels[c + 1]) = (IF labels = <<>> \/ d = Null THEN d ELSE labels[d + 1])
  PROVE  c = d
<1>1. PICK m \in Nat : m = Len(labels)
  BY LenProperties
<1>2. DOMAIN labels = 1..m /\ \A k \in 1..m : labels[k] # Null
  <2>1. \A k \in 1..m : labels[k] \in Texts
    BY <1>1, ElementOfSeq
  <2> QED
    BY <1>1, <2>1, LenProperties, NeverNull
<1>3. \A k \in 0..(m - 1) : k # Null /\ k + 1 \in 1..m
  BY <1>1, ApartAssumption
<1>4. CASE labels = <<>>
  BY <1>4
<1>5. CASE labels # <<>> /\ c = Null
  BY <1>1, <1>2, <1>3, <1>5
<1>6. CASE labels # <<>> /\ d = Null
  BY <1>1, <1>2, <1>3, <1>6
<1>7. CASE labels # <<>> /\ c # Null /\ d # Null
  <2>1. c \in 0..(m - 1) /\ d \in 0..(m - 1) /\ labels[c + 1] = labels[d + 1]
    BY <1>1, <1>7
  <2>2. c + 1 = d + 1
    BY <1>2, <1>3, <2>1 DEF IsInjective
  <2> QED
    BY <1>1, <2>1, <2>2
<1> QED
  BY <1>4, <1>5, <1>6, <1>7

\* A cell of an export comes back as it was, a code as the same code.
LEMMA CellAgain ==
  ASSUME NEW t, NEW i, NEW spec, Reimporting(t, i, spec), NEW chunk, chunk = t.batches[1][i],
         NEW r \in DOMAIN chunk.cells
  PROVE  Out(spec, Stored(spec, Cells(chunk)[r])) = chunk.cells[r]
<1>1. PICK field : field = t.fields[i]
  OBVIOUS
<1>2. PICK type : type = field.type
  OBVIOUS
<1>3. PICK cells : cells = chunk.cells
  OBVIOUS
<1>4. PICK v : v = Cells(chunk)[r]
  OBVIOUS
<1>5. /\ Len(t.batches) = 1 /\ IsChunk(type, chunk) /\ IsType(type)
      /\ type.kind = "dictionary" => /\ spec.kind = "categorical" /\ spec.labels = chunk.labels
                                     /\ IsInjective(chunk.labels) /\ load_category_labels(spec) = chunk.labels
      /\ type.kind # "dictionary" => chunk.labels = <<>>
      /\ type.kind = "string" => \A u \in Range(cells) \ {Null} : u = unpadded(u)
  BY <1>1, <1>2, <1>3, ExportLabels
<1>6. /\ IsTable(t) /\ i \in DOMAIN t.fields /\ importable(type)
      /\ Settled(spec, t, i) /\ Fresh(spec, t, i) /\ NoCode(spec) /\ IsSpec(spec)
      /\ \A u \in Range(Prefix(t, i, 1)) : encodable(spec, Taken(spec, u))
      /\ Alike(spec, field, unify_dictionaries(t, i))
  BY <1>1, <1>2 DEF Reimporting, Holding, Settled
<1>7. column(t, i) = Cells(chunk) /\ column(t, i) = Prefix(t, i, 1)
  <2>1. column(t, i) = Cells(chunk)
    BY <1>1, <1>2, <1>5, <1>6, OneBatch
  <2>2. 1 \in 0..Len(t.batches)
    BY <1>5
  <2>3. column(t, i) = Prefix(t, i, Len(t.batches))
    BY <1>1, <1>2, <1>5, <1>6, <2>2, PrefixFacts
  <2> QED
    BY <1>5, <2>1, <2>3
<1>8. DOMAIN Cells(chunk) = DOMAIN cells
  BY <1>3, <1>5, ChunkCells
<1>9. v \in Range(column(t, i)) /\ encodable(spec, Taken(spec, v))
  <2>1. v \in Range(Cells(chunk))
    BY <1>3, <1>4, <1>8 DEF Range
  <2> QED
    BY <1>6, <1>7, <2>1
<1>10. CASE type.kind # "dictionary"
  <2>1. v = cells[r] /\ v \in Range(cells)
    <3>1. Cells(chunk) = chunk.cells
      BY <1>1, <1>2, <1>5, <1>6, <1>10, OneBatch
    <3> QED
      BY <1>3, <1>4, <3>1 DEF Range
  <2>2. spec.kind # "categorical"
    <3>1. type.kind \in LeafKinds \cup {"list"}
      BY <1>5, <1>10 DEF IsType, IsLeafType
    <3> QED
      BY <1>2, <1>6, <3>1 DEF Alike, LeafKinds
  <2>3. Holds(spec, v)
    <3>1. ASSUME spec.kind = "number", v # Null PROVE v \in Domain[spec.dtype] \/ is_float(spec.dtype)
      <4>1. type.kind = "number" /\ spec.dtype = type.dtype
        <5>1. type.kind \in LeafKinds \cup {"list"}
          BY <1>5, <1>10 DEF IsType, IsLeafType
        <5> QED
          BY <1>2, <1>6, <3>1, <5>1 DEF Alike, LeafKinds
      <4>2. IsLeafType(type) /\ Values(type) = Leaves(type)
        BY <1>5, <4>1 DEF IsType, LeafKinds, Values
      <4>3. Leaves(type) = {Null} \cup Numbers(type.dtype)
        BY <4>1, <4>2, Apart
      <4>4. column(t, i) \in Seq(Values(type))
        BY <1>1, <1>2, <1>6, TableColumn
      <4>5. v \in Values(type)
        BY <1>9, <4>4, RangeOfSeq
      <4>6. v \in Numbers(spec.dtype)
        BY <3>1, <4>1, <4>2, <4>3, <4>5
      <4> QED
        BY <4>6 DEF Numbers
    <3>2. ASSUME spec.kind = "string", v # Null PROVE v = unpadded(v)
      <4>1. type.kind = "string"
        <5>1. type.kind \in LeafKinds \cup {"list"}
          BY <1>5, <1>10 DEF IsType, IsLeafType
        <5> QED
          BY <1>2, <1>6, <3>2, <5>1 DEF Alike, LeafKinds
      <4> QED
        BY <1>5, <2>1, <3>2, <4>1
    <3> QED
      BY <3>1, <3>2 DEF Holds
  <2>4. Shown(spec, Stored(spec, v)) = v
    BY <1>6, <1>9, <2>3, RowKept
  <2>5. Out(spec, Stored(spec, v)) = Shown(spec, Stored(spec, v))
    BY <2>2 DEF Out, Shown, Unmasked
  <2> QED
    BY <1>3, <1>4, <2>1, <2>4, <2>5
<1>11. CASE type.kind = "dictionary"
  <2>1. PICK labels : labels = chunk.labels
    OBVIOUS
  <2>2. /\ spec.kind = "categorical" /\ spec.labels = labels /\ load_category_labels(spec) = labels
        /\ IsInjective(labels) /\ labels \in Seq(Texts)
    BY <1>5, <1>11, <2>1 DEF IsChunk
  <2>3. cells[r] \in {Null} \cup 0..(Len(labels) - 1)
    <3>1. cells \in Seq({Null} \cup 0..(Len(labels) - 1))
      BY <1>3, <1>5, <1>11, <2>1 DEF IsChunk
    <3>2. r \in 1..Len(cells)
      BY <1>3, <3>1, LenProperties
    <3> QED
      BY <3>1, <3>2, ElementOfSeq
  <2>4. v = IF labels = <<>> \/ cells[r] = Null THEN cells[r] ELSE labels[cells[r] + 1]
    BY <1>3, <1>4, <2>1 DEF Cells
  <2>5. Holds(spec, v)
    BY <2>2 DEF Holds
  <2>6. Shown(spec, Stored(spec, v)) = v
    BY <1>6, <1>9, <2>5, RowKept
  <2>7. PICK c : c = Unmasked(spec, Stored(spec, v))
    OBVIOUS
  <2>8. c \in {Null} \cup 0..(Len(labels) - 1)
    BY <1>6, <1>9, <2>2, <2>7, ScalarOut
  <2>9. v = IF labels = <<>> \/ c = Null THEN c ELSE labels[c + 1]
    BY <2>2, <2>6, <2>7 DEF Shown, Unmasked
  <2>10. c = cells[r]
    <3>1. labels \in Seq(Texts) /\ IsInjective(labels)
      BY <2>2
    <3> QED
      BY <2>3, <2>4, <2>8, <2>9, <3>1, CodeKept
  <2> QED
    BY <1>3, <1>4, <2>2, <2>7, <2>10 DEF Out
<1> QED
  BY <1>10, <1>11

\* The chunk of an export comes back as it was.
LEMMA ChunkAgain ==
  ASSUME NEW t, NEW i, NEW spec, Reimporting(t, i, spec), NEW chunk, chunk = t.batches[1][i]
  PROVE  Chunk(spec, Rows(t, i, spec, 1)) = chunk
<1>1. PICK again : again = Chunk(spec, Rows(t, i, spec, 1))
  OBVIOUS
<1>2. PICK rows : rows = Rows(t, i, spec, 1)
  OBVIOUS
<1>3. PICK type : type = t.fields[i].type
  OBVIOUS
<1>4. /\ Len(t.batches) = 1 /\ IsChunk(type, chunk) /\ IsType(type)
      /\ chunk = [labels |-> chunk.labels, cells |-> chunk.cells]
      /\ type.kind = "dictionary" => spec.kind = "categorical" /\ load_category_labels(spec) = chunk.labels
      /\ type.kind # "dictionary" => chunk.labels = <<>>
  BY <1>3, ExportLabels
<1>5. /\ again = [labels |-> again.labels, cells |-> again.cells]
      /\ again.labels = IF spec.kind = "categorical" THEN load_category_labels(spec) ELSE <<>>
      /\ again.cells = [r \in DOMAIN rows |-> Out(spec, rows[r])]
  <2>1. again = Chunk(spec, rows)
    BY <1>1, <1>2
  <2> QED
    BY <2>1, ChunkOut
<1>6. again.labels = chunk.labels
  <2>1. Alike(spec, t.fields[i], unify_dictionaries(t, i)) /\ IsSpec(spec)
    BY DEF Reimporting, Holding, Settled
  <2>2. type.kind \in LeafKinds \cup {"dictionary", "list"}
    BY <1>4 DEF IsType, IsLeafType
  <2>3. type.kind # "dictionary" => spec.kind # "categorical"
    BY <1>3, <2>1, <2>2 DEF Alike, LeafKinds
  <2> QED
    BY <1>4, <1>5, <2>3
<1>7. Prefix(t, i, 1) = Cells(chunk) /\ DOMAIN Cells(chunk) = DOMAIN chunk.cells
  <2>1. IsTable(t) /\ i \in DOMAIN t.fields
    BY DEF Reimporting
  <2>2. column(t, i) = Cells(chunk)
    BY <1>3, <1>4, <2>1, OneBatch
  <2>3. 1 \in 0..Len(t.batches)
    BY <1>4
  <2>4. column(t, i) = Prefix(t, i, Len(t.batches))
    BY <1>3, <1>4, <2>1, <2>3, PrefixFacts
  <2>5. DOMAIN Cells(chunk) = DOMAIN chunk.cells
    BY <1>4, ChunkCells
  <2> QED
    BY <1>4, <2>2, <2>4, <2>5
<1>8. rows = [r \in DOMAIN chunk.cells |-> Stored(spec, Cells(chunk)[r])]
  BY <1>2, <1>7 DEF Rows
<1>9. again.cells = [r \in DOMAIN chunk.cells |-> chunk.cells[r]]
  <2>1. \A r \in DOMAIN chunk.cells : Out(spec, Stored(spec, Cells(chunk)[r])) = chunk.cells[r]
    BY CellAgain
  <2>2. DOMAIN rows = DOMAIN chunk.cells
        /\ \A r \in DOMAIN chunk.cells : rows[r] = Stored(spec, Cells(chunk)[r])
    BY <1>8
  <2>3. \A r \in DOMAIN rows : Out(spec, rows[r]) = chunk.cells[r]
    BY <2>1, <2>2
  <2> QED
    BY <1>5, <2>2, <2>3
<1>10. chunk.cells = [r \in DOMAIN chunk.cells |-> chunk.cells[r]]
  <2>1. PICK V : chunk.cells \in Seq(V)
    BY <1>4 DEF IsChunk
  <2>2. PICK s : s = chunk.cells
    OBVIOUS
  <2>3. DOMAIN s = 1..Len(s) /\ s = [r \in 1..Len(s) |-> s[r]]
    BY <2>1, <2>2, LenProperties, SeqDef
  <2> QED
    BY <2>2, <2>3
<1>11. again.cells = chunk.cells
  BY <1>9, <1>10
<1> QED
  BY <1>1, <1>4, <1>5, <1>6, <1>11

\* The element type of a leaf is the one it was inferred for.
LEMMA ElementAgain ==
  ASSUME NEW of, IsLeafType(of), Exportable(of, <<>>), NEW leaf,
         of.kind = "string" => leaf.kind = "strings",
         of.kind # "string" => leaf.kind = of.kind,
         of.kind = "number" => leaf.dtype = of.dtype,
         of.kind = "opaque" => leaf.width = of.width
  PROVE  element_type(leaf) = of
<1>1. CASE of.kind = "string"
  <2>1. of = [kind |-> "string", large |-> TRUE]
    BY <1>1 DEF Exportable
  <2> QED
    BY <1>1, <2>1 DEF element_type
<1>2. CASE of.kind = "number"
  <2>1. of = [kind |-> "number", dtype |-> of.dtype]
    BY <1>2 DEF Exportable
  <2>2. element_type(leaf) = [kind |-> "number", dtype |-> leaf.dtype]
    BY <1>2, Zenon DEF element_type
  <2> QED
    BY <1>2, <2>1, <2>2
<1>3. CASE of.kind = "opaque"
  <2>1. of = [kind |-> "opaque", width |-> of.width]
    BY <1>3 DEF Exportable
  <2>2. element_type(leaf) = [kind |-> "opaque", width |-> leaf.width]
    BY <1>3, Zenon DEF element_type
  <2> QED
    BY <1>3, <2>1, <2>2
<1>4. CASE of.kind = "boolean"
  <2>1. of = [kind |-> "boolean"]
    BY <1>4 DEF Exportable
  <2> QED
    BY <1>4, <2>1 DEF element_type
<1> QED
  BY <1>1, <1>2, <1>3, <1>4 DEF IsLeafType, LeafKinds

\* Fields that differ in the type of their codes only.
LEMMA OtherIndex ==
  ASSUME NEW name, NEW metadata, NEW ordered, NEW d, NEW e, NEW a, NEW b,
         a = [name |-> name, type |-> [kind |-> "dictionary", index |-> d, ordered |-> ordered], metadata |-> metadata],
         b = [name |-> name, type |-> [kind |-> "dictionary", index |-> e, ordered |-> ordered], metadata |-> metadata]
  PROVE  [a EXCEPT !.type.index = "other"] = [b EXCEPT !.type.index = "other"]
<1>1. PICK p : p = [kind |-> "dictionary", index |-> d, ordered |-> ordered]
  OBVIOUS
<1>2. PICK q : q = [kind |-> "dictionary", index |-> e, ordered |-> ordered]
  OBVIOUS
<1>3. a = [name |-> name, type |-> p, metadata |-> metadata] /\ b = [name |-> name, type |-> q, metadata |-> metadata]
  BY <1>1, <1>2
<1>4. [p EXCEPT !.index = "other"] = [q EXCEPT !.index = "other"]
  BY <1>1, <1>2
<1>5. /\ [a EXCEPT !.type.index = "other"] = [name |-> name, type |-> [p EXCEPT !.index = "other"], metadata |-> metadata]
      /\ [b EXCEPT !.type.index = "other"] = [name |-> name, type |-> [q EXCEPT !.index = "other"], metadata |-> metadata]
  BY <1>3
<1> QED
  BY <1>4, <1>5

\* The field of an export comes back as it was, but for the type of some codes.
SameField(again, field, labels) ==
  \/ again = field
  \/ /\ field.type.kind = "dictionary"
     /\ LET index == field.type.index IN unsigned(index) \/ Len(labels) > highest(index)
     /\ [again EXCEPT !.type.index = "other"] = [field EXCEPT !.type.index = "other"]

\* The field that is exported for a spec from a field is that field.
LEMMA FieldAgain ==
  ASSUME NEW t, NEW i, NEW spec, Reimporting(t, i, spec), NEW again, IsField(again, spec)
  PROVE  SameField(again, t.fields[i], t.batches[1][i].labels)
<1>1. PICK field : field = t.fields[i]
  OBVIOUS
<1>2. PICK type : type = field.type
  OBVIOUS
<1>3. PICK labels : labels = t.batches[1][i].labels
  OBVIOUS
<1>4. PICK notes : notes = field.metadata.h5col
  OBVIOUS
<1>5. PICK m : m = [h5col |-> notes, other |-> {}]
  OBVIOUS
<1>6. /\ field = [name |-> field.name, type |-> type, metadata |-> m]
      /\ Exportable(type, notes) /\ (type.kind = "list" => Exportable(type.of, <<>>))
  <2>1. /\ field = [name |-> field.name, type |-> field.type, metadata |-> field.metadata]
        /\ field.metadata = [h5col |-> field.metadata.h5col, other |-> {}]
        /\ Exportable(field.type, field.metadata.h5col)
        /\ (field.type.kind = "list" => Exportable(field.type.of, <<>>))
    BY <1>1 DEF Reimporting, IsExport
  <2> QED
    BY <1>2, <1>4, <1>5, <2>1
<1>7. IsType(type) /\ (type.kind = "dictionary" => unify_dictionaries(t, i) = labels)
  BY <1>1, <1>2, <1>3, ExportLabels
<1>8. Alike(spec, field, unify_dictionaries(t, i))
  BY <1>1 DEF Reimporting
<1>9. again = [name |-> spec.name, type |-> arrow_type(spec), metadata |-> [h5col |-> spec.notes, other |-> {}]]
  BY DEF IsField
<1>10. spec.name = field.name
  BY <1>8 DEF Alike
<1>11. ASSUME type.kind # "dictionary", arrow_type(spec) = type
       PROVE  again = field
  <2>1. spec.notes = notes
    BY <1>2, <1>4, <1>8, <1>11 DEF Alike
  <2> QED
    BY <1>5, <1>6, <1>9, <1>10, <1>11, <2>1
<1>12. CASE type.kind \in LeafKinds
  <2>1. /\ spec.kind = type.kind
        /\ type.kind = "number" => spec.dtype = type.dtype
        /\ type.kind = "opaque" => spec.width = type.width
    BY <1>2, <1>8, <1>12 DEF Alike
  <2>2. type.kind # "dictionary"
    BY <1>12 DEF LeafKinds
  <2>3. arrow_type(spec) = type
    <3>1. CASE type.kind = "string"
      <4>1. type = [kind |-> "string", large |-> TRUE]
        BY <1>6, <3>1 DEF Exportable
      <4> QED
        BY <2>1, <3>1, <4>1 DEF arrow_type, element_type
    <3>2. CASE type.kind = "number"
      <4>1. type = [kind |-> "number", dtype |-> type.dtype]
        BY <1>6, <3>2 DEF Exportable
      <4>2. arrow_type(spec) = [kind |-> "number", dtype |-> spec.dtype]
        BY <2>1, <3>2, Zenon DEF arrow_type, element_type
      <4> QED
        BY <2>1, <3>2, <4>1, <4>2
    <3>3. CASE type.kind = "opaque"
      <4>1. type = [kind |-> "opaque", width |-> type.width]
        BY <1>6, <3>3 DEF Exportable
      <4>2. arrow_type(spec) = [kind |-> "opaque", width |-> spec.width]
        BY <2>1, <3>3, Zenon DEF arrow_type, element_type
      <4> QED
        BY <2>1, <3>3, <4>1, <4>2
    <3>4. CASE type.kind = "boolean"
      <4>1. type = [kind |-> "boolean"]
        BY <1>6, <3>4 DEF Exportable
      <4> QED
        BY <2>1, <3>4, <4>1 DEF arrow_type, element_type
    <3> QED
      BY <1>12, <3>1, <3>2, <3>3, <3>4 DEF LeafKinds
  <2> QED
    BY <1>1, <1>11, <2>2, <2>3 DEF SameField
<1>13. CASE type.kind = "list"
  <2>1. PICK of : of = type.of
    OBVIOUS
  <2>2. type = [kind |-> "list", large |-> TRUE, levels |-> type.levels, of |-> of]
    BY <1>6, <1>13, <2>1 DEF Exportable
  <2>3. PICK leaf : leaf = spec.leaf
    OBVIOUS
  <2>4. /\ spec.kind = "list" /\ Len(spec.nullable) = type.levels /\ IsLeafType(of)
        /\ of.kind = "string" => leaf.kind = "strings"
        /\ of.kind # "string" => leaf.kind = of.kind
        /\ of.kind = "number" => leaf.dtype = of.dtype
        /\ of.kind = "opaque" => leaf.width = of.width
    BY <1>2, <1>8, <1>13, <2>1, <2>3 DEF Alike
  <2>5. element_type(leaf) = of
    BY <1>6, <1>13, <2>1, <2>4, ElementAgain
  <2>6. PICK x : x = element_type(leaf)
    OBVIOUS
  <2>7. arrow_type(spec) = [kind |-> "list", large |-> TRUE, levels |-> Len(spec.nullable), of |-> x]
    BY <2>3, <2>4, <2>6, Zenon DEF arrow_type
  <2>8. arrow_type(spec) = type
    BY <2>2, <2>4, <2>5, <2>6, <2>7
  <2> QED
    BY <1>1, <1>11, <1>13, <2>8 DEF SameField
<1>14. CASE type.kind = "dictionary"
  <2>1. PICK o : o = ("ordered" \in DOMAIN notes /\ notes["ordered"])
    OBVIOUS
  <2>2. type = [kind |-> "dictionary", index |-> type.index, ordered |-> o]
    BY <1>6, <1>14, <2>1 DEF Exportable
  <2>3. type.ordered = o
    BY <2>2
  <2>4. spec.kind = "categorical" /\ spec.labels = labels
        /\ spec.dtype = code_dtype(type.index, Len(labels)) /\ spec.notes = with_ordered(notes, o)
    BY <1>2, <1>4, <1>7, <1>8, <1>14, <2>3 DEF Alike
  <2>5. spec.notes = notes
    BY <2>1, <2>4 DEF with_ordered
  <2>6. arrow_type(spec) = [kind |-> "dictionary", index |-> spec.dtype, ordered |-> o]
    <3>1. arrow_type(spec) = [kind |-> "dictionary", index |-> spec.dtype,
                              ordered |-> "ordered" \in DOMAIN spec.notes /\ spec.notes["ordered"]]
      BY <2>4, Zenon DEF arrow_type
    <3>2. o = ("ordered" \in DOMAIN spec.notes /\ spec.notes["ordered"])
      BY <2>1, <2>5
    <3> QED
      BY <3>1, <3>2, Zenon
  <2>7. again = [name |-> field.name, type |-> [kind |-> "dictionary", index |-> spec.dtype, ordered |-> o], metadata |-> m]
    BY <1>5, <1>9, <1>10, <2>5, <2>6
  <2>8. field = [name |-> field.name, type |-> [kind |-> "dictionary", index |-> type.index, ordered |-> o], metadata |-> m]
    BY <1>6, <2>2
  <2>9. [again EXCEPT !.type.index = "other"] = [field EXCEPT !.type.index = "other"]
    BY <2>7, <2>8, OtherIndex
  <2>10. CASE unsigned(type.index)
    BY <1>1, <1>2, <1>3, <1>14, <2>9, <2>10 DEF SameField
  <2>11. CASE ~unsigned(type.index) /\ Len(labels) <= highest(type.index)
    <3>1. spec.dtype = type.index
      BY <2>4, <2>11 DEF code_dtype
    <3>2. again = field
      BY <2>7, <2>8, <3>1
    <3> QED
      BY <1>1, <3>2 DEF SameField
  <2>12. CASE ~unsigned(type.index) /\ ~(Len(labels) <= highest(type.index))
    <3>1. Len(labels) \in Nat
      <4>1. labels \in Seq(Texts)
        <5>1. IsChunk(t.fields[i].type, t.batches[1][i])
          BY ExportLabels
        <5> QED
          BY <1>1, <1>2, <1>3, <1>14, <5>1 DEF IsChunk
      <4> QED
        BY <4>1, LenProperties
    <3>2. type.index \in DOMAIN Domain /\ ~is_float(type.index)
      BY <1>7, <1>14 DEF IsType, IsLeafType, LeafKinds
    <3>3. highest(type.index) \in Int
      BY <3>2, Datatypes
    <3>4. Len(labels) > highest(type.index)
      BY <2>12, <3>1, <3>3
    <3> QED
      BY <1>1, <1>2, <1>3, <1>14, <2>9, <3>4 DEF SameField
  <2> QED
    BY <2>10, <2>11, <2>12
<1> QED
  BY <1>7, <1>12, <1>13, <1>14 DEF IsType, IsLeafType

-----------------------------------------------------------------------------
(* What the invariant says of the file.                                    *)

Shapes == SourceFits /\ SpecsFit /\ FileFits

\* A column that nobody supplied a spec for.
Unsupplied == FromArrays \/ supplied = NoSpecs

\* While the table is open, the invariant makes it a file of settled specs.
LEMMA FileHolds ==
  ASSUME Shapes, pc \in Opened
  PROVE  /\ OpenFile(source, specs, written, file)
         /\ IsTable(source) /\ DOMAIN file = Columns /\ IsSeq(specs)
         /\ \A i \in Columns : file[i] = Created(specs[i], Rows(source, i, specs[i], written))
         /\ \A i \in Columns : Holding(source, i, specs[i], written)
         /\ ~FromArrays => \A i \in Columns : Ready(specs[i], source, i) /\ Fresh(specs[i], source, i)
         /\ Unsupplied => \A i \in Columns : Natural(source, i, specs[i])
<1>1. /\ IsTable(source) /\ (FromArrays => IsArrays(source))
      /\ IsSeq(specs) /\ DOMAIN specs = Columns
      /\ FromArrays => \A i \in Columns : specs[i] = infer_column_spec(source, i)
      /\ ~FromArrays => /\ \A i \in Columns : Ready(specs[i], source, i)
                        /\ supplied = NoSpecs =>
                             importable_schema(source) /\ \A i \in Columns : specs[i] = Inferred(source, i)
  BY DEF Shapes, SourceFits, SpecsFit
<1>2. /\ written \in 0..Len(source.batches)
      /\ \A i \in Columns : validate_column_spec(specs[i])
      /\ IsInjective([i \in Columns |-> specs[i].name])
      /\ file = [i \in Columns |->
                   Created(specs[i], [r \in DOMAIN Imported(i) |-> Stored(specs[i], Imported(i)[r])])]
      /\ \A i \in Columns : \A v \in Range(Imported(i)) : encodable(specs[i], Taken(specs[i], v))
  BY DEF Shapes, FileFits
<1>3. \A i : Imported(i) = Prefix(source, i, written)
  BY DEF Imported, Prefix
<1>4. file = [i \in Columns |-> Created(specs[i], Rows(source, i, specs[i], written))]
  BY <1>2, <1>3 DEF Rows
<1>5. ASSUME NEW i \in Columns
      PROVE  /\ Holding(source, i, specs[i], written)
             /\ ~FromArrays => Fresh(specs[i], source, i)
             /\ Unsupplied => Natural(source, i, specs[i])
  <2>1. PICK spec : spec = specs[i]
    OBVIOUS
  <2>2. i \in DOMAIN source.fields
    BY DEF Columns
  <2>3. Settled(spec, source, i) /\ (~FromArrays => Fresh(spec, source, i))
    BY <1>1, <1>5, <2>1, <2>2, SpecsSettled
  <2>4. validate_column_spec(spec)
    BY <1>2, <2>1
  <2>5. NoCode(spec) /\ (spec.kind = "categorical" => IsInjective(spec.labels))
    BY <2>4 DEF validate_column_spec, NoCode
  <2>6. \A v \in Range(Prefix(source, i, written)) : encodable(spec, Taken(spec, v))
    BY <1>2, <1>3, <2>1
  <2>7. Unsupplied => Natural(source, i, spec)
    BY <1>1, <2>1 DEF Unsupplied, Natural
  <2> QED
    BY <1>2, <2>1, <2>3, <2>5, <2>6, <2>7 DEF Holding
<1>6. OpenFile(source, specs, written, file)
  BY <1>1, <1>2, <1>4, <1>5 DEF OpenFile, Columns
<1> QED
  BY <1>1, <1>4, <1>5, <1>6

\* The export of a file, column by column.
LEMMA ExportedColumn ==
  ASSUME Shapes, pc \in Opened, NEW i \in Columns
  PROVE  Exported(i) = [r \in DOMAIN Prefix(source, i, written) |->
                          Shown(specs[i], Stored(specs[i], Prefix(source, i, written)[r]))]
<1>1. PICK spec : spec = specs[i]
  OBVIOUS
<1>2. PICK rows : rows = Rows(source, i, spec, written)
  OBVIOUS
<1>3. file[i] = Created(spec, rows)
  BY <1>1, <1>2, FileHolds
<1>4. file[i].spec = spec
  BY <1>3 DEF Created
<1>5. Exported(i) = Cells(Chunk(spec, rows))
  BY <1>3, <1>4 DEF Exported, Chunk
<1>6. Cells(Chunk(spec, rows)) = [r \in DOMAIN rows |-> Shown(spec, rows[r])]
  <2>1. PICK chunk : chunk = Chunk(spec, rows)
    OBVIOUS
  <2>2. AllShown(Cells(chunk), spec, rows)
    BY <2>1, ChunkOut
  <2> QED
    BY <2>1, <2>2 DEF AllShown
<1>7. DOMAIN rows = DOMAIN Prefix(source, i, written)
      /\ \A r \in DOMAIN rows : rows[r] = Stored(spec, Prefix(source, i, written)[r])
  BY <1>2 DEF Rows
<1> QED
  BY <1>1, <1>5, <1>6, <1>7

\* The rows that are in the file come back as they were imported.
LEMMA InvKeepsValues ==
  ASSUME Shapes
  PROVE  ValuesKept
<1> SUFFICES ASSUME Importing, NEW i \in DOMAIN file
             PROVE  /\ Len(Exported(i)) = Len(Imported(i))
                    /\ \A r \in DOMAIN Imported(i) :
                         Holds(file[i].spec, Imported(i)[r]) => Exported(i)[r] = Imported(i)[r]
  BY DEF ValuesKept
<1>1. pc \in Opened
  BY DEF Shapes, FileFits, Importing
<1>2. ~FromArrays
  BY DEF Importing, FromArrays, Shapes, SourceFits
<1>3. PICK spec : spec = specs[i]
  OBVIOUS
<1>4. PICK P : P = Prefix(source, i, written)
  OBVIOUS
<1>5. i \in Columns /\ i \in DOMAIN source.fields /\ IsTable(source)
      /\ Holding(source, i, spec, written) /\ Fresh(spec, source, i)
  BY <1>1, <1>2, <1>3, FileHolds DEF Columns
<1>6. file[i].spec = spec
  <2>1. file[i] = Created(spec, Rows(source, i, spec, written))
    BY <1>1, <1>3, <1>5, FileHolds
  <2> QED
    BY <2>1 DEF Created
<1>7. Imported(i) = P
  BY <1>4 DEF Imported, Prefix
<1>8. Exported(i) = [r \in DOMAIN P |-> Shown(spec, Stored(spec, P[r]))]
  BY <1>1, <1>3, <1>4, <1>5, ExportedColumn
<1>9. IsType(source.fields[i].type) /\ written \in 0..Len(source.batches)
      /\ Settled(spec, source, i) /\ NoCode(spec) /\ \A v \in Range(P) : encodable(spec, Taken(spec, v))
  BY <1>4, <1>5 DEF Holding, Settled, Fits
<1>10. P \in Seq(Values(source.fields[i].type)) /\ Range(P) \subseteq Range(column(source, i))
  BY <1>4, <1>5, <1>9, PrefixFacts, PrefixesInColumn
<1>11. Len(Exported(i)) = Len(P)
  <2>1. PICK m \in Nat : DOMAIN P = 1..m /\ m = Len(P)
    BY <1>10, LenProperties
  <2>2. PICK s : s = Exported(i)
    OBVIOUS
  <2>3. DOMAIN s = 1..m /\ s = [r \in DOMAIN s |-> s[r]]
    BY <1>8, <2>1, <2>2
  <2>4. Len(s) = m
    BY <2>3, OneToN
  <2> QED
    BY <2>1, <2>2, <2>4
<1>12. ASSUME NEW r \in DOMAIN P, Holds(spec, P[r]) PROVE Exported(i)[r] = P[r]
  <2>1. P[r] \in Range(P)
    BY DEF Range
  <2>2. Shown(spec, Stored(spec, P[r])) = P[r]
    BY <1>5, <1>9, <1>10, <1>12, <2>1, RowKept
  <2> QED
    BY <1>8, <2>2
<1> QED
  BY <1>6, <1>7, <1>11, <1>12

\* Two sequences with the same elements are the same.
LEMMA SameSeq ==
  ASSUME NEW a, IsSeq(a), NEW b, IsSeq(b), Len(a) = Len(b), \A k \in 1..Len(a) : a[k] = b[k]
  PROVE  a = b
BY DEF IsSeq

\* The indices of a sequence.
LEMMA SeqDomain ==
  ASSUME NEW s, IsSeq(s)
  PROVE  Len(s) \in Nat /\ DOMAIN s = 1..Len(s)
BY DEF IsSeq

\* Two intervals from 1 that are equal end at the same number.
LEMMA SameLength ==
  ASSUME NEW m \in Nat, NEW n \in Nat, 1..m = 1..n
  PROVE  m = n
<1>1. m <= n
  <2>1. CASE m = 0
    BY <2>1
  <2>2. CASE m # 0
    <3>1. m \in 1..m
      BY <2>2
    <3>2. m \in 1..n
      BY <3>1
    <3> QED
      BY <3>2
  <2> QED
    BY <2>1, <2>2
<1>2. n <= m
  <2>1. CASE n = 0
    BY <2>1
  <2>2. CASE n # 0
    <3>1. n \in 1..n
      BY <2>2
    <3>2. n \in 1..m
      BY <3>1
    <3> QED
      BY <3>2
  <2> QED
    BY <2>1, <2>2
<1> QED
  BY <1>1, <1>2

\* A copy that is exported is what was imported.
LEMMA InvFixesPoint ==
  ASSUME Shapes
  PROVE  FixedPoint
<1> SUFFICES ASSUME pc = "done", copies > 0 PROVE
      LET again == table_arrow(file)
      IN  /\ again.batches = source.batches
          /\ \A i \in DOMAIN file : SameField(again.fields[i], source.fields[i], source.batches[1][i].labels)
  BY DEF FixedPoint, SameField
<1>1. PICK e : e = table_arrow(file)
  OBVIOUS
<1>2. pc \in Opened /\ ~FromArrays /\ copies \in Nat /\ IsExport(source) /\ written = Len(source.batches)
  BY DEF Opened, FromArrays, Shapes, SourceFits, FileFits
<1>3. written = 1 /\ Len(source.batches) = 1
  BY <1>2 DEF IsExport
<1>4. /\ OpenFile(source, specs, written, file) /\ IsTable(source) /\ DOMAIN file = Columns
      /\ \A i \in Columns : Holding(source, i, specs[i], 1)
      /\ \A i \in Columns : Ready(specs[i], source, i) /\ Fresh(specs[i], source, i)
  BY <1>2, <1>3, FileHolds
<1>5. Shaped(e, source, specs, 1)
  BY <1>1, <1>3, <1>4, ExportShape
<1>6. ASSUME NEW i \in Columns PROVE Reimporting(source, i, specs[i])
  <2>1. PICK spec : spec = specs[i]
    OBVIOUS
  <2>2. importable_schema(source) /\ FromField(spec, source, i)
    BY <1>2, <2>1 DEF Shapes, SpecsFit, Columns
  <2>3. i \in DOMAIN source.fields /\ importable(source.fields[i].type) /\ IsSpec(spec)
    BY <1>4, <2>1, <2>2 DEF Columns, importable_schema, Ready
  <2>4. Alike(spec, source.fields[i], unify_dictionaries(source, i))
    BY <1>4, <2>2, <2>3, FieldSpec
  <2> QED
    BY <1>2, <1>4, <2>1, <2>3, <2>4 DEF Reimporting
<1>7. /\ DOMAIN e.fields = Columns /\ IsSeq(e.fields) /\ IsSeq(e.batches) /\ Len(e.batches) = 1
      /\ IsSeq(e.batches[1]) /\ Len(e.batches[1]) = Len(e.fields)
      /\ \A i \in Columns : IsField(e.fields[i], specs[i]) /\ e.batches[1][i] = Chunk(specs[i], Rows(source, i, specs[i], 1))
  BY <1>5 DEF Shaped, Columns
<1>8. /\ IsSeq(source.fields) /\ IsSeq(source.batches) /\ 1 \in DOMAIN source.batches
      /\ IsSeq(source.batches[1]) /\ Len(source.batches[1]) = Len(source.fields)
  <2>1. IsSeq(source.fields) /\ IsSeq(source.batches)
        /\ \A b \in DOMAIN source.batches : IsSeq(source.batches[b]) /\ Len(source.batches[b]) = Len(source.fields)
    BY <1>4 DEF IsTable
  <2>2. DOMAIN source.batches = 1..Len(source.batches)
    BY <2>1, SeqDomain
  <2>3. 1 \in DOMAIN source.batches
    BY <1>3, <2>2
  <2> QED
    BY <2>1, <2>3
<1>9. Len(e.fields) = Len(source.fields) /\ Columns = 1..Len(source.fields)
  <2>1. DOMAIN e.fields = 1..Len(e.fields) /\ Len(e.fields) \in Nat
    BY <1>7, SeqDomain
  <2>2. Columns = 1..Len(source.fields) /\ Len(source.fields) \in Nat
    BY <1>8, SeqDomain DEF Columns
  <2>3. 1..Len(e.fields) = 1..Len(source.fields)
    BY <1>7, <2>1, <2>2
  <2>4. PICK m \in Nat : m = Len(e.fields)
    BY <2>1
  <2>5. PICK n \in Nat : n = Len(source.fields)
    BY <2>2
  <2>6. m = n
    BY <2>3, <2>4, <2>5, SameLength
  <2> QED
    BY <2>2, <2>4, <2>5, <2>6
<1>10. \A i \in Columns : e.batches[1][i] = source.batches[1][i]
  BY <1>6, <1>7, ChunkAgain
<1>11. e.batches[1] = source.batches[1]
  <2>1. PICK a : a = e.batches[1]
    OBVIOUS
  <2>2. PICK b : b = source.batches[1]
    OBVIOUS
  <2>3. IsSeq(a) /\ IsSeq(b) /\ Len(a) = Len(b) /\ \A k \in 1..Len(a) : a[k] = b[k]
    BY <1>7, <1>8, <1>9, <1>10, <2>1, <2>2
  <2> QED
    BY <2>1, <2>2, <2>3, SameSeq
<1>12. e.batches = source.batches
  <2>1. PICK a : a = e.batches
    OBVIOUS
  <2>2. PICK b : b = source.batches
    OBVIOUS
  <2>3. IsSeq(a) /\ IsSeq(b) /\ Len(a) = 1 /\ Len(b) = 1 /\ a[1] = b[1]
    BY <1>3, <1>7, <1>8, <1>11, <2>1, <2>2
  <2> QED
    BY <2>1, <2>2, <2>3, SameSeq
<1>13. \A i \in Columns : SameField(e.fields[i], source.fields[i], source.batches[1][i].labels)
  BY <1>6, <1>7, FieldAgain
<1> QED
  BY <1>1, <1>4, <1>12, <1>13

-----------------------------------------------------------------------------
(* Suggested fills.                                                        *)

\* The fills that are tried are values of the datatype.
LEMMA Candidates ==
  ASSUME NEW d \in DOMAIN Domain, ~is_float(d), NEW fills, fills = fill_candidates(d)
  PROVE  /\ \E n \in Int : DOMAIN fills = 1..n
         /\ \A k \in DOMAIN fills : fills[k] \in Domain[d]
<1>1. PICK lo \in Int : lo = lowest(d)
  BY Datatypes
<1>2. PICK hi \in Int : hi = highest(d)
  BY Datatypes
<1>3. Domain[d] = lo..hi /\ lo <= 0 /\ 0 <= hi
  BY <1>1, <1>2, Datatypes
<1>4. Cardinality(Domain[d]) = hi - lo + 1
  BY <1>1, <1>2, <1>3, FS_Interval
<1>5. PICK room \in Int : room = IF unsigned(d) THEN hi - lo + 1 ELSE hi - lo
  <2>1. hi - lo + 1 \in Int /\ hi - lo \in Int
    OBVIOUS
  <2>2. CASE unsigned(d)
    BY <2>1, <2>2
  <2>3. CASE ~unsigned(d)
    BY <2>1, <2>3
  <2> QED
    BY <2>2, <2>3
<1>6. PICK n : n = Min({room, FillSuggestions})
  OBVIOUS
<1>7. n \in Int /\ n <= room
  <2>1. FillSuggestions \in Int
    BY ArrowAssumption
  <2>2. \E x \in {room, FillSuggestions} : \A y \in {room, FillSuggestions} : x <= y
    BY <2>1
  <2>3. n \in {room, FillSuggestions} /\ \A y \in {room, FillSuggestions} : n <= y
    BY <1>6, <2>2 DEF Min
  <2> QED
    BY <2>1, <2>3
<1>8. fills = [k \in 1..n |-> IF unsigned(d) THEN hi - k + 1 ELSE lo + k]
  <2>1. (IF unsigned(d) THEN Cardinality(Domain[d]) ELSE Cardinality(Domain[d]) - 1) = room
    BY <1>4, <1>5
  <2> QED
    BY <1>1, <1>2, <1>6, <2>1 DEF fill_candidates
<1>9. ASSUME NEW k \in 1..n PROVE fills[k] \in Domain[d]
  <2>1. k \in Int /\ 1 <= k /\ k <= room
    BY <1>7, <1>9
  <2>2. CASE unsigned(d)
    <3>1. lo = 0
      BY <1>1, <2>2 DEF unsigned
    <3> QED
      BY <1>3, <1>5, <1>8, <1>9, <2>1, <2>2, <3>1
  <2>3. CASE ~unsigned(d)
    BY <1>3, <1>5, <1>8, <1>9, <2>1, <2>3
  <2> QED
    BY <2>2, <2>3
<1> QED
  BY <1>7, <1>8, <1>9

\* A fill that is suggested is a value of the datatype, Arrow can say it, and it
\* is not in the data.
LEMMA SuggestionFree ==
  ASSUME NEW spec, NEW notes, NEW cells, NEW type, spec.kind = "number" => spec.dtype \in DOMAIN Domain,
         NEW out, out = chosen_fill(spec, notes, cells, type),
         out.reason = "collision", out.suggestion # NoFill
  PROVE  /\ spec.kind = "number" /\ out.suggestion \in Numbers(spec.dtype)
         /\ fill_scalar_fits(out.suggestion, type) /\ out.suggestion \notin Range(cells)
<1>1. PICK s : s = suggest_fill(spec, cells, type)
  OBVIOUS
<1>2. PICK fill : fill = Choice(spec)
  OBVIOUS
<1>3. out = IF fill # NaN /\ ~fill_scalar_fits(fill, type) THEN Outcome("arrow", NoFill, fill)
            ELSE IF fill_occurs_in_data(cells, fill)
                 THEN Outcome(IF s = NoFill \/ fill_scalar_fits(s, type) THEN "collision" ELSE "arrow", s, fill)
            ELSE IF ~validate_fill_outside_range(fill, notes) THEN Outcome("range", NoFill, fill)
            ELSE Outcome("none", NoFill, fill)
  BY <1>1, <1>2, Zenon DEF chosen_fill, Choice
<1>4. \A r, x, y : Outcome(r, x, y).reason = r /\ Outcome(r, x, y).suggestion = x
  BY DEF Outcome
<1>5. out = Outcome(IF s = NoFill \/ fill_scalar_fits(s, type) THEN "collision" ELSE "arrow", s, fill)
  BY <1>3, <1>4
<1>6. out.suggestion = s /\ s # NoFill /\ fill_scalar_fits(s, type)
  BY <1>4, <1>5
<1>7. spec.kind = "number" /\ ~is_float(spec.dtype)
  BY <1>1, <1>6 DEF suggest_fill
<1>8. PICK fills : fills = fill_candidates(spec.dtype)
  OBVIOUS
<1>9. PICK stops : stops = {k \in DOMAIN fills : \/ ~fill_scalar_fits(fills[k], type)
                                                 \/ ~fill_occurs_in_data(cells, fills[k])}
  OBVIOUS
<1>10. s = IF stops = {} THEN NoFill ELSE fills[Min(stops)]
  BY <1>1, <1>7, <1>8, <1>9 DEF suggest_fill
<1>11. stops # {} /\ s = fills[Min(stops)]
  BY <1>6, <1>10
<1>12. Min(stops) \in stops
  <2>1. PICK n \in Int : DOMAIN fills = 1..n
    BY <1>7, <1>8, Candidates
  <2>2. stops \subseteq 1..n /\ IsFiniteSet(1..n) /\ 1..n \subseteq Int
    BY <1>9, <2>1, FS_Interval
  <2>3. IsFiniteSet(stops) /\ stops \subseteq Int
    BY <2>2, FS_Subset
  <2>4. \E x \in stops : \A y \in stops : x <= y
    BY <1>11, <2>3, Extremes
  <2> QED
    BY <2>4 DEF Min
<1>13. PICK k : k = Min(stops)
  OBVIOUS
<1>14. k \in DOMAIN fills /\ s = fills[k] /\ (~fill_scalar_fits(s, type) \/ ~fill_occurs_in_data(cells, s))
  BY <1>9, <1>11, <1>12, <1>13
<1>15. s \in Domain[spec.dtype]
  BY <1>7, <1>8, <1>14, Candidates
<1>16. s \in Numbers(spec.dtype)
  BY <1>7, <1>15 DEF Numbers
<1> QED
  BY <1>6, <1>7, <1>14, <1>16 DEF fill_occurs_in_data

\* With a fill that was suggested a spec is not refused for its fill.
LEMMA Suggested ==
  ASSUME NEW t, NEW i, NEW spec, IsSpec(spec), NEW out, out = checked(spec, t, i),
         out.reason = "collision", out.suggestion # NoFill,
         NEW w, w = with_fill(spec, out.suggestion)
  PROVE  MayHave(spec, out.suggestion) /\ IsSpec(w) /\ checked(w, t, i).reason \notin Refusals
<1>1. PICK type : type = t.fields[i].type
  OBVIOUS
<1>2. PICK cells : cells = column(t, i)
  OBVIOUS
<1>3. PICK s : s = out.suggestion
  OBVIOUS
<1>4. \A r, x, y : Outcome(r, x, y).reason = r
  BY DEF Outcome
<1>5. CASE spec.kind = "list"
  <2>1. PICK leaf : leaf = spec.leaf
    OBVIOUS
  <2>2. PICK leaves : leaves = Level(cells, Len(spec.nullable))
    OBVIOUS
  <2>3. PICK of : of = type.of
    OBVIOUS
  <2>4. out = leaf_fill(leaf, leaves, of) /\ IsLeafSpec(leaf)
    BY <1>1, <1>2, <1>5, <2>1, <2>2, <2>3 DEF checked, apply_list_fills, IsSpec
  <2>5. leaf.kind \notin {"strings", "boolean"}
    BY <1>4, <2>4 DEF leaf_fill
  <2>6. out = chosen_fill(leaf, <<>>, leaves, of)
    BY <2>4, <2>5 DEF leaf_fill
  <2>7. leaf.kind = "number" /\ s \in Numbers(leaf.dtype)
        /\ fill_scalar_fits(s, of) /\ s \notin Range(leaves)
    BY <1>3, <2>4, <2>6, SuggestionFree DEF IsLeafSpec
  <2>8. MayHave(spec, s)
    BY <1>5, <2>1, <2>7 DEF MayHave
  <2>9. IsSpec(w) /\ w.kind = "list" /\ w.nullable = spec.nullable /\ w.leaf = with_leaf_fill(leaf, s)
    BY <1>3, <1>5, <2>1, <2>8, WithFill
  <2>10. PICK full : full = with_leaf_fill(leaf, s)
    OBVIOUS
  <2>11. full.kind = "number" /\ full.fill = s
    BY <2>4, <2>7, <2>10, LeafWithFill
  <2>12. Choice(full) = s
    BY <1>3, <2>11 DEF Choice
  <2>13. chosen_fill(full, <<>>, leaves, of).reason \notin Refusals
    BY <2>7, <2>12, ChosenClean
  <2>14. checked(w, t, i) = chosen_fill(full, <<>>, leaves, of)
    BY <1>1, <1>2, <2>2, <2>3, <2>9, <2>10, <2>11 DEF checked, apply_list_fills, leaf_fill
  <2> QED
    BY <1>3, <2>8, <2>9, <2>13, <2>14
<1>6. CASE spec.kind # "list"
  <2>1. out = fill_for(spec, cells, type)
    BY <1>1, <1>2, <1>6 DEF checked
  <2>2. spec.kind \notin {"boolean", "categorical"}
    BY <1>4, <2>1 DEF fill_for
  <2>3. out = chosen_fill(spec, spec.notes, cells, type)
    BY <2>1, <2>2 DEF fill_for
  <2>4. spec.kind = "number" /\ s \in Numbers(spec.dtype)
        /\ fill_scalar_fits(s, type) /\ s \notin Range(cells)
    BY <1>3, <2>3, SuggestionFree DEF IsSpec
  <2>5. MayHave(spec, s)
    BY <2>4 DEF MayHave
  <2>6. IsSpec(w) /\ w.kind = "number" /\ w.fill = s
    BY <1>3, <2>4, <2>5, WithFill
  <2>7. Choice(w) = s
    BY <1>3, <2>6 DEF Choice
  <2>8. chosen_fill(w, w.notes, cells, type).reason \notin Refusals
    BY <2>4, <2>7, ChosenClean
  <2>9. checked(w, t, i) = chosen_fill(w, w.notes, cells, type)
    BY <1>1, <1>2, <2>6 DEF checked, fill_for
  <2> QED
    BY <1>3, <2>5, <2>6, <2>8, <2>9
<1> QED
  BY <1>5, <1>6

-----------------------------------------------------------------------------
(* The specs that are given, in the order of the fields.                   *)

\* A fill in the place of another one.
LEMMA ExceptTwice ==
  ASSUME NEW s, NEW x, NEW y, NEW z
  PROVE  [[s EXCEPT ![x] = y] EXCEPT ![x] = z] = [s EXCEPT ![x] = z]
OBVIOUS

\* With another fill a spec fits the same type.
LEMMA FitsFilled ==
  ASSUME NEW spec, IsSpec(spec), NEW f, MayHave(spec, f), NEW w, w = with_fill(spec, f),
         NEW type, Fits(spec, type)
  PROVE  Fits(w, type)
<1>1. /\ IsSpec(w) /\ w.kind = spec.kind
      /\ spec.kind = "number" => w.dtype = spec.dtype
      /\ spec.kind = "list" => w.nullable = spec.nullable /\ w.leaf = with_leaf_fill(spec.leaf, f)
  BY WithFill
<1>2. CASE spec.kind = "list"
  <2>1. PICK leaf : leaf = spec.leaf
    OBVIOUS
  <2>2. PICK full : full = w.leaf
    OBVIOUS
  <2>3. IsLeafSpec(leaf) /\ full = with_leaf_fill(leaf, f)
        /\ (leaf.kind = "number" => f \in {NoFill} \cup Numbers(leaf.dtype))
        /\ (leaf.kind = "opaque" => f \in {NoFill} \cup Bytes(leaf.width))
    BY <1>1, <1>2, <2>1, <2>2 DEF IsSpec, MayHave
  <2>4. full.kind = leaf.kind
    BY <2>3, LeafWithFill
  <2> QED
    BY <1>1, <1>2, <2>1, <2>2, <2>4 DEF Fits, LeafFits
<1>3. CASE spec.kind # "list"
  BY <1>1, <1>3 DEF Fits
<1> QED
  BY <1>2, <1>3

\* The spec of a field, filled once more, is the spec of the field.
LEMMA Refilled ==
  ASSUME NEW t, IsTable(t), NEW i \in DOMAIN t.fields, importable(t.fields[i].type),
         NEW spec, IsSpec(spec), FromField(spec, t, i), NEW f, MayHave(spec, f), NEW w, w = with_fill(spec, f)
  PROVE  FromField(w, t, i)
<1>1. PICK bare : bare = spec_from_field(t, i)
  OBVIOUS
<1>2. PICK g : g = FillIn(spec)
  OBVIOUS
<1>3. spec = with_fill(bare, g)
  BY <1>1, <1>2 DEF FromField
<1>4. IsSpec(bare)
  <2>1. InferredOf(bare, t.fields[i], column(t, i), unify_dictionaries(t, i))
    BY <1>1, InferredSpec
  <2> QED
    BY <2>1 DEF InferredOf
<1>5. IsSpec(w)
  BY WithFill
<1>6. CASE bare.kind = "list"
  <2>1. PICK leaf : leaf = bare.leaf
    OBVIOUS
  <2>2. {"kind", "leaf"} \subseteq DOMAIN bare /\ IsLeafSpec(leaf)
    BY <1>4, <1>6, <2>1 DEF IsSpec
  <2>3. spec = [bare EXCEPT !.leaf = with_leaf_fill(leaf, g)]
    BY <1>3, <1>6, <2>1, <2>2 DEF with_fill
  <2>4. spec.kind = "list" /\ spec.leaf = with_leaf_fill(leaf, g)
    BY <1>6, <2>2, <2>3
  <2>5. w = [spec EXCEPT !.leaf = with_leaf_fill(with_leaf_fill(leaf, g), f)]
    BY <2>4 DEF with_fill
  <2>6. {"kind"} \subseteq DOMAIN leaf /\ (leaf.kind # "strings" => "fill" \in DOMAIN leaf)
    BY <2>2 DEF IsLeafSpec
  <2>7. CASE leaf.kind = "strings"
    <3>1. \A h : with_leaf_fill(leaf, h) = leaf
      BY <2>7 DEF with_leaf_fill
    <3>2. w = [spec EXCEPT !.leaf = leaf] /\ spec = [bare EXCEPT !.leaf = leaf]
      BY <2>3, <2>5, <3>1
    <3>3. w = [bare EXCEPT !.leaf = leaf]
      BY <3>2, ExceptTwice
    <3>4. \A h : with_fill(bare, h) = [bare EXCEPT !.leaf = leaf]
      BY <1>6, <2>1, <2>2, <3>1 DEF with_fill
    <3> QED
      BY <1>1, <3>3, <3>4 DEF FromField
  <2>8. CASE leaf.kind # "strings"
    <3>1. PICK once : once = [leaf EXCEPT !.fill = g]
      OBVIOUS
    <3>2. PICK twice : twice = [leaf EXCEPT !.fill = f]
      OBVIOUS
    <3>3. with_leaf_fill(leaf, g) = once /\ once.kind # "strings" /\ with_leaf_fill(leaf, f) = twice
      BY <2>6, <2>8, <3>1, <3>2 DEF with_leaf_fill
    <3>4. with_leaf_fill(once, f) = twice
      <4>1. with_leaf_fill(once, f) = [once EXCEPT !.fill = f]
        BY <3>3 DEF with_leaf_fill
      <4> QED
        BY <3>1, <3>2, <4>1, ExceptTwice
    <3>5. w = [spec EXCEPT !.leaf = twice] /\ spec = [bare EXCEPT !.leaf = once]
      BY <2>3, <2>5, <3>3, <3>4
    <3>6. w = [bare EXCEPT !.leaf = twice]
      BY <3>5, ExceptTwice
    <3>7. with_fill(bare, f) = [bare EXCEPT !.leaf = twice]
      BY <1>6, <2>1, <2>2, <3>3 DEF with_fill
    <3>8. w.kind = "list" /\ w.leaf = twice
      BY <1>6, <2>2, <3>6
    <3>9. twice.kind = leaf.kind /\ twice.fill = f
      BY <2>6, <2>8, <3>2
    <3>10. FillIn(w) = f
      BY <2>8, <3>8, <3>9 DEF FillIn
    <3> QED
      BY <1>1, <3>6, <3>7, <3>10 DEF FromField
  <2> QED
    BY <2>7, <2>8
<1>7. CASE bare.kind # "list"
  <2>1. {"kind", "fill"} \subseteq DOMAIN bare
    BY <1>4, <1>7 DEF IsSpec
  <2>2. spec = [bare EXCEPT !.fill = g]
    BY <1>3, <1>7 DEF with_fill
  <2>3. spec.kind = bare.kind
    BY <2>1, <2>2
  <2>4. w = [spec EXCEPT !.fill = f]
    BY <1>7, <2>3 DEF with_fill
  <2>5. w = [bare EXCEPT !.fill = f]
    BY <2>2, <2>4, ExceptTwice
  <2>6. w.kind # "list" /\ w.fill = f
    BY <1>7, <2>1, <2>5
  <2>7. w = with_fill(bare, FillIn(w))
    BY <1>7, <2>5, <2>6 DEF with_fill, FillIn
  <2> QED
    BY <1>1, <2>7 DEF FromField
<1> QED
  BY <1>6, <1>7

\* What is inferred is from the field.
LEMMA InferredIsFrom ==
  ASSUME NEW t, IsTable(t), NEW i \in DOMAIN t.fields, importable(t.fields[i].type),
         NEW bare, bare = spec_from_field(t, i)
  PROVE  IsSpec(bare) /\ Fits(bare, t.fields[i].type) /\ bare.name = t.fields[i].name /\ FromField(bare, t, i)
<1>1. PICK field : field = t.fields[i]
  OBVIOUS
<1>2. PICK type : type = field.type
  OBVIOUS
<1>3. PICK cells : cells = column(t, i)
  OBVIOUS
<1>4. InferredOf(bare, field, cells, unify_dictionaries(t, i))
  BY <1>1, <1>3, InferredSpec
<1>5. /\ IsSpec(bare) /\ Fits(bare, type) /\ bare.name = field.name
      /\ bare.kind # "list" => bare.fill = NoFill
      /\ type.kind = "list" =>
           bare.kind = "list" /\ bare.leaf = leaf_spec(type.of, Level(cells, type.levels))
  BY <1>2, <1>4 DEF InferredOf
<1>6. CASE bare.kind = "list"
  <2>1. PICK leaf : leaf = bare.leaf
    OBVIOUS
  <2>2. type.kind = "list" /\ IsLeafType(type.of)
    BY <1>5, <1>6 DEF Fits, IsType, IsLeafType, LeafKinds
  <2>3. PICK of : of = type.of
    OBVIOUS
  <2>4. PICK leaves : leaves = Level(cells, type.levels)
    OBVIOUS
  <2>5. leaf = leaf_spec(of, leaves) /\ IsLeafType(of)
    BY <1>5, <2>1, <2>2, <2>3, <2>4
  <2>6. IsLeafSpec(leaf) /\ (of.kind = "string" => leaf.kind = "strings")
        /\ (of.kind # "string" => leaf.fill = NoFill)
    BY <2>5, InferredLeaf
  <2>7. \/ leaf.kind = "strings" \/ leaf.fill = NoFill
    BY <2>6
  <2>8. FillIn(bare) = NoFill
    BY <1>6, <2>1, <2>7 DEF FillIn
  <2>9. with_leaf_fill(leaf, NoFill) = leaf
    <3>1. CASE leaf.kind = "strings"
      BY <3>1 DEF with_leaf_fill
    <3>2. CASE leaf.kind # "strings"
      <4>1. leaf = leaf_spec(of, leaves) /\ of.kind # "string" /\ leaf.fill = NoFill
        BY <2>5, <2>6, <3>2
      <4>2. [leaf EXCEPT !.fill = NoFill] = leaf
        BY <4>1 DEF leaf_spec
      <4> QED
        BY <3>2, <4>2 DEF with_leaf_fill
    <3> QED
      BY <3>1, <3>2
  <2>10. [bare EXCEPT !.leaf = leaf] = bare
    <3>1. bare = [name |-> bare.name, notes |-> bare.notes, attributes |-> bare.attributes,
                  kind |-> "list", nullable |-> bare.nullable, leaf |-> leaf]
      BY <1>1, <1>2, <2>1, <2>2 DEF spec_from_field
    <3> QED
      BY <3>1
  <2>11. with_fill(bare, NoFill) = bare
    BY <1>6, <2>1, <2>9, <2>10 DEF with_fill
  <2> QED
    BY <1>1, <1>2, <1>5, <2>8, <2>11 DEF FromField
<1>7. CASE bare.kind # "list"
  <2>1. FillIn(bare) = NoFill /\ bare.fill = NoFill
    BY <1>5, <1>7 DEF FillIn
  <2>2. bare = [bare EXCEPT !.fill = NoFill]
    <3>1. bare = [x \in DOMAIN bare |-> bare[x]]
      BY DEF spec_from_field
    <3> QED
      BY <2>1, <3>1
  <2> QED
    BY <1>1, <1>2, <1>5, <1>7, <2>1, <2>2 DEF FromField, with_fill
<1> QED
  BY <1>6, <1>7

\* Specs for the fields of a table, in any order, and in that of the fields.
Ordering(t, given, ordered) ==
  /\ IsTable(t) /\ AreGiven(given, t) /\ names_fields(t, given) /\ ordered = in_field_order(t, given)

\* In the order of the fields, every given spec stands once, at its field.
LEMMA OrderedSpecs ==
  ASSUME NEW t, NEW given, NEW ordered, Ordering(t, given, ordered)
  PROVE  /\ IsSeq(ordered) /\ DOMAIN ordered = DOMAIN t.fields /\ Len(ordered) = Len(t.fields)
         /\ \A i \in DOMAIN t.fields :
              /\ ordered[i] \in Range(given) /\ ordered[i].name = t.fields[i].name
              /\ IsSpec(ordered[i]) /\ Fits(ordered[i], t.fields[i].type)
         /\ \A j \in DOMAIN given : \E i \in DOMAIN t.fields : given[j].name = t.fields[i].name
         /\ \A j \in DOMAIN given, i \in DOMAIN t.fields :
              given[j].name = t.fields[i].name => given[j] = ordered[i]
         /\ \A i \in DOMAIN t.fields, k \in DOMAIN t.fields : ordered[k].name = t.fields[i].name => k = i
<1>1. /\ IsSeq(t.fields) /\ IsSeq(given) /\ IsInjective(names(t))
      /\ IsInjective([j \in DOMAIN given |-> given[j].name])
      /\ {s.name : s \in Range(given)} = Range(names(t))
      /\ \A j \in DOMAIN given : IsSpec(given[j])
      /\ \A j \in DOMAIN given, i \in DOMAIN t.fields :
           given[j].name = t.fields[i].name => Fits(given[j], t.fields[i].type)
      /\ ordered = [i \in DOMAIN t.fields |-> CHOOSE s \in Range(given) : s.name = t.fields[i].name]
  BY DEF Ordering, IsTable, AreGiven, names_fields, in_field_order
<1>2. DOMAIN names(t) = DOMAIN t.fields /\ \A i \in DOMAIN t.fields : names(t)[i] = t.fields[i].name
  BY DEF names
<1>3. \A i \in DOMAIN t.fields, k \in DOMAIN t.fields : t.fields[i].name = t.fields[k].name => i = k
  BY <1>1, <1>2 DEF IsInjective
<1>4. \A j \in DOMAIN given, k \in DOMAIN given : given[j].name = given[k].name => j = k
  <2>1. PICK g : g = [j \in DOMAIN given |-> given[j].name]
    OBVIOUS
  <2>2. DOMAIN g = DOMAIN given /\ \A j \in DOMAIN given : g[j] = given[j].name
    BY <2>1
  <2>3. IsInjective(g)
    BY <1>1, <2>1
  <2> QED
    BY <2>2, <2>3 DEF IsInjective
<1>5. ASSUME NEW i \in DOMAIN t.fields
      PROVE  \E j \in DOMAIN given : given[j].name = t.fields[i].name
  <2>1. t.fields[i].name \in Range(names(t))
    BY <1>2 DEF Range
  <2>2. PICK s \in Range(given) : s.name = t.fields[i].name
    BY <1>1, <2>1
  <2> QED
    BY <2>2 DEF Range
<1>6. ASSUME NEW j \in DOMAIN given PROVE \E i \in DOMAIN t.fields : given[j].name = t.fields[i].name
  <2>1. given[j] \in Range(given)
    BY DEF Range
  <2>2. given[j].name \in Range(names(t))
    BY <1>1, <2>1
  <2> QED
    BY <1>2, <2>2 DEF Range
<1>7. ASSUME NEW i \in DOMAIN t.fields, NEW j \in DOMAIN given, given[j].name = t.fields[i].name
      PROVE  given[j] = ordered[i]
  <2>1. given[j] \in Range(given)
    BY DEF Range
  <2>2. ordered[i] = CHOOSE s \in Range(given) : s.name = t.fields[i].name
    BY <1>1
  <2>3. ordered[i] \in Range(given) /\ ordered[i].name = t.fields[i].name
    BY <1>7, <2>1, <2>2
  <2>4. PICK k \in DOMAIN given : given[k] = ordered[i]
    BY <2>3 DEF Range
  <2>5. k = j
    BY <1>4, <1>7, <2>3, <2>4
  <2> QED
    BY <2>4, <2>5
<1>8. ASSUME NEW i \in DOMAIN t.fields
      PROVE  /\ ordered[i] \in Range(given) /\ ordered[i].name = t.fields[i].name
             /\ IsSpec(ordered[i]) /\ Fits(ordered[i], t.fields[i].type)
  <2>1. PICK j \in DOMAIN given : given[j].name = t.fields[i].name
    BY <1>5
  <2>2. given[j] = ordered[i]
    BY <1>7, <2>1
  <2> QED
    BY <1>1, <2>1, <2>2 DEF Range
<1>9. IsSeq(ordered) /\ DOMAIN ordered = DOMAIN t.fields /\ Len(ordered) = Len(t.fields)
  <2>1. PICK m \in Nat : m = Len(t.fields) /\ DOMAIN t.fields = 1..m
    BY <1>1, SeqDomain
  <2>2. DOMAIN ordered = 1..m /\ ordered = [i \in DOMAIN ordered |-> ordered[i]]
    BY <1>1, <2>1
  <2> QED
    BY <2>1, <2>2, OneToN
<1>10. \A i \in DOMAIN t.fields, k \in DOMAIN t.fields : ordered[k].name = t.fields[i].name => k = i
  BY <1>3, <1>8
<1> QED
  BY <1>6, <1>7, <1>8, <1>9, <1>10

\* The specs that a schema is inferred to have are given in the order of the fields.
LEMMA InferredGiven ==
  ASSUME NEW t, IsTable(t), importable_schema(t), NEW given, given = specs_from_arrow(t)
  PROVE  /\ AreGiven(given, t) /\ names_fields(t, given) /\ in_field_order(t, given) = given
         /\ DOMAIN given = DOMAIN t.fields
         /\ \A i \in DOMAIN t.fields : given[i] = spec_from_field(t, i) /\ FromField(given[i], t, i)
<1>1. given = [i \in DOMAIN t.fields |-> spec_from_field(t, i)]
  BY DEF specs_from_arrow
<1>2. \A i \in DOMAIN t.fields :
        /\ IsSpec(given[i]) /\ Fits(given[i], t.fields[i].type) /\ given[i].name = t.fields[i].name
        /\ FromField(given[i], t, i)
  BY <1>1, InferredIsFrom DEF importable_schema
<1>3. IsInjective(names(t)) /\ IsSeq(t.fields)
  BY DEF importable_schema, IsTable
<1>4. [j \in DOMAIN given |-> given[j].name] = names(t)
  BY <1>1, <1>2 DEF names
<1>5. IsSeq(given)
  <2>1. PICK m \in Nat : m = Len(t.fields) /\ DOMAIN t.fields = 1..m
    BY <1>3, SeqDomain
  <2>2. DOMAIN given = 1..m /\ given = [i \in DOMAIN given |-> given[i]]
    BY <1>1, <2>1
  <2> QED
    BY <2>2, OneToN
<1>6. names_fields(t, given)
  <2>1. DOMAIN names(t) = DOMAIN t.fields /\ \A i \in DOMAIN t.fields : names(t)[i] = t.fields[i].name
    BY DEF names
  <2>2. DOMAIN given = DOMAIN t.fields
    BY <1>1
  <2>3. ASSUME NEW s \in Range(given) PROVE s.name \in Range(names(t))
    <3>1. PICK j \in DOMAIN given : given[j] = s
      BY DEF Range
    <3> QED
      BY <1>2, <2>1, <2>2, <3>1 DEF Range
  <2>4. ASSUME NEW n \in Range(names(t)) PROVE \E s \in Range(given) : s.name = n
    <3>1. PICK i \in DOMAIN t.fields : n = t.fields[i].name
      BY <2>1 DEF Range
    <3>2. given[i] \in Range(given) /\ given[i].name = n
      BY <1>2, <2>2, <3>1 DEF Range
    <3> QED
      BY <3>2
  <2>5. {s.name : s \in Range(given)} = Range(names(t))
    BY <2>3, <2>4
  <2> QED
    BY <1>3, <2>5 DEF names_fields
<1>7. \A j \in DOMAIN given, i \in DOMAIN t.fields :
        given[j].name = t.fields[i].name => Fits(given[j], t.fields[i].type)
  <2>1. \A i \in DOMAIN t.fields, k \in DOMAIN t.fields : t.fields[i].name = t.fields[k].name => i = k
    BY <1>3 DEF IsInjective, names
  <2> QED
    BY <1>1, <1>2, <2>1
<1>8. AreGiven(given, t)
  BY <1>1, <1>2, <1>3, <1>4, <1>5, <1>7 DEF AreGiven
<1>9. in_field_order(t, given) = given
  <2>1. PICK ordered : ordered = in_field_order(t, given)
    OBVIOUS
  <2>2. Ordering(t, given, ordered)
    BY <1>6, <1>8, <2>1 DEF Ordering
  <2>3. IsSeq(ordered) /\ DOMAIN ordered = DOMAIN t.fields
        /\ \A j \in DOMAIN given, i \in DOMAIN t.fields : given[j].name = t.fields[i].name => given[j] = ordered[i]
    BY <2>2, OrderedSpecs
  <2>4. ordered = [i \in DOMAIN t.fields |-> ordered[i]]
    BY <2>1 DEF in_field_order
  <2>5. \A i \in DOMAIN t.fields : given[i] = ordered[i]
    BY <1>1, <1>2, <2>3
  <2>6. ordered = given
    BY <1>1, <2>4, <2>5
  <2> QED
    BY <2>1, <2>6
<1> QED
  BY <1>1, <1>2, <1>6, <1>8, <1>9

\* Specs that are from the fields in their order.
LEMMA FromFieldsGiven ==
  ASSUME NEW t, NEW given, NEW ordered, Ordering(t, given, ordered), importable_schema(t),
         DOMAIN given = DOMAIN t.fields, \A j \in DOMAIN given : FromField(given[j], t, j)
  PROVE  \A j \in DOMAIN given : given[j].name = t.fields[j].name /\ given[j] = ordered[j]
<1> SUFFICES ASSUME NEW j \in DOMAIN given
             PROVE  given[j].name = t.fields[j].name /\ given[j] = ordered[j]
  OBVIOUS
<1>1. IsTable(t) /\ j \in DOMAIN t.fields /\ importable(t.fields[j].type) /\ IsSpec(given[j])
  BY DEF Ordering, AreGiven, importable_schema
<1>2. Alike(given[j], t.fields[j], unify_dictionaries(t, j))
  BY <1>1, FieldSpec
<1>3. given[j].name = t.fields[j].name
  BY <1>2 DEF Alike
<1> QED
  BY <1>1, <1>3, OrderedSpecs

\* Specs of which some got another fill.
Refilling(given, new) ==
  /\ DOMAIN new = DOMAIN given /\ new = [j \in DOMAIN new |-> new[j]]
  /\ \A j \in DOMAIN given :
       new[j] = given[j] \/ (\E f : MayHave(given[j], f) /\ new[j] = with_fill(given[j], f))

\* Another fill changes no name.
LEMMA RefilledNames ==
  ASSUME NEW t, NEW given, AreGiven(given, t), NEW new, Refilling(given, new)
  PROVE  /\ \A j \in DOMAIN given : IsSpec(new[j]) /\ new[j].name = given[j].name
         /\ [j \in DOMAIN new |-> new[j].name] = [j \in DOMAIN given |-> given[j].name]
         /\ {s.name : s \in Range(new)} = {s.name : s \in Range(given)}
         /\ names_fields(t, new) <=> names_fields(t, given)
<1>1. DOMAIN new = DOMAIN given /\ \A j \in DOMAIN given : IsSpec(given[j])
  BY DEF Refilling, AreGiven
<1>2. ASSUME NEW j \in DOMAIN given
      PROVE  IsSpec(new[j]) /\ new[j].name = given[j].name
  <2>1. CASE new[j] = given[j]
    BY <1>1, <2>1
  <2>2. CASE new[j] # given[j]
    <3>1. PICK f : MayHave(given[j], f) /\ new[j] = with_fill(given[j], f)
      BY <2>2 DEF Refilling
    <3> QED
      BY <1>1, <3>1, WithFill
  <2> QED
    BY <2>1, <2>2
<1>3. [j \in DOMAIN new |-> new[j].name] = [j \in DOMAIN given |-> given[j].name]
  BY <1>1, <1>2
<1>4. ASSUME NEW s \in Range(new) PROVE \E r \in Range(given) : r.name = s.name
  <2>1. PICK j \in DOMAIN given : new[j] = s
    BY <1>1 DEF Range
  <2>2. given[j] \in Range(given)
    BY DEF Range
  <2> QED
    BY <1>2, <2>1, <2>2
<1>5. ASSUME NEW r \in Range(given) PROVE \E s \in Range(new) : s.name = r.name
  <2>1. PICK j \in DOMAIN given : given[j] = r
    BY DEF Range
  <2>2. new[j] \in Range(new)
    BY <1>1 DEF Range
  <2> QED
    BY <1>2, <2>1, <2>2
<1>6. {s.name : s \in Range(new)} = {s.name : s \in Range(given)}
  <2>1. ASSUME NEW n \in {s.name : s \in Range(new)} PROVE n \in {s.name : s \in Range(given)}
    BY <1>4
  <2>2. ASSUME NEW n \in {s.name : s \in Range(given)} PROVE n \in {s.name : s \in Range(new)}
    BY <1>5
  <2> QED
    BY <2>1, <2>2
<1>7. names_fields(t, new) <=> names_fields(t, given)
  BY <1>6 DEF names_fields
<1> QED
  BY <1>2, <1>3, <1>6, <1>7

\* Specs with other fills are still specs for the table.
LEMMA RefilledGiven ==
  ASSUME NEW t, IsTable(t), NEW given, AreGiven(given, t), NEW new, Refilling(given, new)
  PROVE  /\ AreGiven(new, t)
         /\ importable_schema(t) /\ DOMAIN given = DOMAIN t.fields
              /\ (\A j \in DOMAIN given : FromField(given[j], t, j))
            => \A j \in DOMAIN new : FromField(new[j], t, j)
<1>1. /\ DOMAIN new = DOMAIN given /\ new = [j \in DOMAIN new |-> new[j]]
      /\ IsSeq(given) /\ \A j \in DOMAIN given : IsSpec(given[j])
      /\ IsInjective([j \in DOMAIN given |-> given[j].name])
      /\ names_fields(t, given) =>
           \A j \in DOMAIN given, i \in DOMAIN t.fields :
             given[j].name = t.fields[i].name => Fits(given[j], t.fields[i].type)
  BY DEF Refilling, AreGiven
<1>2. /\ \A j \in DOMAIN given : IsSpec(new[j]) /\ new[j].name = given[j].name
      /\ [j \in DOMAIN new |-> new[j].name] = [j \in DOMAIN given |-> given[j].name]
      /\ names_fields(t, new) <=> names_fields(t, given)
  BY RefilledNames
<1>3. IsSeq(new)
  <2>1. PICK m \in Nat : m = Len(given) /\ DOMAIN given = 1..m
    BY <1>1, SeqDomain
  <2>2. DOMAIN new = 1..m
    BY <1>1, <2>1
  <2> QED
    BY <1>1, <2>2, OneToN
<1>4. ASSUME names_fields(t, new), NEW j \in DOMAIN new, NEW i \in DOMAIN t.fields,
             new[j].name = t.fields[i].name
      PROVE  Fits(new[j], t.fields[i].type)
  <2>1. j \in DOMAIN given /\ IsSpec(given[j]) /\ Fits(given[j], t.fields[i].type)
    BY <1>1, <1>2, <1>4
  <2>2. CASE new[j] = given[j]
    BY <2>1, <2>2
  <2>3. CASE new[j] # given[j]
    <3>1. PICK f : MayHave(given[j], f) /\ new[j] = with_fill(given[j], f)
      BY <2>1, <2>3 DEF Refilling
    <3> QED
      BY <2>1, <3>1, FitsFilled
  <2> QED
    BY <2>2, <2>3
<1>5. AreGiven(new, t)
  BY <1>1, <1>2, <1>3, <1>4 DEF AreGiven
<1>6. ASSUME importable_schema(t), DOMAIN given = DOMAIN t.fields,
             \A j \in DOMAIN given : FromField(given[j], t, j), NEW j \in DOMAIN new
      PROVE  FromField(new[j], t, j)
  <2>1. j \in DOMAIN given /\ j \in DOMAIN t.fields /\ IsSpec(given[j]) /\ FromField(given[j], t, j)
        /\ importable(t.fields[j].type)
    BY <1>1, <1>6 DEF importable_schema
  <2>2. CASE new[j] = given[j]
    BY <2>1, <2>2
  <2>3. CASE new[j] # given[j]
    <3>1. PICK f : MayHave(given[j], f) /\ new[j] = with_fill(given[j], f)
      BY <2>1, <2>3 DEF Refilling
    <3> QED
      BY <2>1, <3>1, Refilled
  <2> QED
    BY <2>2, <2>3
<1> QED
  BY <1>5, <1>6

\* What the caller has after the fills of the first fields were chosen.
Filling(t, given, ordered, outcomes, upto, filled) ==
  /\ Ordering(t, given, ordered)
  /\ \A i \in DOMAIN ordered : outcomes[i] = checked(ordered[i], t, i)
  /\ filled = filled_in_place(given, ordered, outcomes, upto)

\* The specs that the caller is left with have their names and pass or fail the same checks.
LEMMA FilledInPlace ==
  ASSUME NEW t, NEW given, NEW ordered, NEW outcomes, NEW upto, NEW filled,
         Filling(t, given, ordered, outcomes, upto, filled)
  PROVE  /\ Refilling(given, filled)
         /\ \A j \in DOMAIN given, i \in DOMAIN t.fields : given[j].name = t.fields[i].name =>
              /\ checked(filled[j], t, i) = outcomes[i]
              /\ ~(i < upto) => filled[j] = ordered[i]
<1>1. /\ DOMAIN ordered = DOMAIN t.fields
      /\ \A i \in DOMAIN t.fields : IsSpec(ordered[i]) /\ Fits(ordered[i], t.fields[i].type)
                                    /\ ordered[i].name = t.fields[i].name
      /\ \A j \in DOMAIN given : \E i \in DOMAIN t.fields : given[j].name = t.fields[i].name
      /\ \A j \in DOMAIN given, i \in DOMAIN t.fields :
           given[j].name = t.fields[i].name => given[j] = ordered[i]
      /\ \A i \in DOMAIN t.fields, k \in DOMAIN t.fields : ordered[k].name = t.fields[i].name => k = i
  BY OrderedSpecs DEF Filling
<1>2. \A i \in DOMAIN ordered : outcomes[i] = checked(ordered[i], t, i)
  BY DEF Filling
<1>3. filled = [j \in DOMAIN given |->
                  LET i == CHOOSE i \in DOMAIN ordered : ordered[i].name = given[j].name
                  IN  IF given[j].kind = "list" /\ i < upto
                      THEN with_fill(given[j], outcomes[i].fill) ELSE given[j]]
  BY DEF Filling, filled_in_place
<1>4. ASSUME NEW j \in DOMAIN given, NEW i \in DOMAIN t.fields, given[j].name = t.fields[i].name
      PROVE  /\ filled[j] = IF given[j].kind = "list" /\ i < upto
                            THEN with_fill(given[j], outcomes[i].fill) ELSE given[j]
             /\ given[j] = ordered[i] /\ MayHave(given[j], outcomes[i].fill)
             /\ checked(filled[j], t, i) = outcomes[i]
  <2>1. i = CHOOSE k \in DOMAIN ordered : ordered[k].name = given[j].name
    <3>1. i \in DOMAIN ordered /\ ordered[i].name = given[j].name
      BY <1>1, <1>4
    <3>2. \A k \in DOMAIN ordered : ordered[k].name = given[j].name => k = i
      BY <1>1, <1>4
    <3> QED
      BY <3>1, <3>2
  <2>2. filled[j] = IF given[j].kind = "list" /\ i < upto
                    THEN with_fill(given[j], outcomes[i].fill) ELSE given[j]
    BY <1>3, <2>1
  <2>3. given[j] = ordered[i] /\ outcomes[i] = checked(ordered[i], t, i)
        /\ IsSpec(ordered[i]) /\ Fits(ordered[i], t.fields[i].type)
    BY <1>1, <1>2, <1>4
  <2>4. PICK out : out = outcomes[i]
    OBVIOUS
  <2>5. PICK w : w = with_fill(ordered[i], out.fill)
    OBVIOUS
  <2>6. MayHave(ordered[i], out.fill) /\ checked(w, t, i) = out
    BY <2>3, <2>4, <2>5, CheckedFill
  <2>7. checked(filled[j], t, i) = outcomes[i]
    BY <2>2, <2>3, <2>4, <2>5, <2>6
  <2> QED
    BY <2>2, <2>3, <2>4, <2>6, <2>7
<1>5. Refilling(given, filled)
  <2>1. DOMAIN filled = DOMAIN given /\ filled = [j \in DOMAIN filled |-> filled[j]]
    BY <1>3
  <2>2. ASSUME NEW j \in DOMAIN given
        PROVE  filled[j] = given[j] \/ (\E f : MayHave(given[j], f) /\ filled[j] = with_fill(given[j], f))
    <3>1. PICK i \in DOMAIN t.fields : given[j].name = t.fields[i].name
      BY <1>1
    <3> QED
      BY <1>4, <3>1
  <2> QED
    BY <2>1, <2>2 DEF Refilling
<1>6. ASSUME NEW j \in DOMAIN given, NEW i \in DOMAIN t.fields, given[j].name = t.fields[i].name
      PROVE  ~(i < upto) => filled[j] = ordered[i]
  BY <1>4, <1>6
<1> QED
  BY <1>4, <1>5, <1>6

\* A spec that passes its check is ready with the fill it got.
LEMMA ReadySpec ==
  ASSUME NEW t, NEW given, NEW ordered, Ordering(t, given, ordered), NEW i \in DOMAIN t.fields,
         NEW out, out = checked(ordered[i], t, i), out.reason = "none",
         NEW w, w = with_fill(ordered[i], out.fill)
  PROVE  /\ Ready(w, t, i)
         /\ importable(t.fields[i].type) /\ FromField(ordered[i], t, i) => FromField(w, t, i)
<1>1. IsSpec(ordered[i]) /\ Fits(ordered[i], t.fields[i].type) /\ ordered[i].name = t.fields[i].name
  BY OrderedSpecs
<1>2. MayHave(ordered[i], out.fill) /\ Filled(w) /\ Fits(w, t.fields[i].type) /\ checked(w, t, i) = out
  BY <1>1, CheckedFill
<1>3. IsSpec(w) /\ w.name = t.fields[i].name
  BY <1>1, <1>2, WithFill
<1>4. IsTable(t)
  BY DEF Ordering
<1> QED
  BY <1>1, <1>2, <1>3, <1>4, Refilled DEF Ready

-----------------------------------------------------------------------------
(* Steps that leave a part of the state alone.                             *)

\* A step that leaves the import alone leaves what is known of it.
LEMMA SourceKept ==
  ASSUME SourceFits, UNCHANGED <<source, supplied, copies, origin>>, pc' \notin {"arrow", "arrays"}
  PROVE  SourceFits'
BY DEF SourceFits, FromArrays

\* A refusal that names no fill, or another step, leaves the suggestions as they are.
LEMMA SuggestionKept ==
  ASSUME SuggestionFits, UNCHANGED <<source, supplied, taken>>,
         pc' # "refused" \/ why'.reason # "collision"
  PROVE  SuggestionFits'
<1>1. Given(source)' = Given(source) /\ Columns' = Columns
  BY DEF Given, Columns
<1> QED
  BY <1>1 DEF SuggestionFits

\* A step to a state without a table.
LEMMA NotOpened ==
  ASSUME pc' \notin Opened, file' = NoTable, written' = 0
  PROVE  FileFits' /\ RefusedUntouched'
BY DEF FileFits, RefusedUntouched, Opened

\* The caller's specs, or those inferred for a schema that can be imported.
LEMMA GivenUsable ==
  ASSUME SourceFits, supplied = NoSpecs => importable_schema(source), NEW given, given = Given(source)
  PROVE  /\ AreGiven(given, source)
         /\ supplied = NoSpecs =>
              /\ names_fields(source, given) /\ in_field_order(source, given) = given
              /\ DOMAIN given = Columns /\ \A i \in Columns : given[i] = spec_from_field(source, i)
         /\ supplied # NoSpecs => given = supplied[1]
         /\ copies > 0 =>
              /\ importable_schema(source) /\ DOMAIN given = Columns
              /\ \A j \in DOMAIN given : FromField(given[j], source, j)
<1>1. IsTable(source)
  BY DEF SourceFits
<1>2. CASE supplied = NoSpecs
  <2>1. given = specs_from_arrow(source) /\ importable_schema(source)
    BY <1>2 DEF Given
  <2>2. /\ AreGiven(given, source) /\ names_fields(source, given)
        /\ in_field_order(source, given) = given /\ DOMAIN given = DOMAIN source.fields
        /\ \A i \in DOMAIN source.fields :
             given[i] = spec_from_field(source, i) /\ FromField(given[i], source, i)
    BY <1>1, <2>1, InferredGiven
  <2> QED
    BY <1>2, <2>1, <2>2 DEF Columns
<1>3. CASE supplied # NoSpecs
  <2>1. given = supplied[1]
    BY <1>3 DEF Given
  <2> QED
    BY <1>3, <2>1 DEF SourceFits, Columns
<1> QED
  BY <1>2, <1>3

-----------------------------------------------------------------------------
(* Choosing the fills.                                                     *)

Preparing(t, given, ordered, outcomes, bad, upto) ==
  /\ Ordering(t, given, ordered)
  /\ outcomes = [i \in DOMAIN ordered |-> checked(ordered[i], t, i)]
  /\ bad = {i \in DOMAIN ordered : outcomes[i].reason # "none"}
  /\ upto = Min(bad \cup {Len(ordered) + 1})

\* The field that is refused is the first that no fill was found for.
LEMMA FirstBad ==
  ASSUME NEW t, NEW given, NEW ordered, NEW outcomes, NEW bad, NEW upto,
         Preparing(t, given, ordered, outcomes, bad, upto)
  PROVE  /\ DOMAIN ordered = DOMAIN t.fields /\ upto \in Int
         /\ \A i \in DOMAIN ordered : outcomes[i] = checked(ordered[i], t, i)
         /\ bad # {} => upto \in DOMAIN t.fields /\ outcomes[upto].reason # "none"
<1>1. Ordering(t, given, ordered) /\ outcomes = [i \in DOMAIN ordered |-> checked(ordered[i], t, i)]
      /\ bad = {i \in DOMAIN ordered : outcomes[i].reason # "none"}
      /\ upto = Min(bad \cup {Len(ordered) + 1})
  BY DEF Preparing
<1>2. IsSeq(ordered) /\ DOMAIN ordered = DOMAIN t.fields
  BY <1>1, OrderedSpecs
<1>3. PICK n \in Nat : n = Len(ordered) /\ DOMAIN ordered = 1..n
  BY <1>2, SeqDomain
<1>4. PICK T : T = bad \cup {n + 1}
  OBVIOUS
<1>5. T \subseteq 1..(n + 1)
  BY <1>1, <1>3, <1>4
<1>6. IsFiniteSet(T)
  <2>1. IsFiniteSet(1..(n + 1))
    <3>1. 1 \in Int /\ n + 1 \in Int
      OBVIOUS
    <3> QED
      BY <3>1, FS_Interval
  <2> QED
    BY <1>5, <2>1, FS_Subset
<1>7. T # {} /\ T \subseteq Int
  BY <1>4, <1>5
<1>8. \E x \in T : \A y \in T : x <= y
  BY <1>6, <1>7, Extremes
<1>9. upto \in T /\ \A y \in T : upto <= y
  <2>1. upto = Min(T)
    BY <1>1, <1>3, <1>4
  <2> QED
    BY <1>8, <2>1 DEF Min
<1>10. ASSUME bad # {} PROVE upto \in bad
  <2>1. PICK b : b \in bad
    BY <1>10
  <2>2. b \in 1..n /\ b \in T
    BY <1>1, <1>3, <1>4, <2>1
  <2>3. upto <= b
    BY <1>9, <2>2
  <2>4. upto # n + 1
    BY <1>3, <2>2, <2>3
  <2> QED
    BY <1>4, <1>9, <2>4
<1>11. upto \in Int
  BY <1>5, <1>9
<1> QED
  BY <1>1, <1>2, <1>10, <1>11

\* Specs that are given are not NoSpecs.
LEMMA OneOf ==
  ASSUME NEW x
  PROVE  <<x>> # NoSpecs /\ <<x>>[1] = x
BY DEF NoSpecs

\* A caller's specs with other fills.
LEMMA SourceRefilled ==
  ASSUME SourceFits, supplied = NoSpecs => importable_schema(source),
         NEW new, Refilling(Given(source), new),
         supplied' = <<new>>, origin' = "specs", UNCHANGED <<source, copies>>, pc' # "arrays"
  PROVE  SourceFits' /\ Given(source)' = new
<1>1. PICK given : given = Given(source)
  OBVIOUS
<1>2. /\ IsTable(source) /\ AreGiven(given, source)
      /\ copies > 0 => /\ importable_schema(source) /\ DOMAIN given = Columns
                       /\ \A j \in DOMAIN given : FromField(given[j], source, j)
  BY <1>1, GivenUsable DEF SourceFits
<1>3. Refilling(given, new)
  BY <1>1
<1>4. AreGiven(new, source)
  BY <1>2, <1>3, RefilledGiven
<1>5. copies > 0 => \A j \in DOMAIN new : FromField(new[j], source, j)
  BY <1>2, <1>3, RefilledGiven DEF Columns
<1>6. DOMAIN new = DOMAIN given
  BY <1>3 DEF Refilling
<1>7. supplied' # NoSpecs /\ supplied'[1] = new /\ supplied' = <<supplied'[1]>>
  BY OneOf
<1>8. Given(source)' = new
  BY <1>7 DEF Given
<1>9. ~FromArrays'
  BY DEF FromArrays
<1>10. /\ copies \in Nat /\ (copies > 0 => IsExport(source))
  BY DEF SourceFits
<1>11. copies > 0 => importable_schema(source) /\ DOMAIN new = DOMAIN source.fields
  BY <1>2, <1>6 DEF Columns
<1> QED
  BY <1>2, <1>4, <1>5, <1>7, <1>8, <1>9, <1>10, <1>11 DEF SourceFits

\* In every step that chooses fills.
LEMMA FillsPrepared ==
  ASSUME SourceFits, SuggestionFits, supplied = NoSpecs => importable_schema(source),
         NEW given, given = Given(source), names_fields(source, given),
         NEW ordered, ordered = in_field_order(source, given),
         NEW outcomes, NEW bad, NEW upto, Preparing(source, given, ordered, outcomes, bad, upto),
         supplied' = IF supplied = NoSpecs THEN NoSpecs
                     ELSE <<filled_in_place(supplied[1], ordered, outcomes, upto)>>,
         UNCHANGED <<source, copies, origin, taken>>, pc' \notin {"arrow", "arrays"}
  PROVE  /\ SourceFits'
         /\ names_fields(source, Given(source)')
         /\ \A c \in taken :
              /\ supplied' # NoSpecs /\ c \in Columns /\ outcomes[c].reason \notin Refusals
              /\ \A spec \in Range(Given(source)') :
                   spec.name = names(source)[c] => checked(spec, source, c).reason \notin Refusals
         /\ \A spec \in Range(Given(source)'), c \in Columns :
              spec.name = names(source)[c] /\ ~(c < upto) => spec = ordered[c]
<1>1. IsTable(source) /\ AreGiven(given, source) /\ Ordering(source, given, ordered)
  BY GivenUsable DEF SourceFits, Ordering
<1>2. \A i \in Columns : outcomes[i] = checked(ordered[i], source, i)
      /\ ordered[i] \in Range(given) /\ ordered[i].name = source.fields[i].name
  BY <1>1, FirstBad, OrderedSpecs DEF Columns
<1>3. \A c \in taken : /\ supplied # NoSpecs /\ c \in Columns
                       /\ \A spec \in Range(given) :
                            spec.name = names(source)[c] => checked(spec, source, c).reason \notin Refusals
  BY DEF SuggestionFits
<1>4. \A i \in Columns : names(source)[i] = source.fields[i].name
  BY DEF names, Columns
<1>5. ASSUME NEW c \in taken PROVE outcomes[c].reason \notin Refusals
  BY <1>2, <1>3, <1>4
<1>6. CASE supplied = NoSpecs
  <2>1. supplied' = supplied /\ Given(source)' = given
    BY <1>6 DEF Given
  <2>2. SourceFits'
    BY <2>1, SourceKept
  <2>3. taken = {}
    BY <1>3, <1>6
  <2>4. ASSUME NEW spec \in Range(given), NEW c \in Columns, spec.name = names(source)[c]
        PROVE  spec = ordered[c]
    <3>1. PICK j \in DOMAIN given : given[j] = spec
      BY DEF Range
    <3> QED
      BY <1>1, <1>4, <2>4, <3>1, OrderedSpecs DEF Columns
  <2> QED
    BY <2>1, <2>2, <2>3, <2>4
<1>7. CASE supplied # NoSpecs
  <2>1. PICK filled : filled = filled_in_place(given, ordered, outcomes, upto)
    OBVIOUS
  <2>2. given = supplied[1] /\ origin = "specs"
    BY <1>7 DEF Given, SourceFits
  <2>3. Filling(source, given, ordered, outcomes, upto, filled)
    BY <1>1, <1>2, <2>1, FirstBad DEF Filling, Columns
  <2>4. /\ Refilling(given, filled)
        /\ \A j \in DOMAIN given, i \in DOMAIN source.fields : given[j].name = source.fields[i].name =>
             /\ checked(filled[j], source, i) = outcomes[i]
             /\ ~(i < upto) => filled[j] = ordered[i]
    BY <2>3, FilledInPlace
  <2>5. supplied' = <<filled>> /\ origin' = "specs" /\ supplied' # NoSpecs
    BY <1>7, <2>1, <2>2, OneOf
  <2>6. SourceFits' /\ Given(source)' = filled
    BY <1>7, <2>4, <2>5, SourceRefilled
  <2>7. names_fields(source, filled)
        /\ \A j \in DOMAIN given : filled[j].name = given[j].name
    BY <1>1, <2>4, RefilledNames
  <2>8. ASSUME NEW spec \in Range(filled), NEW c \in Columns, spec.name = names(source)[c]
        PROVE  checked(spec, source, c) = outcomes[c] /\ (~(c < upto) => spec = ordered[c])
    <3>1. DOMAIN filled = DOMAIN given
      BY <2>4 DEF Refilling
    <3>2. PICK j \in DOMAIN given : filled[j] = spec
      BY <3>1 DEF Range
    <3>3. given[j].name = source.fields[c].name /\ c \in DOMAIN source.fields
      BY <1>4, <2>7, <2>8, <3>2 DEF Columns
    <3> QED
      BY <2>4, <3>2, <3>3
  <2> QED
    BY <1>3, <1>5, <2>5, <2>6, <2>7, <2>8
<1> QED
  BY <1>6, <1>7

\* The specs that prepared_specs leaves are ready for the table.
LEMMA PreparedReady ==
  ASSUME SourceFits, supplied = NoSpecs => importable_schema(source),
         NEW given, given = Given(source), names_fields(source, given),
         NEW ordered, ordered = in_field_order(source, given),
         NEW outcomes, NEW bad, NEW upto, Preparing(source, given, ordered, outcomes, bad, upto), bad = {},
         NEW ready, ready = [i \in DOMAIN ordered |-> with_fill(ordered[i], outcomes[i].fill)]
  PROVE  /\ IsSeq(ready) /\ DOMAIN ready = Columns
         /\ \A i \in Columns : Ready(ready[i], source, i)
         /\ supplied = NoSpecs =>
              importable_schema(source) /\ \A i \in Columns : ready[i] = Inferred(source, i)
         /\ copies > 0 =>
              importable_schema(source) /\ \A i \in Columns : FromField(ready[i], source, i)
<1>1. /\ AreGiven(given, source)
      /\ supplied = NoSpecs =>
           /\ in_field_order(source, given) = given
           /\ DOMAIN given = Columns /\ \A i \in Columns : given[i] = spec_from_field(source, i)
      /\ copies > 0 => /\ importable_schema(source) /\ DOMAIN given = Columns
                       /\ \A j \in DOMAIN given : FromField(given[j], source, j)
  BY GivenUsable
<1>2. Ordering(source, given, ordered)
  BY DEF Preparing
<1>3. DOMAIN ordered = Columns /\ IsSeq(ordered)
  BY <1>2, OrderedSpecs DEF Columns
<1>4. \A i \in Columns : outcomes[i] = checked(ordered[i], source, i) /\ outcomes[i].reason = "none"
  BY <1>3, FirstBad DEF Preparing
<1>5. IsSeq(ready) /\ DOMAIN ready = Columns
  <2>1. PICK m \in Nat : m = Len(ordered) /\ DOMAIN ordered = 1..m
    BY <1>3, SeqDomain
  <2>2. DOMAIN ready = 1..m /\ ready = [i \in DOMAIN ready |-> ready[i]]
    BY <2>1
  <2> QED
    BY <1>3, <2>1, <2>2, OneToN
<1>6. \A i \in Columns : ready[i] = with_fill(ordered[i], outcomes[i].fill)
  BY <1>3
<1>7. ASSUME NEW i \in Columns
      PROVE  /\ Ready(ready[i], source, i)
             /\ importable(source.fields[i].type) /\ FromField(ordered[i], source, i)
                  => FromField(ready[i], source, i)
  <2>1. PICK out : out = outcomes[i]
    OBVIOUS
  <2>2. PICK w : w = ready[i]
    OBVIOUS
  <2>3. i \in DOMAIN source.fields /\ out = checked(ordered[i], source, i) /\ out.reason = "none"
        /\ w = with_fill(ordered[i], out.fill)
    BY <1>4, <1>6, <2>1, <2>2 DEF Columns
  <2> QED
    BY <1>2, <2>2, <2>3, ReadySpec
<1>8. ASSUME supplied = NoSpecs, NEW i \in Columns PROVE ready[i] = Inferred(source, i)
  <2>1. ordered[i] = spec_from_field(source, i)
    BY <1>1, <1>8
  <2> QED
    BY <1>4, <1>6, <2>1 DEF Inferred
<1>9. ASSUME copies > 0, NEW i \in Columns PROVE FromField(ready[i], source, i)
  <2>1. importable_schema(source) /\ DOMAIN given = DOMAIN source.fields
        /\ (\A j \in DOMAIN given : FromField(given[j], source, j)) /\ i \in DOMAIN given
    BY <1>1, <1>9 DEF Columns
  <2>2. given[i] = ordered[i]
    BY <1>2, <2>1, FromFieldsGiven
  <2>3. importable(source.fields[i].type)
    BY <2>1 DEF importable_schema
  <2> QED
    BY <1>7, <2>1, <2>2, <2>3
<1> QED
  BY <1>1, <1>5, <1>7, <1>8, <1>9

\* prepared_specs: the schema is refused, or a fill is, or the specs are ready.
LEMMA PrepareKeeps ==
  ASSUME ArrowInv, prepared_specs
  PROVE  ArrowInv'
<1>1. /\ SourceFits /\ FileFits /\ SuggestionFits /\ pc = "arrow" /\ file = NoTable /\ written = 0
      /\ UNCHANGED <<source, file, written, taken, copies, origin>>
  BY DEF ArrowInv, FileFits, Opened, prepared_specs
<1>2. PICK given : given = Given(source)
  OBVIOUS
<1>3. CASE ~((supplied = NoSpecs => importable_schema(source)) /\ names_fields(source, given))
  <2>1. pc' = "refused" /\ why'.reason = "schema" /\ UNCHANGED <<supplied, specs>>
    BY <1>2, <1>3 DEF prepared_specs, Fine
  <2>2. SourceFits' /\ SuggestionFits'
    BY <1>1, <2>1, SourceKept, SuggestionKept
  <2>3. FileFits' /\ RefusedUntouched'
    BY <1>1, <2>1, NotOpened DEF Opened
  <2>4. SpecsFit'
    BY <2>1 DEF SpecsFit, Opened
  <2>5. SuggestionHolds'
    BY <2>1 DEF SuggestionHolds
  <2>6. ImportsAgain'
    <3>1. SUFFICES ASSUME copies > 0, origin # "specs" PROVE FALSE
      BY <1>1 DEF ImportsAgain
    <3>2. supplied = NoSpecs /\ importable_schema(source)
      BY <1>1, <3>1 DEF SourceFits, Importable
    <3>3. names_fields(source, given)
      BY <1>1, <1>2, <3>2, GivenUsable
    <3> QED
      BY <1>3, <3>2, <3>3
  <2> QED
    BY <2>2, <2>3, <2>4, <2>5, <2>6 DEF ArrowInv
<1>4. CASE (supplied = NoSpecs => importable_schema(source)) /\ names_fields(source, given)
  <2>1. PICK ordered : ordered = in_field_order(source, given)
    OBVIOUS
  <2>2. PICK outcomes : outcomes = [i \in DOMAIN ordered |-> checked(ordered[i], source, i)]
    OBVIOUS
  <2>3. PICK bad : bad = {i \in DOMAIN ordered : outcomes[i].reason # "none"}
    OBVIOUS
  <2>4. PICK upto : upto = Min(bad \cup {Len(ordered) + 1})
    OBVIOUS
  <2>5. IsTable(source) /\ AreGiven(given, source)
    BY <1>1, <1>2, <1>4, GivenUsable DEF SourceFits
  <2>6. Preparing(source, given, ordered, outcomes, bad, upto)
    BY <1>4, <2>1, <2>2, <2>3, <2>4, <2>5 DEF Preparing, Ordering
  <2>7. /\ supplied' = IF supplied = NoSpecs THEN NoSpecs
                       ELSE <<filled_in_place(supplied[1], ordered, outcomes, upto)>>
        /\ IF bad = {}
           THEN /\ specs' = [i \in DOMAIN ordered |-> with_fill(ordered[i], outcomes[i].fill)]
                /\ pc' = "create" /\ UNCHANGED why
           ELSE /\ pc' = "refused" /\ UNCHANGED specs
                /\ why' = [reason |-> outcomes[upto].reason, column |-> upto,
                           suggestion |-> outcomes[upto].suggestion]
    BY <1>2, <1>4, <2>1, <2>2, <2>3, <2>4 DEF prepared_specs
  <2>8. /\ SourceFits'
        /\ names_fields(source, Given(source)')
        /\ \A c \in taken :
             /\ supplied' # NoSpecs /\ c \in Columns /\ outcomes[c].reason \notin Refusals
             /\ \A spec \in Range(Given(source)') :
                  spec.name = names(source)[c] => checked(spec, source, c).reason \notin Refusals
        /\ \A spec \in Range(Given(source)'), c \in Columns :
             spec.name = names(source)[c] /\ ~(c < upto) => spec = ordered[c]
    <3>1. pc' \notin {"arrow", "arrays"} /\ UNCHANGED <<source, copies, origin, taken>>
      BY <1>1, <2>7
    <3>2. supplied' = IF supplied = NoSpecs THEN NoSpecs
                      ELSE <<filled_in_place(supplied[1], ordered, outcomes, upto)>>
      BY <2>7
    <3> QED
      BY <1>1, <1>2, <1>4, <2>1, <2>6, <3>1, <3>2, FillsPrepared
  <2>9. FileFits' /\ RefusedUntouched'
    BY <1>1, <2>7, NotOpened DEF Opened
  <2>10. Columns' = Columns
    BY <1>1 DEF Columns
  <2>11. \A c \in taken' :
           /\ supplied' # NoSpecs /\ names_fields(source, Given(source)') /\ c \in Columns
           /\ \A spec \in Range(Given(source)') :
                spec.name = names(source)[c] => checked(spec, source, c).reason \notin Refusals
    BY <1>1, <2>8
  <2>12. CASE bad = {}
    <3>1. pc' = "create"
      BY <2>7, <2>12
    <3>2. PICK ready : ready = [i \in DOMAIN ordered |-> with_fill(ordered[i], outcomes[i].fill)]
      OBVIOUS
    <3>3. specs' = ready
      BY <2>7, <2>12, <3>2
    <3>4. /\ IsSeq(ready) /\ DOMAIN ready = Columns
          /\ \A i \in Columns : Ready(ready[i], source, i)
          /\ supplied = NoSpecs =>
               importable_schema(source) /\ \A i \in Columns : ready[i] = Inferred(source, i)
          /\ copies > 0 =>
               importable_schema(source) /\ \A i \in Columns : FromField(ready[i], source, i)
      BY <1>1, <1>2, <1>4, <2>1, <2>6, <2>12, <3>2, PreparedReady
    <3>5. ~FromArrays' /\ (supplied' = NoSpecs <=> supplied = NoSpecs)
      <4>1. ~FromArrays
        BY <1>1 DEF SourceFits
      <4> QED
        BY <1>1, <2>7, <4>1, OneOf DEF FromArrays
    <3>6. SpecsFit'
      BY <1>1, <2>10, <3>3, <3>4, <3>5 DEF SpecsFit
    <3>7. SuggestionFits'
      BY <1>1, <2>10, <2>11, <3>1 DEF SuggestionFits
    <3>8. ImportsAgain' /\ SuggestionHolds'
      BY <3>1 DEF ImportsAgain, SuggestionHolds
    <3> QED
      BY <2>8, <2>9, <3>6, <3>7, <3>8 DEF ArrowInv
  <2>13. CASE bad # {}
    <3>1. pc' = "refused" /\ why'.reason = outcomes[upto].reason /\ why'.column = upto
          /\ why'.suggestion = outcomes[upto].suggestion
      BY <2>7, <2>13
    <3>2. upto \in Columns /\ outcomes[upto] = checked(ordered[upto], source, upto)
          /\ outcomes[upto].reason # "none" /\ upto \in Int
      BY <2>6, <2>13, FirstBad DEF Columns
    <3>3. SpecsFit'
      BY <3>1 DEF SpecsFit, Opened
    <3>4. SuggestionHolds'
      <4>1. upto \in taken => outcomes[upto].reason \notin Refusals
        BY <2>8
      <4> QED
        BY <1>1, <3>1, <4>1 DEF SuggestionHolds, Refusals
    <3>5. ImportsAgain'
      <4>1. SUFFICES ASSUME copies > 0, origin # "specs" PROVE FALSE
        BY <1>1 DEF ImportsAgain
      <4>2. supplied = NoSpecs /\ Importable(source)
        BY <1>1, <4>1 DEF SourceFits
      <4>3. ordered = given /\ given[upto] = spec_from_field(source, upto)
        BY <1>1, <1>2, <1>4, <2>1, <3>2, <4>2, GivenUsable
      <4>4. checked(spec_from_field(source, upto), source, upto).reason = "none"
        BY <3>2, <4>2 DEF Importable, Columns
      <4> QED
        BY <3>2, <4>3, <4>4
    <3>6. ASSUME why'.reason = "collision", why'.suggestion # NoFill,
                 NEW spec \in Range(Given(source)'), spec.name = names(source)[why'.column]
          PROVE  LET filled == with_fill(spec, why'.suggestion)
                 IN  IsSpec(filled) /\ checked(filled, source, why'.column).reason \notin Refusals
      <4>1. spec = ordered[upto]
        BY <2>8, <3>1, <3>2, <3>6
      <4>2. IsSpec(ordered[upto])
        <5>1. Ordering(source, given, ordered)
          BY <2>6 DEF Preparing
        <5> QED
          BY <3>2, <5>1, OrderedSpecs DEF Columns
      <4>3. PICK out : out = outcomes[upto]
        OBVIOUS
      <4>4. PICK w : w = with_fill(spec, out.suggestion)
        OBVIOUS
      <4>5. IsSpec(w) /\ checked(w, source, upto).reason \notin Refusals
        BY <3>1, <3>2, <3>6, <4>1, <4>2, <4>3, <4>4, Suggested
      <4> QED
        BY <3>1, <4>3, <4>4, <4>5
    <3>7. supplied' = NoSpecs => importable_schema(source)
      BY <1>4, <2>7, OneOf
    <3>8. SuggestionFits'
      BY <1>1, <2>8, <2>10, <2>11, <3>1, <3>2, <3>6, <3>7 DEF SuggestionFits
    <3> QED
      BY <2>8, <2>9, <3>3, <3>4, <3>5, <3>8 DEF ArrowInv
  <2> QED
    BY <2>12, <2>13
<1> QED
  BY <1>3, <1>4

\* The caller's specs with a suggested fill for one column.
Suggesting(t, given, c, fill) ==
  [j \in DOMAIN given |->
     LET spec == given[j]
     IN  IF spec.name = names(t)[c] THEN with_fill(spec, fill) ELSE spec]

\* Taking a suggestion is giving another fill.
LEMMA SuggestedRefills ==
  ASSUME NEW t, IsTable(t), NEW given, AreGiven(given, t), NEW c, NEW fill,
         \A spec \in Range(given) : spec.name = names(t)[c] => IsSpec(with_fill(spec, fill)),
         NEW new, new = Suggesting(t, given, c, fill)
  PROVE  /\ Refilling(given, new)
         /\ \A j \in DOMAIN given :
              /\ new[j].name = given[j].name /\ given[j] \in Range(given)
              /\ given[j].name = names(t)[c] => new[j] = with_fill(given[j], fill)
              /\ given[j].name # names(t)[c] => new[j] = given[j]
<1>1. \A j \in DOMAIN given : IsSpec(given[j]) /\ given[j] \in Range(given)
  BY DEF AreGiven, Range
<1>2. DOMAIN new = DOMAIN given /\ new = [j \in DOMAIN new |-> new[j]]
      /\ \A j \in DOMAIN given :
           new[j] = IF given[j].name = names(t)[c] THEN with_fill(given[j], fill) ELSE given[j]
  BY DEF Suggesting
<1>3. ASSUME NEW j \in DOMAIN given
      PROVE  new[j] = given[j] \/ (\E f : MayHave(given[j], f) /\ new[j] = with_fill(given[j], f))
  <2>1. CASE given[j].name = names(t)[c]
    <3>1. PICK w : w = with_fill(given[j], fill)
      OBVIOUS
    <3>2. IsSpec(given[j]) /\ IsSpec(w)
      BY <1>1, <2>1, <3>1
    <3>3. MayHave(given[j], fill)
      BY <3>1, <3>2, FillsAlike
    <3> QED
      BY <1>2, <2>1, <3>3
  <2>2. CASE given[j].name # names(t)[c]
    BY <1>2, <2>2
  <2> QED
    BY <2>1, <2>2
<1>4. Refilling(given, new)
  BY <1>2, <1>3 DEF Refilling
<1>5. \A j \in DOMAIN given : new[j].name = given[j].name
  BY <1>4, RefilledNames
<1> QED
  BY <1>1, <1>2, <1>4, <1>5

\* TakeSuggestion: the column is not refused again for its fill.
LEMMA TakeKeeps ==
  ASSUME ArrowInv, TakeSuggestion
  PROVE  ArrowInv'
<1>1. /\ SourceFits /\ FileFits /\ SuggestionFits
      /\ pc = "refused" /\ why.reason = "collision" /\ why.suggestion # NoFill
      /\ pc' = "arrow" /\ taken' = taken \cup {why.column} /\ origin' = "specs"
      /\ UNCHANGED <<source, specs, file, written, copies>>
  BY DEF ArrowInv, TakeSuggestion
<1>2. PICK given : given = Given(source)
  OBVIOUS
<1>3. PICK c : c = why.column
  OBVIOUS
<1>4. PICK fill : fill = why.suggestion
  OBVIOUS
<1>5. PICK new : new = Suggesting(source, given, c, fill)
  OBVIOUS
<1>6. supplied' = <<new>>
  BY <1>2, <1>3, <1>4, <1>5 DEF TakeSuggestion, Suggesting
<1>7. /\ supplied = NoSpecs => importable_schema(source)
      /\ names_fields(source, given) /\ c \in Columns
      /\ \A spec \in Range(given) : spec.name = names(source)[c] =>
           IsSpec(with_fill(spec, fill)) /\ checked(with_fill(spec, fill), source, c).reason \notin Refusals
  BY <1>1, <1>2, <1>3, <1>4 DEF SuggestionFits
<1>8. /\ IsTable(source) /\ AreGiven(given, source)
      /\ file = NoTable /\ written = 0
  BY <1>1, <1>2, <1>7, GivenUsable DEF SourceFits, FileFits, Opened
<1>9. /\ Refilling(given, new)
      /\ \A j \in DOMAIN given :
           /\ new[j].name = given[j].name /\ given[j] \in Range(given)
           /\ given[j].name = names(source)[c] => new[j] = with_fill(given[j], fill)
           /\ given[j].name # names(source)[c] => new[j] = given[j]
  <2>1. \A spec \in Range(given) : spec.name = names(source)[c] => IsSpec(with_fill(spec, fill))
    BY <1>7
  <2> QED
    BY <1>5, <1>8, <2>1, SuggestedRefills
<1>10. SourceFits' /\ Given(source)' = new
  <2>1. Refilling(Given(source), new) /\ pc' # "arrays" /\ UNCHANGED <<source, copies>>
    BY <1>1, <1>2, <1>9
  <2> QED
    BY <1>1, <1>6, <1>7, <2>1, SourceRefilled
<1>11. names_fields(source, new)
  BY <1>7, <1>8, <1>9, RefilledNames
<1>12. \A k \in Columns, m \in Columns : names(source)[k] = names(source)[m] => k = m
  <2>1. IsInjective(names(source)) /\ DOMAIN names(source) = Columns
    BY <1>7 DEF names_fields, names, Columns
  <2> QED
    BY <2>1 DEF IsInjective
<1>13. ASSUME NEW k \in taken', NEW spec \in Range(new), spec.name = names(source)[k]
       PROVE  checked(spec, source, k).reason \notin Refusals
  <2>1. DOMAIN new = DOMAIN given
    BY <1>9 DEF Refilling
  <2>2. PICK j \in DOMAIN given : new[j] = spec
    BY <2>1 DEF Range
  <2>3. given[j].name = names(source)[k]
    BY <1>9, <1>13, <2>2
  <2>4. CASE k = c
    BY <1>7, <1>9, <2>2, <2>3, <2>4
  <2>5. CASE k # c
    <3>1. k \in taken /\ k \in Columns
      BY <1>1, <1>3, <2>5 DEF SuggestionFits
    <3>2. new[j] = given[j]
      BY <1>7, <1>9, <1>12, <2>3, <2>5, <3>1
    <3> QED
      BY <1>1, <1>2, <1>9, <2>2, <2>3, <3>1, <3>2 DEF SuggestionFits
  <2> QED
    BY <2>4, <2>5
<1>14. SuggestionFits'
  <2>1. \A k \in taken' : k \in Columns
    BY <1>1, <1>3, <1>7 DEF SuggestionFits
  <2>2. supplied' # NoSpecs /\ Columns' = Columns
    BY <1>1, <1>6, OneOf DEF Columns
  <2> QED
    BY <1>1, <1>10, <1>11, <1>13, <2>1, <2>2 DEF SuggestionFits
<1>15. FileFits' /\ RefusedUntouched'
  BY <1>1, <1>8, NotOpened DEF Opened
<1>16. SpecsFit' /\ ImportsAgain' /\ SuggestionHolds'
  BY <1>1 DEF SpecsFit, Opened, ImportsAgain, SuggestionHolds
<1> QED
  BY <1>10, <1>14, <1>15, <1>16 DEF ArrowInv

-----------------------------------------------------------------------------
(* Creating the table.                                                     *)

\* from_arrays: a spec for each array.
LEMMA ArraysKeep ==
  ASSUME ArrowInv, from_arrays
  PROVE  ArrowInv'
<1>1. /\ SourceFits /\ FileFits /\ SuggestionFits /\ pc = "arrays" /\ pc' = "create"
      /\ specs' = [i \in DOMAIN source.fields |-> infer_column_spec(source, i)]
      /\ UNCHANGED <<source, supplied, file, written, why, taken, copies, origin>>
  BY DEF ArrowInv, from_arrays
<1>2. SourceFits' /\ SuggestionFits'
  BY <1>1, SourceKept, SuggestionKept
<1>3. FileFits' /\ RefusedUntouched'
  <2>1. file = NoTable /\ written = 0
    BY <1>1 DEF FileFits, Opened
  <2> QED
    BY <1>1, <2>1, NotOpened DEF Opened
<1>4. ImportsAgain' /\ SuggestionHolds'
  BY <1>1 DEF ImportsAgain, SuggestionHolds
<1>5. FromArrays' /\ IsTable(source)
  BY <1>1 DEF SourceFits, FromArrays
<1>6. IsSeq(specs')
  <2>1. PICK n \in Nat : n = Len(source.fields) /\ DOMAIN source.fields = 1..n
    BY <1>5, SeqDomain DEF IsTable
  <2>2. PICK s : s = specs'
    OBVIOUS
  <2>3. DOMAIN s = 1..n /\ s = [i \in DOMAIN s |-> s[i]]
    BY <1>1, <2>1, <2>2
  <2> QED
    BY <2>1, <2>2, <2>3, OneToN
<1>7. SpecsFit'
  BY <1>1, <1>5, <1>6 DEF SpecsFit, Columns
<1> QED
  BY <1>2, <1>3, <1>4, <1>7 DEF ArrowInv

\* In the steps on specs that are there.
LEMMA SpecsKept ==
  ASSUME SpecsFit, pc \in {"create"} \cup Opened, UNCHANGED <<source, supplied, specs, copies, origin>>
  PROVE  SpecsFit'
BY DEF SpecsFit, FromArrays, Columns

\* Before the first batch there is no row.
LEMMA NothingRead ==
  ASSUME NEW t, NEW i, NEW spec
  PROVE  Prefix(t, i, 0) = <<>> /\ Rows(t, i, spec, 0) = <<>> /\ Range(Prefix(t, i, 0)) = {}
<1>1. PICK ss : ss = [b \in 1..0 |-> Cells(t.batches[b][i])]
  OBVIOUS
<1>2. ss = <<>>
  BY <1>1
<1>3. PICK S : S = Int
  OBVIOUS
<1>4. ss \in Seq(Seq(S)) /\ Len(ss) = 0
  BY <1>2
<1>5. FlattenSeq(ss) = <<>>
  BY <1>4, FlattenSteps
<1>6. Prefix(t, i, 0) = <<>>
  BY <1>1, <1>5 DEF Prefix
<1>7. DOMAIN Prefix(t, i, 0) = {}
  BY <1>6
<1>8. Rows(t, i, spec, 0) = <<>>
  <2>1. PICK P : P = Prefix(t, i, 0)
    OBVIOUS
  <2>2. Rows(t, i, spec, 0) = [r \in DOMAIN P |-> Stored(spec, P[r])]
    BY <2>1 DEF Rows
  <2>3. DOMAIN P = 1..0
    BY <1>6, <2>1
  <2>4. [r \in 1..0 |-> Stored(spec, P[r])] = <<>>
    OBVIOUS
  <2> QED
    BY <2>2, <2>3, <2>4
<1>9. Range(Prefix(t, i, 0)) = {}
  BY <1>7 DEF Range
<1> QED
  BY <1>6, <1>8, <1>9

\* What the table holds after so many batches.
Filed(t, ss, n, f) ==
  /\ n \in 0..Len(t.batches)
  /\ \A i \in DOMAIN t.fields : validate_column_spec(ss[i])
  /\ IsInjective([i \in DOMAIN t.fields |-> ss[i].name])
  /\ f = [i \in DOMAIN t.fields |-> Created(ss[i], Rows(t, i, ss[i], n))]
  /\ \A i \in DOMAIN t.fields : \A v \in Range(Prefix(t, i, n)) : encodable(ss[i], Taken(ss[i], v))

\* FileFits, with the rows named.
LEMMA FiledFits ==
  /\ pc \in Opened => (FileFits <=> (Filed(source, specs, written, file)
                                       /\ (pc = "done" => written = Len(source.batches))))
  /\ pc \notin Opened => (FileFits <=> file = NoTable /\ written = 0)
<1>1. CASE pc \in Opened
  <2>1. \A i : Imported(i) = Prefix(source, i, written)
    BY DEF Imported, Prefix
  <2>2. \A i : [r \in DOMAIN Imported(i) |-> Stored(specs[i], Imported(i)[r])] = Rows(source, i, specs[i], written)
    BY <2>1 DEF Rows
  <2> QED
    BY <1>1, <2>1, <2>2 DEF FileFits, Filed, Columns
<1>2. CASE pc \notin Opened
  BY <1>2 DEF FileFits
<1> QED
  BY <1>1, <1>2

\* FileFits after a step, with the rows named.
LEMMA FiledFitsNext ==
  /\ pc' \in Opened => (FileFits' <=> (Filed(source', specs', written', file')
                                         /\ (pc' = "done" => written' = Len(source'.batches))))
  /\ pc' \notin Opened => (FileFits' <=> file' = NoTable /\ written' = 0)
<1>1. CASE pc' \in Opened
  <2>1. \A i : Imported(i)' = Prefix(source', i, written')
    BY DEF Imported, Prefix
  <2>2. \A i : [r \in DOMAIN Imported(i)' |-> Stored(specs'[i], Imported(i)'[r])] = Rows(source', i, specs'[i], written')
    BY <2>1 DEF Rows
  <2> QED
    BY <1>1, <2>1, <2>2 DEF FileFits, Filed, Columns
<1>2. CASE pc' \notin Opened
  BY <1>2 DEF FileFits
<1> QED
  BY <1>1, <1>2

\* create: an empty table, or a refusal, never of inferred specs of an export.
LEMMA CreateKeeps ==
  ASSUME ArrowInv, create
  PROVE  ArrowInv'
<1>1. /\ SourceFits /\ SpecsFit /\ FileFits /\ SuggestionFits /\ pc = "create"
      /\ UNCHANGED <<source, supplied, specs, written, taken, copies, origin>>
      /\ IF /\ \A i \in DOMAIN specs : validate_column_spec(specs[i])
            /\ IsInjective([i \in DOMAIN specs |-> specs[i].name])
         THEN /\ file' = [i \in DOMAIN specs |->
                            [spec |-> specs[i], fill |-> fill_of(specs[i]), rows |-> <<>>]]
              /\ pc' = "append" /\ UNCHANGED why
         ELSE /\ pc' = "refused" /\ why'.reason = "create" /\ UNCHANGED file
  BY DEF ArrowInv, create, Fine
<1>2. pc' \in {"append", "refused"} /\ (pc' = "refused" => why'.reason = "create")
  BY <1>1
<1>3. SourceFits' /\ SpecsFit' /\ SuggestionFits'
  <2>1. pc' \notin {"arrow", "arrays"} /\ (pc' # "refused" \/ why'.reason # "collision")
        /\ UNCHANGED <<source, supplied, taken>> /\ UNCHANGED <<source, supplied, copies, origin>>
        /\ UNCHANGED <<source, supplied, specs, copies, origin>>
    BY <1>1, <1>2
  <2> QED
    BY <1>1, <2>1, SourceKept, SpecsKept, SuggestionKept
<1>4. DOMAIN specs = DOMAIN source.fields /\ file = NoTable /\ written = 0 /\ IsTable(source)
  BY <1>1 DEF SpecsFit, FileFits, Opened, Columns, SourceFits
<1>5. SuggestionHolds'
  BY <1>2 DEF SuggestionHolds
<1>6. CASE /\ \A i \in DOMAIN specs : validate_column_spec(specs[i])
           /\ IsInjective([i \in DOMAIN specs |-> specs[i].name])
  <2>1. file' = [i \in DOMAIN source.fields |->
                   [spec |-> specs[i], fill |-> fill_of(specs[i]), rows |-> <<>>]]
        /\ pc' = "append" /\ source' = source /\ specs' = specs /\ written' = 0
    BY <1>1, <1>4, <1>6
  <2>2. file' = [i \in DOMAIN source.fields |-> Created(specs[i], Rows(source, i, specs[i], 0))]
    BY <2>1, NothingRead DEF Created
  <2>3. 0 \in 0..Len(source.batches)
    BY <1>4 DEF IsTable, IsSeq
  <2>4. Filed(source', specs', written', file')
    BY <1>4, <1>6, <2>1, <2>2, <2>3, NothingRead DEF Filed
  <2>5. FileFits'
    BY <2>1, <2>4, FiledFitsNext DEF Opened
  <2>6. RefusedUntouched' /\ ImportsAgain'
    BY <2>1 DEF RefusedUntouched, ImportsAgain
  <2> QED
    BY <1>3, <1>5, <2>5, <2>6 DEF ArrowInv
<1>7. CASE ~(/\ \A i \in DOMAIN specs : validate_column_spec(specs[i])
             /\ IsInjective([i \in DOMAIN specs |-> specs[i].name]))
  <2>1. pc' = "refused" /\ file' = NoTable /\ written' = 0
    BY <1>1, <1>4, <1>7
  <2>2. FileFits' /\ RefusedUntouched'
    BY <2>1, NotOpened DEF Opened
  <2>3. ImportsAgain'
    <3>1. SUFFICES ASSUME copies > 0, origin # "specs", \A i \in DOMAIN source.fields : IsInjective(source.batches[1][i].labels)
                   PROVE  FALSE
      BY <1>1, <1>2, <2>1 DEF ImportsAgain
    <3>2. supplied = NoSpecs /\ Importable(source) /\ ~FromArrays
      BY <1>1, <3>1 DEF SourceFits, FromArrays
    <3>3. \A i \in DOMAIN source.fields : specs[i] = Inferred(source, i) /\ specs[i].name = source.fields[i].name
      BY <1>1, <3>2 DEF SpecsFit, Columns, Ready
    <3>4. \A i \in DOMAIN specs : validate_column_spec(specs[i])
      BY <1>4, <3>1, <3>2, <3>3 DEF Importable
    <3>5. [i \in DOMAIN specs |-> specs[i].name] = names(source)
      BY <1>4, <3>3 DEF names
    <3>6. IsInjective(names(source))
      BY <3>2 DEF Importable, importable_schema
    <3> QED
      BY <1>7, <3>4, <3>5, <3>6
  <2> QED
    BY <1>3, <1>5, <2>2, <2>3 DEF ArrowInv
<1> QED
  BY <1>6, <1>7

\* What is stored of so many values.
AllStored(spec, values) == [r \in DOMAIN values |-> Stored(spec, values[r])]

\* The rows of a batch follow those that are there.
LEMMA MappedConcat ==
  ASSUME NEW S, NEW a \in Seq(S), NEW b \in Seq(S), NEW spec
  PROVE  AllStored(spec, a \o b) = AllStored(spec, a) \o AllStored(spec, b)
<1>1. PICK image : image = [x \in S |-> Stored(spec, x)]
  OBVIOUS
<1>2. PICK T : T = {image[x] : x \in S}
  OBVIOUS
<1>3. PICK s : s = a \o b
  OBVIOUS
<1>4. PICK m \in Nat : m = Len(a) /\ DOMAIN a = 1..m
  BY LenProperties
<1>5. PICK n \in Nat : n = Len(b) /\ DOMAIN b = 1..n
  BY LenProperties
<1>6. /\ s \in Seq(S) /\ Len(s) = m + n /\ DOMAIN s = 1..(m + n)
      /\ \A i \in 1..(m + n) : s[i] = IF i <= m THEN a[i] ELSE b[i - m]
  BY <1>3, <1>4, <1>5, ConcatProperties, LenProperties
<1>7. PICK x : x = [r \in DOMAIN a |-> Stored(spec, a[r])]
  OBVIOUS
<1>8. PICK y : y = [r \in DOMAIN b |-> Stored(spec, b[r])]
  OBVIOUS
<1>9. PICK z : z = [r \in DOMAIN s |-> Stored(spec, s[r])]
  OBVIOUS
<1>10. /\ \A r \in 1..m : a[r] \in S
       /\ \A r \in 1..n : b[r] \in S
  BY <1>4, <1>5, ElementOfSeq
<1>11. /\ \A r \in 1..m : x[r] = Stored(spec, a[r]) /\ x[r] \in T
       /\ \A r \in 1..n : y[r] = Stored(spec, b[r]) /\ y[r] \in T
  BY <1>1, <1>2, <1>4, <1>5, <1>7, <1>8, <1>10
<1>12. x \in [1..m -> T] /\ y \in [1..n -> T]
  <2>1. x = [r \in 1..m |-> x[r]] /\ y = [r \in 1..n |-> y[r]]
    BY <1>4, <1>5, <1>7, <1>8
  <2> QED
    BY <1>11, <2>1
<1>13. x \in Seq(T) /\ y \in Seq(T)
  BY <1>12, SeqDef, Zenon
<1>14. Len(x) = m /\ Len(y) = n
  BY <1>12, <1>13, LenProperties, SameLength
<1>15. PICK w : w = x \o y
  OBVIOUS
<1>16. /\ w \in Seq(T) /\ Len(w) = m + n
       /\ \A i \in 1..(m + n) : w[i] = IF i <= m THEN x[i] ELSE y[i - m]
  BY <1>13, <1>14, <1>15, ConcatProperties
<1>17. \A i \in 1..(m + n) : w[i] = z[i]
  <2> SUFFICES ASSUME NEW i \in 1..(m + n) PROVE w[i] = z[i]
    OBVIOUS
  <2>1. z[i] = Stored(spec, s[i])
    BY <1>6, <1>9
  <2>2. CASE i <= m
    BY <1>6, <1>11, <1>16, <2>1, <2>2
  <2>3. CASE ~(i <= m)
    <3>1. i - m \in 1..n
      BY <2>3
    <3> QED
      BY <1>6, <1>11, <1>16, <2>1, <2>3, <3>1
  <2> QED
    BY <2>2, <2>3
<1>18. DOMAIN w = 1..(m + n) /\ DOMAIN z = 1..(m + n)
  BY <1>6, <1>9, <1>16, LenProperties
<1>19. w = [i \in 1..(m + n) |-> w[i]] /\ z = [i \in 1..(m + n) |-> z[i]]
  <2>1. z = [i \in 1..(m + n) |-> z[i]]
    BY <1>6, <1>9
  <2>2. w = [i \in 1..(m + n) |-> w[i]]
    <3>1. w \in [1..(m + n) -> T]
      BY <1>16, LenProperties
    <3> QED
      BY <3>1
  <2> QED
    BY <2>1, <2>2
<1>20. w = z
  BY <1>17, <1>19
<1> QED
  BY <1>3, <1>7, <1>8, <1>9, <1>15, <1>20 DEF AllStored

\* What append hands over, and what it stores of it.
LEMMA BatchTaken ==
  ASSUME NEW spec, NEW chunk, NEW cells, cells = Cells(chunk), NEW values, values = append_values(spec, chunk),
         NEW rows, NEW col, col = Created(spec, rows)
  PROVE  /\ DOMAIN values = DOMAIN cells
         /\ \A r \in DOMAIN cells : values[r] = Taken(spec, cells[r]) /\ encode(col, values[r]) = Stored(spec, cells[r])
<1>1. CASE spec.kind \notin {"number", "opaque"}
  <2>1. values = cells
    BY <1>1 DEF append_values
  <2>2. \A v : Taken(spec, v) = v
    BY <1>1 DEF Taken
  <2>3. \A v : encode(col, v) = encode(Created(spec, <<>>), v)
    BY DEF encode, Created
  <2> QED
    BY <2>1, <2>2, <2>3 DEF Stored
<1>2. CASE spec.kind \in {"number", "opaque"}
  <2>1. values = [r \in DOMAIN cells |->
                    LET v == IF cells[r] = Null THEN spec.fill ELSE cells[r]
                    IN  IF spec.kind = "number" THEN astype(v, spec.dtype) ELSE v]
    BY <1>2 DEF append_values
  <2>2. \A r \in DOMAIN cells : values[r] = Taken(spec, cells[r])
    BY <1>2, <2>1 DEF Taken
  <2>3. \A v : encode(col, v) = encode(Created(spec, <<>>), v)
    BY DEF encode, Created
  <2> QED
    BY <2>1, <2>2, <2>3 DEF Stored
<1> QED
  BY <1>1, <1>2

\* No value of an export is one of a label that ends in a NUL.
LEMMA NoPadding ==
  ASSUME NEW t, IsTable(t), IsExport(t), NEW i \in DOMAIN t.fields, t.fields[i].type.kind = "dictionary",
         IsType(t.fields[i].type), NEW v \in Range(column(t, i)), v # Null
  PROVE  v = unpadded(v)
<1>1. PICK chunk : chunk = t.batches[1][i]
  OBVIOUS
<1>2. Len(t.batches) = 1 /\ \A l \in Range(chunk.labels) : l = unpadded(l)
  BY <1>1 DEF IsExport
<1>3. importable(t.fields[i].type) /\ IsSeq(t.batches) /\ DOMAIN t.batches = {1}
  BY <1>2 DEF importable, IsTable, IsSeq
<1>4. \A b \in DOMAIN t.batches : t.batches[b][i].labels \in Seq(Texts)
  BY <1>3 DEF IsTable, IsChunk
<1>5. unify_dictionaries(t, i) = chunk.labels
  BY <1>1, <1>2, <1>3, <1>4, UnifiedLabels
<1>6. Range(column(t, i)) \subseteq {Null} \cup Range(chunk.labels)
  BY <1>3, <1>5, TableColumn
<1> QED
  BY <1>2, <1>6

\* Inferred specs take every value of the column but of a label that ends in a NUL.
LEMMA AllTaken ==
  ASSUME SourceFits, SpecsFit, pc \in Opened, supplied = NoSpecs, NEW i \in Columns,
         NEW v \in Range(column(source, i)),
         source.fields[i].type.kind = "dictionary" => v = Null \/ v = unpadded(v)
  PROVE  encodable(specs[i], Taken(specs[i], v))
<1>1. IsTable(source) /\ i \in DOMAIN source.fields
  BY DEF SourceFits, Columns
<1>2. CASE FromArrays
  <2>1. PICK spec : spec = specs[i]
    OBVIOUS
  <2>2. IsArrays(source) /\ spec = infer_column_spec(source, i)
    BY <1>2, <2>1 DEF SourceFits, SpecsFit
  <2> QED
    BY <1>1, <2>1, <2>2, ArraysTaken
<1>3. CASE ~FromArrays
  <2>1. PICK spec : spec = specs[i]
    OBVIOUS
  <2>2. PICK bare : bare = spec_from_field(source, i)
    OBVIOUS
  <2>3. PICK out : out = checked(bare, source, i)
    OBVIOUS
  <2>4. /\ importable_schema(source) /\ spec = with_fill(bare, out.fill)
        /\ checked(spec, source, i).reason = "none"
    BY <1>3, <2>1, <2>2, <2>3 DEF SpecsFit, Ready, Inferred
  <2>5. importable(source.fields[i].type)
    BY <1>1, <2>4 DEF importable_schema
  <2>6. IsSpec(bare) /\ Fits(bare, source.fields[i].type)
    BY <1>1, <2>2, <2>5, InferredIsFrom
  <2>7. MayHave(bare, out.fill)
    BY <2>3, <2>6, CheckedFill
  <2> QED
    BY <1>1, <2>1, <2>2, <2>4, <2>5, <2>7, InferredTakes
<1> QED
  BY <1>2, <1>3

\* A column with the values of one more batch.
Extended(col, values) ==
  [col EXCEPT !.rows = @ \o [r \in DOMAIN values |-> encode(col, values[r])]]

\* A column with other rows.
LEMMA CreatedExcept ==
  ASSUME NEW spec, NEW rows, NEW all, NEW col, col = Created(spec, rows)
  PROVE  [col EXCEPT !.rows = all] = Created(spec, all) /\ col.rows = rows
BY DEF Created

\* One column after one more batch.
LEMMA OneMoreBatch ==
  ASSUME NEW t, IsTable(t), NEW i \in DOMAIN t.fields, IsType(t.fields[i].type),
         NEW n \in 0..Len(t.batches), n < Len(t.batches), NEW spec,
         \A v \in Range(Prefix(t, i, n)) : encodable(spec, Taken(spec, v)),
         NEW col, col = Created(spec, Rows(t, i, spec, n)),
         NEW values, values = append_values(spec, t.batches[n + 1][i]),
         \A r \in DOMAIN values : encodable(spec, values[r])
  PROVE  /\ Extended(col, values) = Created(spec, Rows(t, i, spec, n + 1))
         /\ \A v \in Range(Prefix(t, i, n + 1)) : encodable(spec, Taken(spec, v))
<1>1. PICK chunk : chunk = t.batches[n + 1][i]
  OBVIOUS
<1>2. PICK cells : cells = Cells(chunk)
  OBVIOUS
<1>3. PICK S : S = Values(t.fields[i].type)
  OBVIOUS
<1>4. PICK P : P = Prefix(t, i, n)
  OBVIOUS
<1>5. n + 1 \in DOMAIN t.batches
  <2>1. DOMAIN t.batches = 1..Len(t.batches) /\ Len(t.batches) \in Nat
    BY DEF IsTable, IsSeq
  <2> QED
    BY <2>1
<1>6. P \in Seq(S) /\ cells \in Seq(S) /\ Prefix(t, i, n + 1) = P \o cells
  BY <1>1, <1>2, <1>3, <1>4, <1>5, PrefixFacts
<1>7. /\ DOMAIN values = DOMAIN cells
      /\ \A r \in DOMAIN cells :
           values[r] = Taken(spec, cells[r]) /\ encode(col, values[r]) = Stored(spec, cells[r])
  BY <1>1, <1>2, BatchTaken
<1>8. PICK more : more = [r \in DOMAIN cells |-> Stored(spec, cells[r])]
  OBVIOUS
<1>9. [r \in DOMAIN values |-> encode(col, values[r])] = more
  BY <1>7, <1>8
<1>10. PICK rows : rows = Rows(t, i, spec, n)
  OBVIOUS
<1>11. rows = AllStored(spec, P) /\ more = AllStored(spec, cells)
  BY <1>4, <1>8, <1>10 DEF Rows, AllStored
<1>12. Rows(t, i, spec, n + 1) = rows \o more
  <2>1. Rows(t, i, spec, n + 1) = AllStored(spec, P \o cells)
    BY <1>6 DEF Rows, AllStored
  <2>2. AllStored(spec, P \o cells) = AllStored(spec, P) \o AllStored(spec, cells)
    BY <1>6, MappedConcat
  <2> QED
    BY <1>11, <2>1, <2>2
<1>13. Extended(col, values) = Created(spec, rows \o more)
  <2>1. PICK all : all = rows \o more
    OBVIOUS
  <2>2. [col EXCEPT !.rows = all] = Created(spec, all) /\ col.rows = rows
    BY <1>10, CreatedExcept
  <2>3. Extended(col, values) = [col EXCEPT !.rows = all]
    BY <1>9, <2>1, <2>2 DEF Extended
  <2> QED
    BY <2>1, <2>2, <2>3
<1>14. ASSUME NEW v \in Range(Prefix(t, i, n + 1)) PROVE encodable(spec, Taken(spec, v))
  <2>1. PICK s : s = P \o cells
    OBVIOUS
  <2>2. Range(s) = Range(P) \cup Range(cells)
    BY <1>6, <2>1, RangeConcatenation
  <2>3. CASE v \in Range(P)
    BY <1>4, <2>3
  <2>4. CASE v \in Range(cells)
    <3>1. PICK r \in DOMAIN cells : cells[r] = v
      BY <2>4 DEF Range
    <3> QED
      BY <1>7, <3>1
  <2> QED
    BY <1>6, <2>1, <2>2, <2>3, <2>4
<1> QED
  BY <1>12, <1>13, <1>14

\* append: the rows of one more batch, or a failure, with inferred specs only of a
\* label that ends in a NUL, which no export has.
LEMMA AppendKeeps ==
  ASSUME ArrowInv, append
  PROVE  ArrowInv'
<1>1. /\ SourceFits /\ SpecsFit /\ FileFits /\ SuggestionFits /\ pc = "append"
      /\ written < Len(source.batches)
      /\ UNCHANGED <<source, supplied, specs, why, taken, copies, origin>>
  BY DEF ArrowInv, append
<1>2. PICK values : values = [i \in DOMAIN file |->
                                append_values(file[i].spec, source.batches[written + 1][i])]
  OBVIOUS
<1>3. IF \A i \in DOMAIN file : \A r \in DOMAIN values[i] : encodable(file[i].spec, values[i][r])
      THEN /\ file' = [i \in DOMAIN file |-> Extended(file[i], values[i])]
           /\ written' = written + 1 /\ UNCHANGED pc
      ELSE /\ pc' = "failed" /\ UNCHANGED <<file, written>>
  BY <1>2 DEF append, Extended
<1>4. pc' \in {"append", "failed"} /\ pc \in Opened
  BY <1>1, <1>3 DEF Opened
<1>5. SourceFits' /\ SpecsFit' /\ SuggestionFits'
  <2>1. pc' \notin {"arrow", "arrays"} /\ (pc' # "refused" \/ why'.reason # "collision")
        /\ UNCHANGED <<source, supplied, taken>> /\ UNCHANGED <<source, supplied, copies, origin>>
        /\ UNCHANGED <<source, supplied, specs, copies, origin>>
    BY <1>1, <1>4
  <2> QED
    BY <1>1, <1>4, <2>1, SourceKept, SpecsKept, SuggestionKept
<1>6. SuggestionHolds'
  BY <1>4 DEF SuggestionHolds
<1>7. IsTable(source) /\ DOMAIN source.fields = Columns /\ Filed(source, specs, written, file) /\ Shapes
  BY <1>1, <1>4, FiledFits DEF SourceFits, Columns, Shapes
<1>8. written \in 0..Len(source.batches) /\ DOMAIN file = Columns
      /\ \A i \in Columns : file[i] = Created(specs[i], Rows(source, i, specs[i], written))
  BY <1>7 DEF Filed
<1>9. \A i \in Columns : file[i].spec = specs[i]
                         /\ values[i] = append_values(specs[i], source.batches[written + 1][i])
  BY <1>2, <1>8 DEF Created
<1>10. \A i \in Columns : IsType(source.fields[i].type)
  BY <1>4, <1>7, FileHolds DEF Holding, Settled, Fits
<1>11. CASE \A i \in DOMAIN file : \A r \in DOMAIN values[i] : encodable(file[i].spec, values[i][r])
  <2>1. /\ file' = [i \in Columns |-> Extended(file[i], values[i])]
        /\ written' = written + 1 /\ pc' = "append"
    BY <1>1, <1>3, <1>8, <1>11
  <2>2. ASSUME NEW i \in Columns
        PROVE  /\ Extended(file[i], values[i]) = Created(specs[i], Rows(source, i, specs[i], written + 1))
               /\ \A v \in Range(Prefix(source, i, written + 1)) : encodable(specs[i], Taken(specs[i], v))
    <3>1. PICK spec : spec = specs[i]
      OBVIOUS
    <3>2. PICK col : col = file[i]
      OBVIOUS
    <3>3. PICK vs : vs = values[i]
      OBVIOUS
    <3>4. /\ i \in DOMAIN source.fields /\ IsType(source.fields[i].type)
          /\ \A v \in Range(Prefix(source, i, written)) : encodable(spec, Taken(spec, v))
          /\ col = Created(spec, Rows(source, i, spec, written))
          /\ vs = append_values(spec, source.batches[written + 1][i])
          /\ \A r \in DOMAIN vs : encodable(spec, vs[r])
      BY <1>7, <1>8, <1>9, <1>10, <1>11, <3>1, <3>2, <3>3 DEF Filed
    <3>5. /\ Extended(col, vs) = Created(spec, Rows(source, i, spec, written + 1))
          /\ \A v \in Range(Prefix(source, i, written + 1)) : encodable(spec, Taken(spec, v))
      BY <1>1, <1>7, <1>8, <3>4, OneMoreBatch
    <3> QED
      BY <3>1, <3>2, <3>3, <3>5
  <2>3. file' = [i \in Columns |-> Created(specs[i], Rows(source, i, specs[i], written + 1))]
    BY <2>1, <2>2
  <2>4. written + 1 \in 0..Len(source.batches)
    BY <1>1, <1>7, <1>8 DEF IsTable, IsSeq
  <2>5. Filed(source', specs', written', file')
    BY <1>1, <1>7, <2>1, <2>2, <2>3, <2>4 DEF Filed
  <2>6. FileFits'
    BY <2>1, <2>5, FiledFitsNext DEF Opened
  <2>7. RefusedUntouched' /\ ImportsAgain'
    BY <2>1 DEF RefusedUntouched, ImportsAgain
  <2> QED
    BY <1>5, <1>6, <2>6, <2>7 DEF ArrowInv
<1>12. CASE ~(\A i \in DOMAIN file : \A r \in DOMAIN values[i] : encodable(file[i].spec, values[i][r]))
  <2>1. pc' = "failed" /\ UNCHANGED <<file, written>>
    BY <1>3, <1>12
  <2>2. Filed(source', specs', written', file')
    BY <1>1, <1>7, <2>1
  <2>3. FileFits'
    BY <2>1, <2>2, FiledFitsNext DEF Opened
  <2>4. ASSUME supplied = NoSpecs
        PROVE  \E i \in Columns : /\ specs[i].kind = "categorical" /\ source.fields[i].type.kind = "dictionary"
                                  /\ \E v \in Range(Cells(source.batches[written + 1][i])) \ {Null} :
                                       v \in Range(column(source, i)) /\ v # unpadded(v)
    <3>1. PICK i \in Columns : \E r \in DOMAIN values[i] : ~encodable(specs[i], values[i][r])
      BY <1>8, <1>9, <1>12
    <3>2. PICK r \in DOMAIN values[i] : ~encodable(specs[i], values[i][r])
      BY <3>1
    <3>3. PICK chunk : chunk = source.batches[written + 1][i]
      OBVIOUS
    <3>4. PICK cells : cells = Cells(chunk)
      OBVIOUS
    <3>5. values[i] = append_values(specs[i], chunk)
      BY <1>9, <3>3
    <3>6. PICK vs : vs = values[i]
      OBVIOUS
    <3>7. PICK col : col = Created(specs[i], <<>>)
      OBVIOUS
    <3>8. DOMAIN vs = DOMAIN cells /\ \A k \in DOMAIN cells : vs[k] = Taken(specs[i], cells[k])
      BY <3>4, <3>5, <3>6, <3>7, BatchTaken
    <3>9. cells[r] \in Range(column(source, i))
      <4>1. written + 1 \in 1..Len(source.batches) /\ Len(source.batches) \in 0..Len(source.batches)
        BY <1>1, <1>7, <1>8 DEF IsTable, IsSeq
      <4>2. column(source, i) = Prefix(source, i, Len(source.batches))
            /\ Range(Prefix(source, i, Len(source.batches))) =
                 UNION {Range(Cells(source.batches[b][i])) : b \in 1..Len(source.batches)}
        BY <1>7, <1>10, <4>1, PrefixFacts
      <4>3. cells[r] \in Range(cells)
        BY <3>6, <3>8 DEF Range
      <4>4. Range(cells) \in {Range(Cells(source.batches[b][i])) : b \in 1..Len(source.batches)}
        BY <3>3, <3>4, <4>1
      <4> QED
        BY <4>2, <4>3, <4>4
    <3>10. PICK v : v = cells[r]
      OBVIOUS
    <3>11. v \in Range(cells) /\ v \in Range(column(source, i)) /\ ~encodable(specs[i], Taken(specs[i], v))
      BY <3>2, <3>6, <3>8, <3>9, <3>10 DEF Range
    <3>12. source.fields[i].type.kind = "dictionary" /\ v # Null /\ v # unpadded(v)
      BY <1>1, <1>4, <2>4, <3>11, AllTaken
    <3>13. specs[i].kind = "categorical"
      <4>1. Fits(specs[i], source.fields[i].type) /\ IsSpec(specs[i])
        BY <1>4, <1>7, FileHolds DEF Holding, Settled
      <4> QED
        BY <3>12, <4>1 DEF Fits, IsSpec, LeafKinds
    <3> QED
      BY <3>3, <3>4, <3>11, <3>12, <3>13
  <2>5. RefusedUntouched'
    <3>1. ASSUME supplied = NoSpecs
          PROVE  \E i \in DOMAIN file : /\ file[i].spec.kind = "categorical"
                                        /\ \E v \in Range(Cells(source.batches[written + 1][i])) \ {Null} : v # unpadded(v)
      BY <1>8, <1>9, <2>4, <3>1
    <3> QED
      BY <1>1, <2>1, <3>1 DEF RefusedUntouched
  <2>6. ImportsAgain'
    <3>1. SUFFICES ASSUME copies > 0, origin # "specs" PROVE FALSE
      BY <1>1 DEF ImportsAgain
    <3>2. supplied = NoSpecs /\ IsExport(source)
      BY <1>1, <3>1 DEF SourceFits
    <3>3. PICK i \in Columns : /\ source.fields[i].type.kind = "dictionary"
                               /\ \E v \in Range(column(source, i)) \ {Null} : v # unpadded(v)
      BY <2>4, <3>2
    <3> QED
      BY <1>7, <1>10, <3>2, <3>3, NoPadding
  <2> QED
    BY <1>5, <1>6, <2>3, <2>5, <2>6 DEF ArrowInv
<1> QED
  BY <1>11, <1>12

\* In the steps that only say how the import ended.
LEMMA EndKeeps ==
  ASSUME ArrowInv, Interrupt \/ from_arrow_returns
  PROVE  ArrowInv'
<1>1. /\ SourceFits /\ SpecsFit /\ FileFits /\ SuggestionFits /\ pc = "append"
      /\ UNCHANGED <<source, supplied, specs, file, written, why, taken, copies, origin>>
      /\ pc' \in {"interrupted", "done"} /\ (pc' = "done" => written = Len(source.batches))
  BY DEF ArrowInv, Interrupt, from_arrow_returns
<1>2. SourceFits' /\ SpecsFit' /\ SuggestionFits'
  <2>1. pc' \notin {"arrow", "arrays"} /\ (pc' # "refused" \/ why'.reason # "collision")
        /\ UNCHANGED <<source, supplied, taken>> /\ UNCHANGED <<source, supplied, copies, origin>>
        /\ UNCHANGED <<source, supplied, specs, copies, origin>> /\ pc \in Opened
    BY <1>1 DEF Opened
  <2> QED
    BY <1>1, <2>1, SourceKept, SpecsKept, SuggestionKept
<1>3. FileFits'
  <2>1. Filed(source, specs, written, file)
    BY <1>1, FiledFits DEF Opened
  <2>2. Filed(source', specs', written', file') /\ (pc' = "done" => written' = Len(source'.batches))
    BY <1>1, <2>1
  <2> QED
    BY <1>1, <2>2, FiledFitsNext DEF Opened
<1>4. RefusedUntouched' /\ ImportsAgain' /\ SuggestionHolds'
  BY <1>1 DEF RefusedUntouched, ImportsAgain, SuggestionHolds
<1> QED
  BY <1>2, <1>3, <1>4 DEF ArrowInv

\* What is exported can be imported, and without the caller's specs is refused only
\* for labels that read back alike.
LEMMA ExportKeeps ==
  ASSUME ArrowInv, to_arrow
  PROVE  ArrowInv'
<1>1. /\ SourceFits /\ SpecsFit /\ FileFits /\ Shapes /\ pc \in Opened
      /\ source' = table_arrow(file) /\ supplied' = NoSpecs /\ pc' = "arrow"
      /\ specs' = <<>> /\ file' = NoTable /\ written' = 0 /\ taken' = {}
      /\ copies' = copies + 1 /\ UNCHANGED <<why, origin>>
  BY DEF ArrowInv, Shapes, to_arrow, Opened
<1>2. PICK e : e = table_arrow(file)
  OBVIOUS
<1>3. OpenFile(source, specs, written, file)
  BY <1>1, FileHolds
<1>4. IsTable(e) /\ IsExport(e)
  BY <1>2, <1>3, ExportTyped
<1>5. ASSUME origin # "specs" PROVE Importable(e)
  <2>1. supplied = NoSpecs
    BY <1>1, <1>5 DEF SourceFits
  <2>2. \A i \in DOMAIN source.fields : Natural(source, i, specs[i])
    BY <1>1, <2>1, FileHolds DEF Unsupplied, Columns
  <2> QED
    BY <1>2, <1>3, <2>2, ExportImportable
<1>6. copies \in Nat /\ origin \in {"arrow", "arrays", "specs"}
  BY <1>1 DEF SourceFits
<1>7. SourceFits'
  <2>1. copies' \in Nat /\ copies' # 0
    BY <1>1, <1>6
  <2> QED
    BY <1>1, <1>2, <1>4, <1>5, <1>6, <2>1 DEF SourceFits, FromArrays
<1>8. FileFits' /\ RefusedUntouched'
  BY <1>1, NotOpened DEF Opened
<1>9. SpecsFit' /\ SuggestionFits' /\ ImportsAgain' /\ SuggestionHolds'
  BY <1>1 DEF SpecsFit, Opened, SuggestionFits, ImportsAgain, SuggestionHolds
<1> QED
  BY <1>7, <1>8, <1>9 DEF ArrowInv

\* Stuttering.
LEMMA StutterKeeps ==
  ASSUME ArrowInv, UNCHANGED vars
  PROVE  ArrowInv'
<1>1. /\ SourceFits /\ SpecsFit /\ FileFits /\ SuggestionFits /\ RefusedUntouched /\ ImportsAgain /\ SuggestionHolds
      /\ UNCHANGED <<source, supplied, pc, specs, file, written, why, taken, copies, origin>>
  BY DEF ArrowInv, vars
<1>2. SourceFits'
  BY <1>1 DEF SourceFits, FromArrays
<1>3. SpecsFit'
  BY <1>1 DEF SpecsFit, FromArrays, Columns
<1>4. FileFits'
  <2>1. CASE pc \in Opened
    <3>1. Filed(source, specs, written, file) /\ (pc = "done" => written = Len(source.batches))
      BY <1>1, <2>1, FiledFits
    <3>2. Filed(source', specs', written', file') /\ (pc' = "done" => written' = Len(source'.batches))
      BY <1>1, <3>1
    <3> QED
      BY <1>1, <2>1, <3>2, FiledFitsNext
  <2>2. CASE pc \notin Opened
    BY <1>1, <2>2, FiledFits, FiledFitsNext
  <2> QED
    BY <2>1, <2>2
<1>5. SuggestionFits'
  <2>1. Given(source)' = Given(source) /\ Columns' = Columns
    BY <1>1 DEF Given, Columns
  <2> QED
    BY <1>1, <2>1 DEF SuggestionFits
<1>6. RefusedUntouched' /\ ImportsAgain' /\ SuggestionHolds'
  BY <1>1 DEF RefusedUntouched, ImportsAgain, SuggestionHolds
<1> QED
  BY <1>2, <1>3, <1>4, <1>5, <1>6 DEF ArrowInv

-----------------------------------------------------------------------------
(* The invariant and the theorems.                                         *)

\* The invariant holds at first.
LEMMA InvInit ==
  ASSUME Init
  PROVE  ArrowInv
<1>1. PICK n \in DOMAIN Sources : \E c \in Sources[n] :
        /\ source = c.table /\ supplied = c.specs /\ pc = c.by
        /\ origin = IF c.specs = NoSpecs THEN c.by ELSE "specs"
  BY DEF Init
<1>2. PICK c \in Sources[n] :
        /\ source = c.table /\ supplied = c.specs /\ pc = c.by
        /\ origin = IF c.specs = NoSpecs THEN c.by ELSE "specs"
  BY <1>1
<1>3. /\ specs = <<>> /\ file = NoTable /\ written = 0 /\ why = Fine
      /\ taken = {} /\ copies = 0
  BY DEF Init
<1>4. /\ IsTable(source) /\ pc \in {"arrow", "arrays"}
      /\ supplied # NoSpecs => supplied = <<supplied[1]>> /\ pc = "arrow" /\ AreGiven(supplied[1], source)
      /\ pc = "arrays" => IsArrays(source)
  BY <1>2, SourcesAssumption
<1>5. origin \in {"arrow", "arrays", "specs"} /\ (origin = "arrays" <=> pc = "arrays")
      /\ (supplied # NoSpecs => origin = "specs")
  BY <1>2, <1>4
<1>6. SourceFits
  BY <1>3, <1>4, <1>5 DEF SourceFits, FromArrays
<1>7. FileFits /\ SpecsFit /\ RefusedUntouched
  BY <1>3, <1>4 DEF FileFits, SpecsFit, Opened, RefusedUntouched
<1>8. SuggestionFits /\ ImportsAgain /\ SuggestionHolds
  BY <1>3, <1>4 DEF SuggestionFits, ImportsAgain, SuggestionHolds
<1> QED
  BY <1>6, <1>7, <1>8 DEF ArrowInv

\* Every step keeps it.
LEMMA InvNext ==
  ArrowInv /\ [Next]_vars => ArrowInv'
<1> SUFFICES ASSUME ArrowInv, [Next]_vars PROVE ArrowInv'
  OBVIOUS
<1>1. CASE prepared_specs
  BY <1>1, PrepareKeeps
<1>2. CASE TakeSuggestion
  BY <1>2, TakeKeeps
<1>3. CASE from_arrays
  BY <1>3, ArraysKeep
<1>4. CASE create
  BY <1>4, CreateKeeps
<1>5. CASE append
  BY <1>5, AppendKeeps
<1>6. CASE Interrupt \/ from_arrow_returns
  BY <1>6, EndKeeps
<1>7. CASE to_arrow
  BY <1>7, ExportKeeps
<1>8. CASE Stop \/ UNCHANGED vars
  BY <1>8, StutterKeeps DEF Stop
<1> QED
  BY <1>1, <1>2, <1>3, <1>4, <1>5, <1>6, <1>7, <1>8 DEF Next

\* The invariant, for any tables, specs, datatypes, depth of lists, number of
\* copies and choice of fills.
THEOREM TypesOfCopies == Spec => []ArrowInv
<1>1. Init => ArrowInv
  BY InvInit
<1>2. ArrowInv /\ [Next]_vars => ArrowInv'
  BY InvNext
<1> QED
  BY <1>1, <1>2, PTL DEF Spec

\* The table holds the rows of the whole batches appended so far, and exported every
\* value its datatype holds is that value and every null a null (Table.from_arrow,
\* Table.to_arrow).
THEOREM ValuesAreKept == Spec => []ValuesKept
<1>1. ArrowInv => ValuesKept
  BY InvKeepsValues DEF ArrowInv, Shapes
<1> QED
  BY <1>1, TypesOfCopies, PTL

\* Export, import and export again gives the same Arrow table, but for the index type
\* of codes that is unsigned or has no code above the labels (_code_dtype).
THEOREM CopiesAreEqual == Spec => []FixedPoint
<1>1. ArrowInv => FixedPoint
  BY InvFixesPoint DEF ArrowInv, Shapes
<1> QED
  BY <1>1, TypesOfCopies, PTL

\* With inferred specs a refusal comes before the group is touched (specs_from_arrow),
\* but for that of a batch with a value whose label ends in a NUL: the label is read
\* back without it, and the value is not found (load_category_labels, encode_labels).
THEOREM RefusalsLeaveNothing == Spec => []RefusedUntouched
<1>1. ArrowInv => RefusedUntouched
  BY DEF ArrowInv
<1> QED
  BY <1>1, TypesOfCopies, PTL

\* What was imported without a caller's specs, or begun with from_arrays, is refused
\* nowhere when its export is imported again, but by create for a label that comes
\* twice: two labels that differ in NULs at their end come back as one.
THEOREM ExportsComeBack == Spec => []ImportsAgain
<1>1. ArrowInv => ImportsAgain
  BY DEF ArrowInv
<1> QED
  BY <1>1, TypesOfCopies, PTL

\* A fill that a refusal named and the caller took is not refused for the data in its
\* turn (suggest_fill).
THEOREM SuggestionsWork == Spec => []SuggestionHolds
<1>1. ArrowInv => SuggestionHolds
  BY DEF ArrowInv
<1> QED
  BY <1>1, TypesOfCopies, PTL
=============================================================================
