-------------------------------- MODULE Sorting --------------------------------
(***************************************************************************)
(* Stable sorts, of rows by value and of wanted positions.                 *)
(***************************************************************************)
EXTENDS Integers, FiniteSets

\* The members of a set by ascending key, equal ones in their own order: at place
\* i is the one that i - 1 others come before.
Ordered(S, key) ==
  [i \in 1..Cardinality(S) |->
     CHOOSE r \in S :
       Cardinality({s \in S : key[s] < key[r] \/ (key[s] = key[r] /\ s < r)}) = i - 1]

\* A set of numbers, ascending.
Listed(S) == Ordered(S, [x \in S |-> x])
=============================================================================
