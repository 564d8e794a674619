---------------------------- MODULE MCTableStore ----------------------------
(* Small instances of TableStore for TLC.                                  *)
EXTENDS TableInvariant, TLC

CONSTANTS c1, c2, i1, i2, f1

\* Every index is over one column; the others only carry data.
OneOwner == [i \in Indexes |-> c1]

IndexSymmetry == Permutations(Indexes \ Foreign)
=============================================================================
