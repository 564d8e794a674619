-------------------------- MODULE MCTableRefinement --------------------------
(* Small instances of TableRefinement for TLC.                             *)
EXTENDS TableRefinement

CONSTANTS c1, c2, i1, i2, f1

OneOwner == [i \in Indexes |-> c1]
=============================================================================
