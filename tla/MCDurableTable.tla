--------------------------- MODULE MCDurableTable ---------------------------
(* Small instances of DurableTable for TLC.                                *)
EXTENDS DurableInvariant

CONSTANTS c1, c2, i1, i2, f1

OneOwner == [i \in Indexes |-> c1]
=============================================================================
