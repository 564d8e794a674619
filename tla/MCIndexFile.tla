----------------------------- MODULE MCIndexFile -----------------------------
(* Small instances of IndexFile for TLC.                                   *)
EXTENDS IndexFileInvariant

CONSTANTS c1, c2

Asked ==
  {<<op, v>> : op \in {"<", "<=", ">", ">=", "=="}, v \in 0..2} \cup
  {<<"between", v>> : v \in {<<1, 2>>, <<2, 1>>, <<2, 2>>}}

Ways == {"ours", "fixed", "longer", "short", "partial", "unlinked", "future", "bloom", "dtype",
         "half", "bare", "cut", "padded", "kinded", "overclaim", "other"}
=============================================================================
