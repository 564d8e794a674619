---------------------------- MODULE MCTableSchema ----------------------------
(* Small instances of TableSchema for TLC.                                 *)
EXTENDS TableSchemaInvariant

CONSTANTS num, cat, lst, flag

FourKinds ==
  [c \in {num, cat, lst, flag} |->
     CASE c = num -> "scalar" [] c = cat -> "categorical"
       [] c = lst -> "list" [] OTHER -> "boolean"]

TwoLayouts == {<<num, cat>>, <<lst, cat, flag>>}
OneLayout == {<<num, cat>>}
=============================================================================
