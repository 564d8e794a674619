---------------------------- MODULE MCListColumn ----------------------------
(* Small instances of ListColumn for TLC.                                  *)
EXTENDS ListColumnInvariant

CONSTANT a

\* Rows of lists of lists: a null row, an empty row, an empty and a null
\* inner list, a missing element, and lists whose lengths differ at both levels.
Nested == {Null, <<>>, << <<>>, <<a>> >>, << <<a, Null>>, Null >>}

Entries2 == <<Nested, {Null, <<>>, <<a>>, <<a, Null>>}, {Null, a}>>
=============================================================================
