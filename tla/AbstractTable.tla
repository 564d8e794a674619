---------------------------- MODULE AbstractTable ----------------------------
(***************************************************************************)
(* What an h5col table promises its caller: the committed rows change only *)
(* at one instant of a call, to exactly what the call asked for, or not at *)
(* all.  There are no extents, tokens or indexes here, only rows.          *)
(***************************************************************************)
EXTENDS Naturals

CONSTANTS Columns, Cell, MaxRows

VARIABLES
  rows,    \* the committed values of each column
  phase,   \* of the call in progress: "ready", "working" or "done"
  goal     \* the rows the call is to leave behind

vars == <<rows, phase, goal>>

Tables(n) == [Columns -> [1..n -> Cell]]

Init ==
  /\ rows \in Tables(0)
  /\ phase = "ready" /\ goal = rows

\* A table whose first m rows are those committed now.
Agrees(table, m) == \A c \in Columns, r \in 1..m : table[c][r] = rows[c][r]

\* n is the number of committed rows, m the number asked for.
Call(n, m) ==
  /\ phase = "ready" /\ rows \in Tables(n)
  /\ phase' = "working"
  /\ goal' \in Tables(m)
  /\ Agrees(goal', IF m < n THEN m ELSE n)
  /\ UNCHANGED rows

Commit == phase = "working" /\ phase' = "done" /\ rows' = goal /\ UNCHANGED goal

\* The caller gets its answer, or an exception, or never hears of it.
Return == phase # "ready" /\ phase' = "ready" /\ goal' = rows /\ UNCHANGED rows

Next == (\E n, m \in 0..MaxRows : Call(n, m)) \/ Commit \/ Return

Spec == Init /\ [][Next]_vars
=============================================================================
