------------------------------ MODULE GrepWork ------------------------------
(***************************************************************************)
(* What a search of a file tree amounts to: a set of things to handle, in  *)
(* any order, each of which adds to the total and may reveal more.         *)
(***************************************************************************)
EXTENDS Integers

CONSTANTS
  Root,           \* where the search starts
  Reveals(_),     \* what handling something adds to the work
  Yields(_)       \* what it adds to the total

VARIABLES todo, total

workVars == <<todo, total>>

Init ==
  /\ todo = {Root}
  /\ total = 0

Handle(n) ==
  /\ n \in todo
  /\ todo' = (todo \ {n}) \cup Reveals(n)
  /\ total' = total + Yields(n)

Next == \E n \in todo : Handle(n)
Spec == Init /\ [][Next]_workVars

=============================================================================
