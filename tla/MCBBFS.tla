------------------------------- MODULE MCBBFS -------------------------------
(***************************************************************************)
(* Instances of BBFS for TLC.                                              *)
(***************************************************************************)
EXTENDS BBFS, TLC

CONSTANTS x, y, o1, o2, h1, h2, t1, t2

\* Names, objects, handles and threads are interchangeable.
Symmetric ==
  Permutations(Names) \cup Permutations(Objects) \cup Permutations(Handles)
    \cup Permutations(Threads)

=============================================================================
