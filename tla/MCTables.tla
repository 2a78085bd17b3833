------------------------------ MODULE MCTables ------------------------------
(***************************************************************************)
(* An instance of Tables for TLC: three of four keys share a bin, so that  *)
(* entries come to lie before, between and behind others.                  *)
(***************************************************************************)
EXTENDS Tables, TLC

CONSTANTS a, b, v1, v2, b1, b2, l1, l2, l3, n1, n2, n3, n4, e1, e2, e3

Hash == [k \in Keys |-> IF k = 4 THEN b2 ELSE b1]

\* Blocks that are free are all alike, so it does not matter which one CHOOSE
\* takes: each choice leads to the same states but for the names of blocks.
Symmetric ==
  Permutations(NodeBlocks) \cup Permutations(ListBlocks) \cup Permutations(EntryBlocks)

=============================================================================
