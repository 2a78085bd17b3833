------------------------------- MODULE MCChat -------------------------------
(***************************************************************************)
(* Instances of Chat for TLC.                                              *)
(***************************************************************************)
EXTENDS Chat

CONSTANTS c1, c2, c3, g1, g2, x1

\* What an uninitialised message.type may be without a private message closing
\* its recipient: the first type of the enumeration, or a number outside it.
MildTypes == {"JOIN_CREATE_GROUP", "UNKNOWN"}

\* Clients, and groups, are interchangeable: for safety properties only.
Symmetric == Permutations(Clients) \cup Permutations(Groups)

=============================================================================
