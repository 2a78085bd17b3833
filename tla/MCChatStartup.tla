---------------------------- MODULE MCChatStartup ----------------------------
(***************************************************************************)
(* An instance of ChatStartup for TLC: two servers, a client whose name    *)
(* has a key of its own, and a client whose name has the key of the        *)
(* server's.                                                               *)
(***************************************************************************)
EXTENDS ChatStartup, TLC

CONSTANTS server1, server2, client1, client2, n1, n2, k0, k1, s1, s2, s3, s4

Started == [p \in Procs |-> CASE p \in Servers -> SERVER_NAME
                              [] p = client1   -> n1
                              [] p = client2   -> n2]

Hash == [n \in Names |-> IF n = n1 THEN k1 ELSE k0]

\* Segments are interchangeable, and so are servers.
Symmetric == Permutations(Segments) \cup Permutations(Servers)

=============================================================================
