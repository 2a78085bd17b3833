---------------------------- MODULE MCAtomicFile ----------------------------
(***************************************************************************)
(* Instances of AtomicFile for TLC.                                        *)
(***************************************************************************)
EXTENDS AtomicFile

CONSTANTS p1, p2, t1, t2, s1, s2, log

=============================================================================
