---------------------------- MODULE MCGrepDynamic ----------------------------
(***************************************************************************)
(* Instances of GrepDynamic for TLC.                                       *)
(***************************************************************************)
EXTENDS GrepDynamic, MCGrep
=============================================================================
