---------------------------- MODULE MCGrepStatic ----------------------------
(***************************************************************************)
(* Instances of GrepStatic for TLC.                                        *)
(***************************************************************************)
EXTENDS GrepStatic, MCGrep

=============================================================================
