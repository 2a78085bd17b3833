---------------------------- MODULE MCGrepMatch ----------------------------
(***************************************************************************)
(* All words of up to 3 and all texts of up to 6 characters, of two kinds. *)
(***************************************************************************)
EXTENDS GrepMatch

CONSTANTS a, b

UpTo(n) == UNION {[1..k -> {a, b}] : k \in 0..n}

ShortWords == UpTo(3) \ {<<>>}
ShortTexts == UpTo(6)

=============================================================================
