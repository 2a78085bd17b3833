------------------------------- MODULE MCGrep -------------------------------
(***************************************************************************)
(* File trees for TLC.  The path searched is /, whose .. is itself.        *)
(***************************************************************************)
EXTENDS MiniGrep, TLC

CONSTANTS root, d1, d2, d3, f1, f2, f3, a, b, c, dot, dotdot, nowhere

LOCAL Leads(f, up) ==
  f @@ (dotdot :> up) @@ [n \in {a, b, c} |-> nowhere]

\* Two directories side by side.
TwinListing ==
  root :> <<a, b>> @@ d1 :> <<dot, a>> @@ d2 :> <<b, dot>>
TwinTarget ==
  root :> Leads(dot :> root @@ a :> d1 @@ b :> d2, root)
    @@ d1 :> Leads(dot :> d1 @@ a :> f1, root)
    @@ d2 :> Leads(dot :> d2 @@ b :> f2, root)

\* Two directories, and one in one of them.
DeepListing ==
  root :> <<a, dot, b, dotdot>> @@ d1 :> <<a, c>> @@ d2 :> <<b>> @@ d3 :> <<dotdot, b>>
DeepTarget ==
  root :> Leads(dot :> root @@ a :> d1 @@ b :> d2, root)
    @@ d1 :> Leads(dot :> d1 @@ a :> f1 @@ c :> d3, root)
    @@ d2 :> Leads(dot :> d2 @@ b :> f2, root)
    @@ d3 :> Leads(dot :> d3 @@ b :> f3, d1)

\* Different counts, so that one in place of another is noticed.
SomeHits == [f \in Files |-> CASE f = f1 -> 1 [] f = f2 -> 2 [] f = f3 -> 4]

\* What the theorems assume of a tree holds of these.
ASSUME MCGrepAssumption == Tree

=============================================================================
