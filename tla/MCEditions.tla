----------------------------- MODULE MCEditions -----------------------------
(***************************************************************************)
(* Instances of Editions for TLC: one reader, one page, two feeds.         *)
(***************************************************************************)
EXTENDS Editions, TLC

CONSTANTS p1, f, g, a, b, reader

OneArticleEach == a :> f @@ b :> g
Owner == p1 :> reader
OwnLink == [x \in Articles |-> x]
AllFilters == {{}, {f}, {f, g}}
=============================================================================
