----------------------------- MODULE MCFetching -----------------------------
(***************************************************************************)
(* Fetching with one row.                                                  *)
(***************************************************************************)
EXTENDS Fetching, TLC

CONSTANTS f1, w1, u1

OneUrl == [f \in Feeds |-> u1]
=============================================================================
