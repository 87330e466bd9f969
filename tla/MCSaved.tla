------------------------------ MODULE MCSaved ------------------------------
(***************************************************************************)
(* Saved with one article whose feed calls it by two guids, so that it may *)
(* be two, or with two pieces, one of which a second feed carries too.     *)
(***************************************************************************)
EXTENDS Saved, TLC

CONSTANTS g1, g2, g3, s1, c1, p1

OneFeed == [i \in Guids |-> "feed"]
Mirrored == [i \in Guids |-> IF i = g2 THEN "mirror" ELSE "feed"]
SharedLink == [i \in Guids |-> IF i = g3 THEN "other" ELSE "one"]
=============================================================================
