---------------------------- MODULE MCMeasuring ----------------------------
(***************************************************************************)
(* Measuring with two pictures, one of which two articles share.           *)
(***************************************************************************)
EXTENDS Measuring, TLC

CONSTANTS j1, j2, a, b, c, w1

Shared == a :> j1 @@ b :> j1 @@ c :> j2
=============================================================================
