----------------------------- MODULE MCRecovery -----------------------------
(***************************************************************************)
(* Recovery with one account, or two and one that is invited.              *)
(***************************************************************************)
EXTENDS Recovery

CONSTANTS ada, ben, eve, i1, i2, t1, t2, h1, h2
=============================================================================
