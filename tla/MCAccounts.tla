----------------------------- MODULE MCAccounts -----------------------------
(***************************************************************************)
(* Accounts with two administrators, or with an ordinary account and the   *)
(* administrator invited from the command line of an instance that had     *)
(* none.  Cookies, passwords and requests are alike.                       *)
(***************************************************************************)
EXTENDS Accounts, TLC

CONSTANTS ada, ben, eve, old, new, t1, t2, t3, h1, h2

Alike == Permutations(Tokens) \cup Permutations(Passwords) \cup Permutations(Handlers)
=============================================================================
