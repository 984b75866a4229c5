----------------------------- MODULE MCAccounts -----------------------------
(* Sessions and accounts on a small instance: the requests are alike. *)
EXTENDS Accounts, TLC

MCSymmetry == Permutations(Requests)
=============================================================================
