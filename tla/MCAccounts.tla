----------------------------- MODULE MCAccounts -----------------------------
(* Accounts for TLC.  Browsers are alike, and so are the ids of users.     *)
EXTENDS Accounts, TLC

AccountsSymmetry == Permutations(Clients) \cup Permutations(Ids)
=============================================================================
