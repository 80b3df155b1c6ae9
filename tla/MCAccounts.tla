----------------------------- MODULE MCAccounts -----------------------------
(* An instance of Accounts whose invite codes are good for two accounts.   *)
EXTENDS Accounts, TLC

CONSTANTS p1, p2, c1, c2

MCSymmetry == Permutations(Password \ {NoPassword}) \cup Permutations(Code)
=============================================================================
