----------------------------- MODULE MCAccounts -----------------------------
(* An administrator and two more usernames, two requests at a time.        *)
EXTENDS Accounts, TLC
Symmetry == Permutations(Names \ {Admin}) \cup Permutations(Requests)
=============================================================================
