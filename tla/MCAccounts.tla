----------------------------- MODULE MCAccounts -----------------------------
(***************************************************************************)
(* Accounts for TLC: two accounts, two names, two passwords, two requests  *)
(* in progress at a time and two recovery tokens, so that tokens of two    *)
(* accounts, and an old and a new token of one, meet.                      *)
(***************************************************************************)
EXTENDS Accounts, TLC

Symmetry == Permutations(Request) \cup Permutations(User) \cup Permutations(Name)
                \cup Permutations(Password)
=============================================================================
