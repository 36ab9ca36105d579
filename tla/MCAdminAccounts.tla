-------------------------- MODULE MCAdminAccounts ---------------------------
(***************************************************************************)
(* AdminAccounts for TLC: a super admin and one account more, two requests *)
(* in progress at a time, and a limit that takes two reports.              *)
(***************************************************************************)
EXTENDS AdminAccounts, TLC

Symmetry == Permutations(Request)
=============================================================================
