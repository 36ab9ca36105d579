----------------------------- MODULE MCKeySync ------------------------------
(***************************************************************************)
(* KeySync for TLC: three keys, of which two verify at a time, and two     *)
(* workers, so that the JWKS changes while both fetch it.                  *)
(***************************************************************************)
EXTENDS KeySync, TLC

Symmetry == Permutations(Kid) \cup Permutations(Worker)
=============================================================================
