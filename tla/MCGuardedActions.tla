-------------------------- MODULE MCGuardedActions --------------------------
\* Instance of GuardedActions for TLC.
EXTENDS GuardedActions, TLC

RequestSymmetry == Permutations(Request)
=============================================================================
