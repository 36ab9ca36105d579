---------------------------- MODULE MCKeyStore ----------------------------
EXTENDS KeyStore, TLC

Symmetry == Permutations(Kid) \cup Permutations(Worker) \cup Permutations(Req)
=============================================================================
