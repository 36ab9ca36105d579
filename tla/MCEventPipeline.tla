-------------------------- MODULE MCEventPipeline ---------------------------
\* Instance of EventPipeline for TLC.
EXTENDS EventPipeline, TLC

Symmetry == Permutations(Entry) \cup Permutations(Worker)
=============================================================================
