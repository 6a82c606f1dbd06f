----------------------------- MODULE MCHandover -----------------------------
\* Instances of Handover for TLC.
EXTENDS Handover, TLC

Symmetry == Permutations(Clusters)
=============================================================================
