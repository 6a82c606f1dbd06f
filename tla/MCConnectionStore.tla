------------------------- MODULE MCConnectionStore -------------------------
\* Instances of ConnectionStore for TLC.
EXTENDS ConnectionStore, TLC

CONSTANTS t1, t2

\* t2 names an environment variable whose value is t1.
MCExpanded == [t \in Tokens \cup {Blank} |-> IF t = t2 THEN t1 ELSE t]

Symmetry == Permutations(Names) \cup Permutations(Pods) \cup Permutations(Requests)
=============================================================================
