-------------------------- MODULE MCMigrationBatch --------------------------
\* Instances of MigrationBatch for TLC: a batch of two, and one migration that
\* is not part of it.
EXTENDS MigrationBatch, TLC

CONSTANTS m1, m2
TwoMembers == <<m1, m2>>

\* Goroutines are interchangeable; the members of a batch are not.
Symmetry == Permutations(Workers)
=============================================================================
