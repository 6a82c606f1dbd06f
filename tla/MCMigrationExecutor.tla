------------------------ MODULE MCMigrationExecutor ------------------------
\* Instances of MigrationExecutor for TLC.
EXTENDS MigrationExecutor, TLC

\* Goroutines, requests and migrations are interchangeable.
Symmetry == Permutations(Workers) \cup Permutations(Handlers) \cup Permutations(Migrations)
=============================================================================
