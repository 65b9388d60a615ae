-------------------------- MODULE MCMigrationSystem --------------------------
(* Values for the constants of MigrationSystem that a cfg cannot write.    *)
EXTENDS MigrationSystem, TLC

NoRowsCounted == [t \in Tables |-> 0]
SomeRowsCounted == [t \in Tables |-> t]

Symmetry == Permutations(Workers) \cup Permutations(Requests)

==============================================================================
