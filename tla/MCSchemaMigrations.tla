------------------------- MODULE MCSchemaMigrations -------------------------
(* Two processes, on the whole migration table or on one version of each   *)
(* kind: the baseline, a column, a table, both, columns of the CREATE.     *)
EXTENDS SchemaMigrations, CoreSchema

Chosen == << 1, 2, 12, 13 >>
MCMigrations == [i \in 1 .. Len(Chosen) |-> CoreMigrations[Chosen[i]]]
MCBorn == [t \in DOMAIN CoreBorn |->
             {<<i, j>> \in (1 .. Len(Chosen)) \X (1 .. 7) : <<Chosen[i], j>> \in CoreBorn[t]}]
\* An older file, and one of a complete schema.
MCFiles == {1 .. 2, 1 .. Len(Chosen)}
=============================================================================
