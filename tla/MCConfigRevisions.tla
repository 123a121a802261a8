-------------------------- MODULE MCConfigRevisions --------------------------
(* Instances of ConfigRevisions for TLC. *)
EXTENDS ConfigRevisions, TLC

CONSTANTS s1, s2, u1

\* Servers created without a path get the same default path and service.
MCSharedUnit == [s \in Servers |-> u1]

\* The highest version of the access part is one that sing-box rejects.
MCValid == {c \in Configs : c.access < MaxAccess}

\* Everything is accepted: leaves room for more versions that can be applied.
MCAllValid == Configs

Symmetry == Permutations(Procs) \cup Permutations(RevIds)
=============================================================================
