----------------------------- MODULE CoreSchema -----------------------------
(***************************************************************************)
(* The migration table of the core store: for each version its statements, *)
(* of which only the kind matters. A "create" is CREATE TABLE IF NOT       *)
(* EXISTS with the indexes of that table and may be run again; an "add" is *)
(* ALTER TABLE ADD COLUMN, which fails when the column is there.           *)
(***************************************************************************)
EXTENDS Naturals, Sequences

Creates(n) == [i \in 1 .. n |-> "create"]
Adds(n) == [i \in 1 .. n |-> "add"]

\* Versions 1 to 5: the baseline, allow_insecure, the policy tables, the
\* profile tables, the client profiles.
PolicyVersions == << <<>>, Adds(1), Creates(4), Creates(4), Creates(1) >>

\* Versions 6 to 14: columns of the settings, access, revision, inbound and
\* subscription tables, the TLS profiles and the usage snapshots.
ColumnVersions ==
    << Adds(4), Adds(6), Adds(6), Adds(4), Adds(4), Adds(2),
       Creates(1) \o Adds(2), Adds(7), Creates(1) >>

CoreMigrations == PolicyVersions \o ColumnVersions

\* The tables whose CREATE TABLE of the core store already has what a
\* migration adds: five columns of core_subscriptions, two of
\* core_subscription_tokens, and the table of version 14 itself.
CoreTables == << "subscriptions", "tokens", "usage" >>
CoreBorn == [t \in {"subscriptions", "tokens", "usage"} |->
               CASE t = "subscriptions" -> {<<13, i>> : i \in 1 .. 5}
                 [] t = "tokens" -> {<<13, i>> : i \in 6 .. 7}
                 [] t = "usage" -> {<<14, 1>>}]
\* The repository creates the first two, with the older columns only.
CoreRepoTables == << "subscriptions", "tokens" >>
=============================================================================
