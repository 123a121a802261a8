-------------------------- MODULE SchemaMigrations --------------------------
(***************************************************************************)
(* How the processes that open the SQLite database bring its schema up to  *)
(* date. `serve` opens it twice, first as the repository and then as the   *)
(* core store; bootstrap-admin, sqlite-backup and export open only the     *)
(* repository, bootstrap-inbounds and refresh-inbounds only the core store.*)
(* Every statement commits by itself, also the row that records a version. *)
(***************************************************************************)
EXTENDS Naturals, Sequences

CONSTANTS Proc,         \* processes of the host that may open the database
          Migrations,   \* version -> its statements, each "create" or "add"
          StoreTables,  \* tables the core store creates, in order
          RepoTables,   \* those of them the repository creates, in order
          Born,         \* table -> what the core store's CREATE gives it
          Files         \* the version rows of each database file that may be restored

Versions == 1 .. Len(Migrations)
Objects == UNION {{<<v, i>> : i \in 1 .. Len(Migrations[v])} : v \in Versions}
ObjectsOf(v) == {o \in Objects : o[1] = v}
Added == {o \in Objects : Migrations[o[1]][o[2]] = "add"}
TableNames == {StoreTables[i] : i \in 1 .. Len(StoreTables)}

ASSUME SchemaAssumption ==
    /\ Migrations \in Seq(Seq({"create", "add"})) /\ Len(Migrations) >= 1
    /\ Migrations[1] = <<>>
    /\ StoreTables \in Seq(STRING) /\ Len(StoreTables) >= 1
    /\ RepoTables \in Seq(TableNames) /\ Len(RepoTables) >= 1
    /\ Born \in [TableNames -> SUBSET Objects]
    /\ Files \subseteq SUBSET Versions

VARIABLES tables,     \* which of TableNames exist
          objects,    \* which tables and columns of migrations exist
          rows,       \* core_schema_migrations
          op,         \* process -> where its start is
          broken,     \* history: why a column exists without its row
          imported,   \* history: versions recorded by a restored file, not applied here
          disrupted   \* history: a process died or rows were restored
vars == <<tables, objects, rows, imported, op, broken, disrupted>>

Commands == {"serve", "repository", "store"}
Opening == {"repo", "baseline", "core", "check", "statement", "record"}
\* `alone`: no other process was opening the database since this one began.
Closed == [step |-> "closed", cmd |-> "serve", v |-> 1, i |-> 1,
           alone |-> FALSE]
Active(p) == op[p].step \in Opening

Start == [step : Opening \cup {"closed", "ready", "failed"}, cmd : Commands,
          v : 1 .. Len(Migrations) + 1, i : Nat \ {0},
          alone : BOOLEAN]

TypeOK ==
    /\ tables \subseteq TableNames /\ objects \subseteq Objects
    /\ rows \subseteq Versions /\ imported \subseteq Versions
    /\ op \in [Proc -> Start]
    /\ broken \subseteq {"half", "shape", "rollback"}
    /\ disrupted \in BOOLEAN

Init ==
    /\ tables = {} /\ objects = {} /\ rows = {} /\ imported = {}
    /\ op = [p \in Proc |-> Closed]
    /\ broken = {} /\ disrupted = FALSE

-----------------------------------------------------------------------------
Go(p, step) == op' = [op EXCEPT ![p].step = step]

\* Nobody else can still say it is alone.
Begin(p, cmd) ==
    /\ op[p].step = "closed"
    /\ op' = [q \in Proc |->
                IF q = p THEN [step |-> IF cmd = "store" THEN "core" ELSE "repo",
                               cmd |-> cmd, v |-> 1, i |-> 1,
                               alone |-> \A r \in Proc : ~Active(r)]
                ELSE [op[q] EXCEPT !.alone = FALSE]]
    /\ UNCHANGED <<tables, objects, rows, imported, broken, disrupted>>

\* SQLiteRepository.ensureCoreSchema, one CREATE TABLE IF NOT EXISTS.
RepoCreates(p) ==
    /\ op[p].step = "repo"
    /\ tables' = tables \cup {RepoTables[op[p].i]}
    /\ op' = [op EXCEPT ![p].step = IF op[p].i = Len(RepoTables) THEN "baseline" ELSE "repo",
                        ![p].i = IF op[p].i = Len(RepoTables) THEN 1 ELSE @ + 1]
    /\ UNCHANGED <<objects, rows, imported, broken, disrupted>>

\* INSERT OR IGNORE of version 1.
RecordBaseline(p) ==
    /\ op[p].step = "baseline"
    /\ rows' = rows \cup {1}
    /\ Go(p, IF op[p].cmd = "serve" THEN "core" ELSE "ready")
    /\ UNCHANGED <<tables, objects, imported, broken, disrupted>>

\* Store.ensureSchema, one CREATE TABLE IF NOT EXISTS.
StoreCreates(p) ==
    LET t == StoreTables[op[p].i]
        new == IF t \in tables THEN {} ELSE Born[t]
    IN  /\ op[p].step = "core"
        /\ tables' = tables \cup {t}
        /\ objects' = objects \cup new
        /\ broken' = IF new \cap Added = {} THEN broken ELSE broken \cup {"shape"}
        /\ op' = [op EXCEPT ![p].step = IF op[p].i = Len(StoreTables) THEN "check" ELSE "core",
                            ![p].i = IF op[p].i = Len(StoreTables) THEN 1 ELSE @ + 1]
        /\ UNCHANGED <<rows, imported, disrupted>>

\* Mutation of CheckVersion: the recorded versions are not looked at.
CheckVersionAlways(p) ==
    /\ op[p].step = "check"
    /\ IF op[p].v = Len(Migrations) + 1 THEN Go(p, "ready")
       ELSE op' = [op EXCEPT ![p].i = 1,
                     ![p].step = IF Migrations[op[p].v] = <<>> THEN "record" ELSE "statement"]
    /\ UNCHANGED <<tables, objects, rows, imported, broken, disrupted>>
\* Mutation of CheckVersion: the loop ends one version early.
CheckVersionShort(p) ==
    /\ op[p].step = "check"
    /\ \/ /\ op[p].v = Len(Migrations)
          /\ Go(p, "ready")
       \/ /\ op[p].v < Len(Migrations) /\ op[p].v \in rows
          /\ op' = [op EXCEPT ![p].v = @ + 1]
       \/ /\ op[p].v < Len(Migrations) /\ op[p].v \notin rows
          /\ op' = [op EXCEPT ![p].i = 1,
                       ![p].step = IF Migrations[op[p].v] = <<>> THEN "record" ELSE "statement"]
    /\ UNCHANGED <<tables, objects, rows, imported, broken, disrupted>>
\* The next round of the loop of runMigrations, or its end.
CheckVersion(p) ==
    /\ op[p].step = "check"
    /\ \/ /\ op[p].v = Len(Migrations) + 1
          /\ Go(p, "ready")
       \/ /\ op[p].v \in rows
          /\ op' = [op EXCEPT ![p].v = @ + 1]
       \/ /\ op[p].v \in Versions \ rows
          /\ op' = [op EXCEPT ![p].i = 1,
                       ![p].step = IF Migrations[op[p].v] = <<>> THEN "record" ELSE "statement"]
    /\ UNCHANGED <<tables, objects, rows, imported, broken, disrupted>>

Fails(p) ==
    /\ Go(p, "failed")
    /\ UNCHANGED <<tables, objects, rows, imported, broken, disrupted>>

\* Mutation of Statement: a column that exists ends the version's statements.
StatementLast(p) ==
    /\ op[p].step = "statement"
    /\ LET o == <<op[p].v, op[p].i>>
       IN  IF o \in objects /\ o \in Added THEN Go(p, "record") /\ UNCHANGED objects
           ELSE /\ objects' = objects \cup {o}
                /\ op' = [op EXCEPT ![p].i = @ + 1,
                             ![p].step = IF op[p].i = Len(Migrations[op[p].v])
                                         THEN "record" ELSE "statement"]
    /\ UNCHANGED <<tables, rows, imported, broken, disrupted>>

\* One statement of a version: ALTER TABLE fails if its column exists.
Statement(p) ==
    LET o == <<op[p].v, op[p].i>>
    IN  /\ op[p].step = "statement"
        /\ IF o \in objects /\ o \in Added THEN Fails(p)
           ELSE /\ objects' = objects \cup {o}
                /\ op' = [op EXCEPT ![p].i = @ + 1,
                             ![p].step = IF op[p].i = Len(Migrations[op[p].v])
                                         THEN "record" ELSE "statement"]
                /\ UNCHANGED <<tables, rows, imported, broken, disrupted>>

\* Mutation of RecordVersion: the row is not written.
RecordVersionNoRow(p) ==
    /\ op[p].step = "record"
    /\ op' = [op EXCEPT ![p].step = "check", ![p].v = @ + 1]
    /\ UNCHANGED <<tables, objects, rows, imported, broken, disrupted>>
\* INSERT, refused when another process has recorded the version meanwhile.
RecordVersion(p) ==
    /\ op[p].step = "record"
    /\ IF op[p].v \in rows THEN Fails(p)
       ELSE /\ rows' = rows \cup {op[p].v}
            /\ op' = [op EXCEPT ![p].step = "check", ![p].v = @ + 1]
            /\ UNCHANGED <<tables, objects, imported, broken, disrupted>>

Continue(p) ==
    \/ RepoCreates(p) \/ RecordBaseline(p) \/ StoreCreates(p)
    \/ CheckVersion(p) \/ Statement(p) \/ RecordVersion(p)

-----------------------------------------------------------------------------
\* A command ends, or a server stops.
Close(p) ==
    /\ op[p].step \in {"ready", "failed"}
    /\ op' = [op EXCEPT ![p] = Closed]
    /\ UNCHANGED <<tables, objects, rows, imported, broken, disrupted>>

\* The columns of its version that a process has added and not recorded.
Pending(p) ==
    {o \in Added : /\ o[1] = op[p].v
                   /\ \/ op[p].step = "record"
                      \/ op[p].step = "statement" /\ o[2] < op[p].i}

Crash(p) ==
    /\ Active(p)
    /\ op' = [op EXCEPT ![p] = Closed]
    /\ broken' = IF Pending(p) = {} THEN broken ELSE broken \cup {"half"}
    /\ disrupted' = TRUE
    /\ UNCHANGED <<tables, objects, rows, imported>>

\* RestoreFromBackup in a running server, which serves also when its core store
\* failed to open. The file is any that has an admin: an older imported, that of
\* another installation, one without the table of versions. The rows become those
\* of the file, the schema stays.
Restore(p) ==
    /\ op[p].cmd = "serve" /\ op[p].step \in {"ready", "failed"}
    /\ \E file \in Files :
          /\ rows' = file
          /\ imported' = imported \cup {v \in file : ~(ObjectsOf(v) \subseteq objects)}
          /\ broken' = IF \E o \in Added \cap objects : o[1] \in rows \ file
                       THEN broken \cup {"rollback"} ELSE broken
    /\ disrupted' = TRUE
    /\ op' = [q \in Proc |-> [op[q] EXCEPT !.alone = FALSE]]
    /\ UNCHANGED <<tables, objects>>

Next == \E p \in Proc :
    \/ \E cmd \in Commands : Begin(p, cmd)
    \/ Continue(p) \/ Close(p) \/ Crash(p) \/ Restore(p)

Spec == Init /\ [][Next]_vars
FairSpec == Spec /\ \A p \in Proc : WF_vars(Continue(p))

-----------------------------------------------------------------------------
(* Whatever starts overlap, die or are followed by restores, a version     *)
(* recorded in core_schema_migrations has all its tables and columns (the  *)
(* loop of runMigrations records a version after its statements, and the   *)
(* schema only grows). The one exception are versions that a restored file *)
(* recorded here before they were applied: the rows of another database    *)
(* say nothing of this one, and restoreManagedTablesTx does not ask.       *)
RecordedIsApplied == \A v \in rows \ imported : ObjectsOf(v) \subseteq objects

(* A process whose core store has opened works on the complete schema,     *)
(* also when others started, failed or restored rows meanwhile (NewStore   *)
(* returns a store only after runMigrations) - save the versions that a    *)
(* restored file claimed while they were missing, which no start applies   *)
(* any more.                                                               *)
OpenStoreIsComplete ==
    \A p \in Proc : op[p].step = "ready" /\ op[p].cmd # "repository" =>
        \A o \in Objects : o \in objects \/ o[1] \in imported

(* A column that is there without its version being recorded makes every   *)
(* later start fail, because runMigrations adds it again. Unless a process *)
(* died between an ALTER and its row, the core store created the table or  *)
(* a restore withdrew the row, such a column belongs to a process that is  *)
(* about to record it: overlapping starts alone never lock the database.   *)
AddedColumnHasOwner ==
    broken = {} => \A o \in Added \cap objects :
        o[1] \in rows \/ \E p \in Proc : o \in Pending(p)

(* A start that no other start overlaps succeeds on a database nobody      *)
(* damaged; in particular it resumes after any crash that did not fall     *)
(* between an ALTER and its row.                                           *)
SoloStartSucceeds ==
    broken = {} => \A p \in Proc : op[p].alone => op[p].step # "failed"

(* Once the baseline row is there and a process goes through the loop of   *)
(* runMigrations, all versions are recorded in the end, although processes *)
(* overtake each other and make one another fail - unless one dies, rows   *)
(* are restored or the schema was damaged. (Without the baseline row, a   *)
(* repository that inserts it makes an overlapping first start of the core *)
(* store fail, and nobody goes on.)                                        *)
MigrationCompletes ==
    (1 \in rows /\ \E p \in Proc : op[p].step = "check") ~>
        (rows = Versions \/ disrupted \/ broken # {})

=============================================================================
