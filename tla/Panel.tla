-------------------------------- MODULE Panel --------------------------------
(***************************************************************************)
(* The database behind the panel: administrators and their sessions, the   *)
(* limiter of login attempts, backups and restores.                        *)
(*                                                                         *)
(* The database is a main file and a write-ahead log, as SQLite keeps it.  *)
(* A transaction is one step; what takes several connections, files or     *)
(* commands is a step each.  A pooled connection is taken from the end of  *)
(* the list of idle ones and put back there; only the first one that was   *)
(* opened enforces foreign keys.                                           *)
(*                                                                         *)
(* Of the rows a content keeps the administrators, the sessions and        *)
(* whether the policies of the servers are there: admins and sessions      *)
(* stand for the tables that a restore copies, policies for those it does  *)
(* not.  A password is right or wrong.                                     *)
(***************************************************************************)
EXTENDS Integers, FiniteSets, SequencesExt

CONSTANTS
    Emails, AdminIds, Tokens,  \* of administrators and sessions
    Addresses,      \* client addresses
    Procs,          \* concurrent requests
    Conns,          \* connections of the pool
    Initial,        \* the database that an instance begins with
    Foreign,        \* files that are no backup of this database
    Kinds,          \* the requests an instance may issue
    Faults,         \* the failures that may happen
    Burst, Window,  \* of the login limiter
    TTL,            \* lifetime of a session
    MaxTime,        \* bound on the clock, whose unit is a second
    MaxRequests,    \* bound on the number of requests
    MaxCommands,    \* bound on commands of the operator and writes of the background
    None            \* no id, no connection, no content

RequestKinds == {"login", "logout", "call", "restore", "download"}

Session == [admin : AdminIds, expires : 0 .. MaxTime + TTL]
SessionTables == UNION {[S -> Session] : S \in SUBSET Tokens}

\* The tables are absent from a file that no panel wrote.
Contents == [tables : BOOLEAN, admins : [Emails -> AdminIds \cup {None}],
             sessions : SessionTables, policies : BOOLEAN]

\* FOREIGN KEY(admin_id) REFERENCES admins(id).
Sound(c) == \A t \in DOMAIN c.sessions : \E e \in Emails : c.admins[e] = c.sessions[t].admin

Empty == [tables |-> TRUE, admins |-> [e \in Emails |-> None], sessions |-> [t \in {} |-> None],
          policies |-> FALSE]

ASSUME NamesAssumption ==
    /\ None \notin AdminIds \cup Tokens \cup Conns \cup Addresses \cup Procs
    /\ None \notin Contents
    /\ Conns # {}

ASSUME LimiterAssumption == Burst \in Nat \ {0} /\ Window \in Nat \ {0} /\ TTL \in Nat

ASSUME InitialAssumption == Initial \in Contents /\ Sound(Initial) /\ Initial.tables

\* A file from elsewhere is a sound panel database, or lacks the tables of one.
ASSUME ForeignAssumption ==
    \A c \in Foreign : /\ c \in Contents /\ Sound(c)
                       /\ ~c.tables => c = [Empty EXCEPT !.tables = FALSE]

ASSUME EnvironmentAssumption ==
    /\ Kinds \subseteq RequestKinds
    /\ Faults \subseteq {"db", "cancel", "kill", "disk"}
    /\ MaxTime \in Nat /\ MaxRequests \in Nat /\ MaxCommands \in Nat

VARIABLES
    now,        \* the clock
    main, wal,  \* the database file, and the database if the log holds more
    up,         \* the service runs
    idle,       \* idle connections, the last one is taken first
    attached,   \* connections on which a backup is attached as src
    writer,     \* the connection of a statement of the background, if one is under way
    released,   \* history: the restore whose connection was the last change to idle
    stray,      \* history: attached connections whose restore lost its DETACH, since its
                \* client was gone or other statements came between
    admitted,   \* stamps of the attempts the limiter let through since the last reset
    attempt,    \* LoginRateLimiter.attempt, the numbers of those whose stamp it keeps
    files,      \* files of backups/ by the second they are named after
    backup,     \* the newest backup the operator keeps
    op,         \* op[p]: the request p and how far it has come
    cmd,        \* the offline restore and how far it has come
    issued,     \* tokens given out so far: they are drawn at random
    begun, commands, \* requests so far, and commands and writes of the background
    overtaken,  \* history: an attempt was decided after one with a later stamp
    held,       \* history: tokens of logins that were answered, to the next logout
                \* or restore
    lost,       \* history: those of them that were only in a log which a kill had left
                \* and an offline restore dropped
    orderly     \* history: the last stop of the service left no request behind

Pcs == {"idle", "arrive", "allow", "lookup", "reset", "create", "auth", "delete", "name",
        "vacuum", "copying", "open", "attach", "copy", "release", "detach", "done"}

Results == {"none", "ok", "limited", "refused", "unavailable", "failed"}
Refusals == {"none", "attached", "empty", "failed", "cancelled"}

Op == [kind : RequestKinds, pc : Pcs,
       result : Results,
       address : Addresses \cup {None},  \* of a login, with
       stamp : 0 .. MaxTime,             \* the time it arrived,
       admin : AdminIds \cup {None},     \* the administrator found and
       expires : 0 .. MaxTime + TTL,     \* the expiry of the session to come
       token : Tokens \cup {None},       \* of the session of another request
       source : Contents,                \* file uploaded
       conn : Conns \cup {None},         \* connection held
       used : Conns \cup {None},         \* history: the one a restore ran on
       name : 0 .. MaxTime,              \* second a download is named after,
       content : Contents \cup {None},   \* what it copied and
       sent : Contents \cup {None},      \* what it sent
       refusal : Refusals,
       shared : BOOLEAN]                 \* history: beside a download of the same second

Command == [pc : {"idle", "save", "dropLog", "replace", "ended"}, source : Contents,
            rollback : Contents \cup {None}, found : Contents]

File == [writer : Procs, content : Contents \cup {None}]

storage == <<main, wal, files, backup>>
pool == <<idle, attached, writer, released, stray>>
logins == <<held, lost>>
limiter == <<attempt, admitted, overtaken>>
vars == <<now, storage, up, pool, limiter, op, cmd, issued, begun, commands, logins, orderly>>

Database == IF wal = None THEN main ELSE wal

NoOp == [kind |-> "call", pc |-> "idle", result |-> "none", address |-> None, stamp |-> 0,
         token |-> None, admin |-> None, expires |-> 0, source |-> Empty, conn |-> None,
         used |-> None, name |-> 0, content |-> None, sent |-> None, refusal |-> "none",
         shared |-> FALSE]

\* An offline restore: its source, the copy it made of the old file, and (history)
\* the database that it found.
NoCmd == [pc |-> "idle", source |-> Empty, rollback |-> None, found |-> Empty]

Init ==
    /\ now = 0
    /\ main = Initial /\ wal = None
    /\ up = FALSE
    /\ idle = <<>> /\ attached = {} /\ writer = None /\ released = None /\ stray = {}
    /\ attempt = [a \in Addresses |-> {}]
    /\ files = [n \in {} |-> None] /\ backup = None
    /\ op = [p \in Procs |-> NoOp]
    /\ cmd = NoCmd
    /\ issued = DOMAIN Initial.sessions /\ begun = 0 /\ commands = 0
    /\ admitted = [a \in Addresses |-> <<>>]
    /\ overtaken = [a \in Addresses |-> FALSE]
    /\ held = DOMAIN Initial.sessions /\ lost = {} /\ orderly = TRUE
-----------------------------------------------------------------------------
(***************************************************************************)
(* Statements and connections.                                             *)
(***************************************************************************)
Commit(c) == wal' = c /\ UNCHANGED <<main, files, backup>>

\* SQLite folds the log into the main file now and then, and when the last
\* connection is closed.
Fold == main' = Database /\ wal' = None

Opened == Range(idle) \cup {writer} \cup {op[p].conn : p \in Procs}

\* DB.conn: the idle connection that came back last, else a new one.
Takes(c) == IF idle # <<>> THEN c = Last(idle) ELSE c \in Conns \ Opened

\* Mutation of Without: the connection also stays in the list.
WithoutTaking(s) == s
\* The list without the connection that is taken.
Without(s) == IF s = <<>> THEN s ELSE Front(s)

TakesOff(c) == Takes(c) /\ idle' = Without(idle) /\ released' = None
PutsBack(c) == idle' = Append(idle, c)

\* A statement of its own takes a connection and puts it back.
Statement ==
    \/ idle # <<>> /\ UNCHANGED pool
    \/ \E c \in Conns : /\ idle = <<>> /\ Takes(c) /\ idle' = <<c>> /\ released' = None
                         /\ UNCHANGED <<attached, writer, stray>>

\* applyPragmas sets foreign_keys on the connection that is opened first, and Conns
\* are opened in any order after it.
Enforcing == CHOOSE c \in Conns : TRUE

Fails(f) == f \in Faults

Set(p, o) == op' = [op EXCEPT ![p] = o]
Goto(p, pc) == Set(p, [op[p] EXCEPT !.pc = pc])
\* A request that has ended keeps only what was answered.
End(p, result) ==
    Set(p, [op[p] EXCEPT !.pc = "done", !.result = result, !.address = None, !.stamp = 0,
                         !.token = None, !.admin = None, !.expires = 0, !.source = Empty,
                         !.used = None, !.name = 0])

Outside == UNCHANGED <<now, up, cmd, begun, commands, orderly>>
Apart == Outside /\ UNCHANGED <<issued, logins>>
-----------------------------------------------------------------------------
(***************************************************************************)
(* LoginRateLimiter.                                                       *)
(***************************************************************************)
\* Mutation of Recent: attempts are forgotten a second early.
RecentShort(a, stamp) == {i \in attempt[a] : admitted[a][i] > stamp - Window + 1}
\* The attempts kept whose stamp is after the cutoff.
Recent(a, stamp) == {i \in attempt[a] : admitted[a][i] > stamp - Window}

\* Login, up to the call of Allow, which reads the clock before it takes the lock.
Arrive(p) ==
    /\ op[p].pc = "arrive" /\ up
    /\ Set(p, [op[p] EXCEPT !.pc = "allow", !.stamp = now])
    /\ UNCHANGED <<storage, pool, limiter>> /\ Apart

Allow(p) ==
    LET a == op[p].address  stamp == op[p].stamp  filtered == Recent(a, stamp) IN
    /\ op[p].pc = "allow" /\ up
    /\ \/ /\ Cardinality(filtered) >= Burst
          /\ attempt' = [attempt EXCEPT ![a] = filtered]
          /\ End(p, "limited")
          /\ UNCHANGED <<admitted, overtaken>>
       \/ /\ Cardinality(filtered) < Burst
          /\ attempt' = [attempt EXCEPT ![a] = filtered \cup {Len(admitted[a]) + 1}]
          /\ Goto(p, "lookup")
          /\ admitted' = [admitted EXCEPT ![a] = Append(@, stamp)]
          /\ overtaken' = [overtaken EXCEPT ![a] =
                              @ \/ \E i \in DOMAIN admitted[a] : admitted[a][i] > stamp]
    /\ UNCHANGED <<storage, pool>> /\ Apart
-----------------------------------------------------------------------------
(***************************************************************************)
(* Login, logout and the check of a session.                               *)
(***************************************************************************)
\* GetAdminByEmail and ComparePassword: with a right password the request goes on
\* with the id of the row, which it keeps while it computes the hash.
LookUp(p) ==
    /\ op[p].pc = "lookup" /\ up
    /\ Statement
    /\ \/ End(p, "refused")
       \/ Fails("db") /\ End(p, "unavailable")
       \/ \E e \in Emails : /\ Database.admins[e] # None
                            /\ Set(p, [op[p] EXCEPT !.pc = "reset",
                                                    !.admin = Database.admins[e]])
    /\ UNCHANGED <<storage, limiter>> /\ Apart

\* Reset, and the expiry of the session to come.
Reset(p) ==
    LET a == op[p].address IN
    /\ op[p].pc = "reset" /\ up
    /\ attempt' = [attempt EXCEPT ![a] = {}]
    /\ admitted' = [admitted EXCEPT ![a] = <<>>]
    /\ overtaken' = [overtaken EXCEPT ![a] = FALSE]
    /\ Set(p, [op[p] EXCEPT !.pc = "create", !.expires = now + TTL])
    /\ UNCHANGED <<storage, pool>> /\ Apart

HasAdmin(id) == \E e \in Emails : Database.admins[e] = id

\* Mutation of MayCreate: the foreign key is relied on.
ByForeignKey(id) == idle # <<>> => Last(idle) # Enforcing
\* SELECT id FROM admins, in the transaction that inserts the session.
MayCreate(id) == HasAdmin(id)

\* One transaction: the administrator must still be there.
CreateSession(p) ==
    /\ op[p].pc = "create" /\ up
    /\ Statement
    /\ \/ Fails("db") /\ End(p, "unavailable") /\ UNCHANGED <<storage, issued, logins>>
       \/ ~MayCreate(op[p].admin) /\ End(p, "unavailable") /\ UNCHANGED <<storage, issued, logins>>
       \/ /\ MayCreate(op[p].admin)
          /\ \E t \in Tokens \ issued :
                /\ Commit([Database EXCEPT !.sessions =
                       [x \in DOMAIN @ \cup {t} |->
                           IF x = t THEN [admin |-> op[p].admin, expires |-> op[p].expires]
                                    ELSE @[x]]])
                /\ issued' = issued \cup {t} /\ held' = held \cup {t} /\ UNCHANGED lost
                /\ End(p, "ok")
    /\ UNCHANGED limiter /\ Outside

\* GetSessionWithAdminByTokenHash.
Valid(t) ==
    /\ t \in DOMAIN Database.sessions
    /\ HasAdmin(Database.sessions[t].admin)
    /\ Database.sessions[t].expires > now

Entry(kind) ==
    CASE kind = "logout"   -> "delete"
      [] kind = "restore"  -> "attach"
      [] OTHER             -> "name"

\* RequireAuth.
Authenticate(p) ==
    /\ op[p].pc = "auth" /\ up
    /\ Statement
    /\ \/ Fails("db") /\ End(p, "unavailable")
       \/ ~Valid(op[p].token) /\ End(p, "refused")
       \/ /\ Valid(op[p].token)
          /\ IF op[p].kind = "call" THEN End(p, "ok")
             ELSE Set(p, [op[p] EXCEPT !.pc = Entry(op[p].kind), !.name = now])
    /\ UNCHANGED <<storage, limiter>> /\ Apart

\* Mutation of Ended: the administrator is logged out everywhere.
EndedOfAdmin(t) ==
    {x \in DOMAIN Database.sessions : t \in DOMAIN Database.sessions
        /\ Database.sessions[x].admin = Database.sessions[t].admin}
\* WHERE session_token_hash = ?
Ended(t) == {t}

\* DeleteSessionByHash; Logout answers ok whether or not the statement succeeds.
DeleteSession(p) ==
    /\ op[p].pc = "delete" /\ up
    /\ Statement
    /\ \/ Fails("db") /\ UNCHANGED <<storage, logins>>
       \/ /\ Commit([Database EXCEPT !.sessions = Restrict(@, DOMAIN @ \ Ended(op[p].token))])
          /\ held' = held \ {op[p].token} /\ lost' = lost \ {op[p].token}
    /\ End(p, "ok")
    /\ UNCHANGED <<limiter, issued>> /\ Outside
-----------------------------------------------------------------------------
(***************************************************************************)
(* DownloadSQLiteBackup and BackupTo.                                      *)
(***************************************************************************)
Downloading == {q \in Procs : op[q].pc \in {"vacuum", "copying", "open"}}
Rivals(p) == {q \in Downloading \ {p} : op[q].name = op[p].name}

\* Mutation of NameOf: the name has the minute.
NameOfMinute(time) == 0
\* The file is named after the second.
NameOf(time) == time

\* os.Remove of a file of that name.
RemoveFile(p) ==
    /\ op[p].pc = "name" /\ up
    /\ files' = Restrict(files, DOMAIN files \ {NameOf(op[p].name)})
    /\ op' = [q \in Procs |->
                 IF q = p THEN [op[q] EXCEPT !.pc = "vacuum", !.shared = @ \/ Rivals(p) # {}]
                 ELSE IF q \in Rivals(p) THEN [op[q] EXCEPT !.shared = TRUE] ELSE op[q]]
    /\ UNCHANGED <<main, wal, backup, pool, limiter>> /\ Apart

\* VACUUM INTO copies what is committed when it begins, into a file that must not exist.
StartCopy(p) ==
    LET n == NameOf(op[p].name) IN
    /\ op[p].pc = "vacuum" /\ up
    /\ \/ /\ n \in DOMAIN files \/ Fails("disk")
          /\ Statement /\ End(p, "failed") /\ UNCHANGED storage
       \/ /\ n \notin DOMAIN files
          /\ \E c \in Conns :
                /\ TakesOff(c) /\ UNCHANGED <<attached, writer, stray>>
                /\ Set(p, [op[p] EXCEPT !.pc = "copying", !.conn = c, !.content = Database])
          /\ files' = [x \in DOMAIN files \cup {n} |->
                          IF x = n THEN [writer |-> p, content |-> None] ELSE files[x]]
          /\ UNCHANGED <<main, wal, backup>>
    /\ UNCHANGED limiter /\ Apart

\* The copy is complete; the name may meanwhile stand for another file, or none.
FinishCopy(p) ==
    LET n == NameOf(op[p].name) IN
    /\ op[p].pc = "copying" /\ up
    /\ files' = [x \in DOMAIN files |->
                    IF x = n /\ files[x].writer = p THEN [files[x] EXCEPT !.content = op[p].content]
                                                    ELSE files[x]]
    /\ PutsBack(op[p].conn) /\ released' = None /\ UNCHANGED <<attached, writer, stray>>
    /\ Set(p, [op[p] EXCEPT !.pc = "open", !.conn = None])
    /\ UNCHANGED <<main, wal, backup, limiter>> /\ Apart

\* The handler opens the name and sends what it finds.
SendFile(p) ==
    LET n == NameOf(op[p].name) IN
    /\ op[p].pc = "open" /\ up
    /\ \/ /\ n \notin DOMAIN files
          /\ End(p, "failed") /\ UNCHANGED backup
       \/ /\ n \in DOMAIN files
          /\ Set(p, [op[p] EXCEPT !.pc = "done", !.result = "ok", !.name = 0, !.token = None,
                                  !.sent = files[n].content])
          /\ backup' = IF files[n].content = None THEN backup ELSE files[n].content
    /\ UNCHANGED <<main, wal, files, pool, limiter>> /\ Apart
-----------------------------------------------------------------------------
(***************************************************************************)
(* RestoreFromBackup: an uploaded file is attached, and its tables replace *)
(* those of the database in one transaction.                               *)
(***************************************************************************)
Administered(c) == \E e \in Emails : c.admins[e] # None

\* The tables that exist in both are replaced, the others of the list are emptied.
\* foreign_keys cannot change inside a transaction: on the connection that enforces
\* them, emptying core_servers takes the policies with it.
Restored(c, conn) ==
    [Database EXCEPT !.admins = c.admins, !.sessions = c.sessions,
                     !.policies = IF conn = Enforcing THEN FALSE ELSE @]

\* BeginTx and ATTACH, which a connection refuses that still has a src. Only when BeginTx
\* fails does the request end without the deferred statements.
Attach(p) ==
    /\ op[p].pc = "attach" /\ up
    /\ \/ Fails("db") /\ Statement /\ End(p, "failed")
       \/ \E c \in Conns :
             /\ TakesOff(c)
             /\ \/ /\ c \in attached
                   /\ Set(p, [op[p] EXCEPT !.pc = "release", !.conn = c, !.used = c,
                                           !.refusal = "attached"])
                   /\ UNCHANGED attached
                \/ /\ c \notin attached
                   /\ attached' = attached \cup {c}
                   /\ Set(p, [op[p] EXCEPT !.pc = "copy", !.conn = c, !.used = c])
                \/ /\ Fails("db")
                   /\ Set(p, [op[p] EXCEPT !.pc = "release", !.conn = c, !.used = c,
                                           !.refusal = "failed"])
                   /\ UNCHANGED attached
             /\ UNCHANGED <<writer, stray>>
    /\ UNCHANGED <<storage, limiter>> /\ Apart

\* A backup with an empty table of administrators is refused, and any statement may
\* fail or be interrupted when the client goes away; the transaction is then undone.
Copy(p) ==
    /\ op[p].pc = "copy" /\ up
    /\ \/ /\ op[p].source.tables /\ ~Administered(op[p].source)
          /\ Set(p, [op[p] EXCEPT !.pc = "release", !.refusal = "empty"])
          /\ UNCHANGED <<storage, logins>>
       \/ /\ Fails("db")
          /\ Set(p, [op[p] EXCEPT !.pc = "release", !.refusal = "failed"])
          /\ UNCHANGED <<storage, logins>>
       \/ /\ Fails("cancel")
          /\ Set(p, [op[p] EXCEPT !.pc = "release", !.refusal = "cancelled"])
          /\ UNCHANGED <<storage, logins>>
       \/ /\ op[p].source.tables => Administered(op[p].source)
          /\ Commit(Restored(op[p].source, op[p].conn))
          /\ Set(p, [op[p] EXCEPT !.pc = "release"])
          /\ held' = {} /\ lost' = {}
    /\ UNCHANGED <<pool, limiter, issued>> /\ Outside

\* Mutation of Release: DETACH is deferred after the transaction, and so runs before its end.
ReleaseAfterDetach(p) ==
    /\ op[p].pc = "release" /\ up
    /\ released' = p /\ UNCHANGED <<idle, attached, writer, stray>>
    /\ Set(p, [op[p] EXCEPT !.pc = "detach"])
    /\ UNCHANGED <<storage, limiter>> /\ Apart
\* The end of the transaction gives the connection back.
Release(p) ==
    /\ op[p].pc = "release" /\ up
    /\ PutsBack(op[p].conn) /\ released' = p /\ UNCHANGED <<attached, writer, stray>>
    /\ Set(p, [op[p] EXCEPT !.pc = "detach", !.conn = None])
    /\ UNCHANGED <<storage, limiter>> /\ Apart

\* The deferred DETACH takes whichever connection comes next; its error is dropped. It
\* has the context of the request and does not begin when the client has gone away.
Detach(p) ==
    LET used == {op[p].used} \cap attached IN
    /\ op[p].pc = "detach" /\ up
    /\ \/ /\ Fails("cancel")
          /\ stray' = stray \cup used
          /\ UNCHANGED <<idle, attached, writer, released>>
       \/ /\ op[p].refusal # "cancelled"
          /\ \E c \in Conns :
                /\ Takes(c)
                /\ idle' = Append(Without(idle), c)
                /\ attached' = attached \ {c}
                /\ stray' = (IF released = p THEN stray ELSE stray \cup used) \ {c}
          /\ released' = None
          /\ UNCHANGED writer
    /\ End(p, IF op[p].refusal = "none" THEN "ok" ELSE "failed")
    /\ UNCHANGED <<storage, limiter>> /\ Apart

\* The collector of system snapshots and the poll of the services write through the same
\* connections, at any moment; their rows are not modelled. Any statement that is one
\* step above may be thought of as under way here.
WriterTakes ==
    /\ up /\ writer = None /\ commands < MaxCommands
    /\ \E c \in Conns : TakesOff(c) /\ writer' = c
    /\ commands' = commands + 1
    /\ UNCHANGED <<storage, attached, stray, limiter, op, now, up, cmd, begun, orderly>>
    /\ UNCHANGED <<issued, logins>>

WriterReturns ==
    /\ up /\ writer # None
    /\ PutsBack(writer) /\ writer' = None /\ released' = None
    /\ UNCHANGED <<storage, attached, stray, limiter, op>> /\ Apart
-----------------------------------------------------------------------------
(***************************************************************************)
(* Requests begin, policies change, time passes.                           *)
(***************************************************************************)
FirstPc(kind) == IF kind = "login" THEN "arrive" ELSE "auth"

Free(p) == op[p].pc \in {"idle", "done"}

\* Whatever the operator can upload.
Uploads == Foreign \cup ({backup} \ {None})

Started(kind, a, t, c) ==
    [NoOp EXCEPT !.kind = kind, !.pc = FirstPc(kind),
                 !.address = IF kind = "login" THEN a ELSE None,
                 !.token = IF kind = "login" THEN None ELSE t,
                 !.source = IF kind = "restore" THEN c ELSE Empty]

Begin(p) ==
    /\ Free(p) /\ up /\ begun < MaxRequests
    /\ \E kind \in Kinds, a \in Addresses, t \in Tokens, c \in Uploads \cup {Empty} :
          /\ kind = "login" \/ t \in issued
          /\ kind = "restore" => c \in Uploads
          /\ Set(p, Started(kind, a, t, c))
    /\ begun' = begun + 1
    /\ UNCHANGED <<now, storage, up, pool, limiter, cmd, issued, commands, logins, orderly>>

\* The other requests of the panel write the rows that a restore does not copy.
WritePolicies ==
    /\ up /\ ~Database.policies
    /\ Commit([Database EXCEPT !.policies = TRUE])
    /\ UNCHANGED <<pool, limiter, op>> /\ Apart

Tick ==
    /\ now < MaxTime
    /\ now' = now + 1
    /\ UNCHANGED <<storage, up, pool, limiter, op, cmd, issued, begun, commands, logins, orderly>>

Checkpoint ==
    /\ up /\ wal # None
    /\ Fold
    /\ UNCHANGED <<files, backup, pool, limiter, op>> /\ Apart
-----------------------------------------------------------------------------
(***************************************************************************)
(* The service starts and stops.                                           *)
(***************************************************************************)
\* Connections, the limiter and the requests go with the process.
Gone ==
    /\ up' = FALSE
    /\ idle' = <<>> /\ attached' = {} /\ writer' = None /\ released' = None /\ stray' = {}
    /\ attempt' = [a \in Addresses |-> {}]
    /\ admitted' = [a \in Addresses |-> <<>>]
    /\ overtaken' = [a \in Addresses |-> FALSE]
    /\ op' = [p \in Procs |-> NoOp]
    /\ UNCHANGED <<now, files, backup, cmd, issued, begun, commands, logins>>

\* runServe opens the database and creates the tables that are missing.
Start ==
    /\ ~up /\ cmd.pc \in {"idle", "ended"}
    /\ up' = TRUE
    /\ idle' = <<Enforcing>> /\ UNCHANGED <<attached, writer, released, stray>>
    /\ IF Database.tables THEN UNCHANGED storage
       ELSE Commit([Database EXCEPT !.tables = TRUE])
    /\ cmd' = NoCmd
    /\ orderly' = TRUE
    /\ UNCHANGED <<now, limiter, op, issued, begun, commands, logins>>

\* Mutation of CloseDatabase: the process ends without it.
LeaveOpen == UNCHANGED <<main, wal>>
\* SQLiteRepository.Close and Store.Close, the last connections.
CloseDatabase == Fold

\* Shutdown waits for the requests and closes the database; a connection that a
\* request still holds after 15 seconds is not closed, and the log stays.
Stop ==
    /\ up
    /\ LET drained == \A p \in Procs : Free(p) IN
          /\ IF drained THEN CloseDatabase ELSE UNCHANGED <<main, wal>>
          /\ orderly' = drained
    /\ Gone

Kill ==
    /\ up /\ Fails("kill")
    /\ UNCHANGED <<main, wal>>
    /\ orderly' = FALSE
    /\ Gone
-----------------------------------------------------------------------------
(***************************************************************************)
(* Commands of the operator.                                               *)
(***************************************************************************)
\* A command is a process of its own: if it is the last to close the database, it
\* folds the log.
CommandWrites(c) == IF up THEN wal' = c /\ UNCHANGED main ELSE main' = c /\ wal' = None

\* UpsertAdmin: the row of the address keeps its id, and so do its sessions.
RowOf(e) == IF Database.admins[e] # None THEN {Database.admins[e]}
            ELSE {id \in AdminIds : ~HasAdmin(id)}

BootstrapAdmin(e) ==
    /\ commands < MaxCommands /\ cmd.pc \in {"idle", "ended"}
    /\ \E id \in RowOf(e) : CommandWrites([Database EXCEPT !.tables = TRUE, !.admins[e] = id])
    /\ commands' = commands + 1
    /\ UNCHANGED <<now, files, backup, up, pool, limiter, op, issued, begun, logins, orderly>>
    /\ cmd' = NoCmd

\* sqlite-backup.
BackupCommand ==
    /\ commands < MaxCommands /\ cmd.pc \in {"idle", "ended"}
    /\ backup' = [Database EXCEPT !.tables = TRUE]
    /\ CommandWrites(backup')
    /\ commands' = commands + 1
    /\ UNCHANGED <<now, files, up, pool, limiter, op, issued, begun, logins, orderly>>
    /\ cmd' = NoCmd

\* SQLiteRestore, which the operator runs while the service is stopped.
BeginOffline ==
    /\ ~up /\ cmd.pc \in {"idle", "ended"} /\ commands < MaxCommands
    /\ \E c \in Uploads :
          cmd' = [NoCmd EXCEPT !.pc = "save", !.source = c, !.found = Database]
    /\ commands' = commands + 1
    /\ UNCHANGED <<now, storage, up, pool, limiter, op, issued, begun, logins, orderly>>

Offline ==
    /\ UNCHANGED <<now, files, backup, up, pool, limiter, op, issued, begun, commands>>
    /\ UNCHANGED orderly

\* The rollback copy is one of the main file.
SaveOld ==
    /\ cmd.pc = "save"
    /\ cmd' = [cmd EXCEPT !.pc = "dropLog", !.rollback = main]
    /\ UNCHANGED <<main, wal, logins>> /\ Offline

DropLog ==
    /\ cmd.pc = "dropLog"
    /\ wal' = None
    /\ cmd' = [cmd EXCEPT !.pc = "replace"]
    /\ lost' = IF orderly THEN lost ELSE lost \cup (held \ DOMAIN main.sessions)
    /\ UNCHANGED <<main, held>> /\ Offline

\* The source is copied beside the database and renamed onto it.
Replace ==
    /\ cmd.pc = "replace"
    /\ main' = cmd.source
    /\ cmd' = [cmd EXCEPT !.pc = "ended"]
    /\ held' = {} /\ lost' = {}
    /\ UNCHANGED wal /\ Offline

\* A copy fails, or the command is interrupted.
OfflineFails ==
    /\ cmd.pc \in {"save", "dropLog", "replace"} /\ Fails("disk")
    /\ cmd' = [cmd EXCEPT !.pc = "ended"]
    /\ UNCHANGED <<main, wal, logins>> /\ Offline

Next ==
    \/ \E p \in Procs :
          \/ Begin(p) \/ Arrive(p) \/ Allow(p) \/ LookUp(p) \/ Reset(p) \/ CreateSession(p)
          \/ Authenticate(p) \/ DeleteSession(p)
          \/ RemoveFile(p) \/ StartCopy(p) \/ FinishCopy(p) \/ SendFile(p)
          \/ Attach(p) \/ Copy(p) \/ Release(p) \/ Detach(p)
    \/ WriterTakes \/ WriterReturns
    \/ WritePolicies \/ Tick \/ Checkpoint
    \/ Start \/ Stop \/ Kill
    \/ \E e \in Emails : BootstrapAdmin(e)
    \/ BackupCommand \/ BeginOffline \/ SaveOld \/ DropLog \/ Replace \/ OfflineFails

Spec == Init /\ [][Next]_vars
-----------------------------------------------------------------------------
(***************************************************************************)
(* Properties.                                                             *)
(***************************************************************************)
\* Variables have the types of the tables, files and structures they model.
TypeOK ==
    /\ main \in Contents /\ wal \in Contents \cup {None}
    /\ idle \in Seq(Conns) /\ attached \subseteq Conns
    /\ \A i, j \in DOMAIN idle : idle[i] = idle[j] => i = j
    /\ \A p, q \in Procs : /\ op[p].conn \notin Range(idle) \cup ({writer} \ {None})
                           /\ op[p].conn = op[q].conn => p = q \/ op[p].conn = None
    /\ writer \in (Conns \ Range(idle)) \cup {None} /\ released \in Procs \cup {None}
    /\ stray \subseteq attached
    /\ admitted \in [Addresses -> Seq(Nat)] /\ attempt \in [Addresses -> SUBSET Nat]
    /\ \A a \in Addresses : attempt[a] \subseteq DOMAIN admitted[a]
    /\ DOMAIN files \subseteq Nat /\ \A n \in DOMAIN files : files[n] \in File
    /\ backup \in Contents \cup {None}
    /\ op \in [Procs -> Op]
    /\ now \in 0 .. MaxTime /\ cmd \in Command
    /\ issued \subseteq Tokens /\ held \subseteq issued /\ lost \subseteq held

\* Every session belongs to an administrator of the database, whatever restores and
\* commands fell between the lookup of a login and its session: on most connections
\* no foreign key is checked, CreateSession has to.
SessionsHaveAdmin == Sound(Database)

\* Unless an attempt was decided after one with a later stamp, at most Burst attempts
\* of an address pass LoginRateLimiter.Allow in any window since its last reset.
AttemptsBounded ==
    \A a \in Addresses : ~overtaken[a] =>
        \A end \in 0..now :
            Cardinality({i \in DOMAIN admitted[a] : /\ admitted[a][i] > end - Window
                                                    /\ admitted[a][i] <= end}) <= Burst

\* A login that was answered stands through commands, stops, kills and failed restores
\* until its logout or the next restore, with one exception: after a stop that was not
\* orderly an offline restore (SQLiteRestore) drops the log, and the logins that only
\* the log held are lost, whether or not the restore then succeeds.
HeldSessionsStay == held \ lost \subseteq DOMAIN Database.sessions

\* A download answers the copy its own request made, and all of it, unless another
\* download of the same second was under way (DownloadSQLiteBackup names the file
\* after the second, BackupTo removes what has the name).
DownloadIsOwnCopy ==
    \A p \in Procs :
        op[p].kind = "download" /\ op[p].pc = "done" /\ op[p].result = "ok" /\ ~op[p].shared
            => op[p].sent = op[p].content /\ op[p].sent # None

\* However a restore ends (committed, refused since src is still attached, or failed),
\* src does not stay attached to a connection that no restore uses, unless the client
\* left before the DETACH, or another statement took or gave back a connection between
\* the end of the transaction and the DETACH: then RestoreFromBackup's DETACH may not
\* get the connection that its transaction had.
AttachedOnlyWhileRestoring ==
    \A c \in attached :
        c \in stray \/ \E p \in Procs : /\ op[p].pc \in {"copy", "release", "detach"}
                                        /\ op[p].used = c

\* While the service is stopped in order, an offline restore leaves at each moment
\* either the database it found or the file it was given, and the second only once
\* the rollback copy holds the first.
OfflineRestoreKeeps ==
    cmd.pc # "idle" /\ orderly =>
        /\ Database \in {cmd.found, cmd.source}
        /\ cmd.rollback \in {None, cmd.found}
        /\ Database # cmd.found => cmd.rollback # None

\* "backup validation failed: admins must be greater than zero"
\* (repository_sqlite_ops.go:262): a restore that succeeds leaves an administrator.
RestoreLeavesAdmin ==
    [][\A p \in Procs : op[p].pc = "copy" /\ op'[p].refusal = "none" /\ up'
                            => Administered(Database')]_vars
=============================================================================
