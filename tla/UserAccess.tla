------------------------------ MODULE UserAccess ------------------------------
(***************************************************************************)
(* Users, inbounds and the access of users to inbounds: what the requests  *)
(* of the panel do to the rows, to the subscriptions and to the drafts.    *)
(*                                                                         *)
(* A request is a sequence of statements, each committed by itself, and    *)
(* nothing serialises two requests.  It reads rows and writes them back as *)
(* a whole, marks the documents of the users it touched, then drafts the   *)
(* configuration of the servers it believes it changed.                    *)
(*                                                                         *)
(* foreign_keys is a setting of a connection and is switched on for one    *)
(* connection of the pool: each statement finds it on or off.  Drafting a  *)
(* server and rendering the documents of a user are one step here; their   *)
(* own interleavings are those of ConfigRevisions and Subscriptions.       *)
(* Inbounds stay on their server: moving one is in ConfigRevisions.        *)
(***************************************************************************)
EXTENDS Naturals, FiniteSets, Functions

CONSTANTS
    Servers, Users, Inbounds, Accesses, \* ids of rows
    Names,          \* usernames
    DefaultServer,  \* the first server that ListServers returns
    InitInbounds, InitUsers, InitAccess, \* the rows an instance begins with
    Requests,       \* the requests an instance may issue
    Procs,          \* concurrent requests
    ForeignKeys,    \* what foreign_keys may be on a connection
    Faults,         \* the failures that may happen
    MaxRequests,    \* bound on the number of requests
    MaxFailures,    \* bound on the number of failures
    None            \* no id, no name, nothing to change

Protocols == {"vless", "hysteria2"}
Tags == Protocols \cup {"other"}       \* "vless" is the tag vless-in, "hysteria2" hy2-in

IsTable(f, ids, Row) == DOMAIN f \subseteq ids /\ f \in [DOMAIN f -> Row]

UserRow    == [name : Names, active : BOOLEAN]     \* enabled, not expired, under the limit
InboundRow == [server : Servers, protocol : Protocols, tag : Tags, enabled : BOOLEAN]
AccessRow  == [user : Users, inbound : Inbounds, enabled : BOOLEAN,
               vless : Nat, hysteria2 : Nat]       \* the credentials, 0 when empty

\* What a request changes; "profile" is the client profile of accesses.
Patch == [hard : BOOLEAN, active : BOOLEAN \cup {None}, name : Names \cup {None},
          protocol : Protocols \cup {None}, to : Inbounds \cup {None},
          profile : BOOLEAN, rotate : BOOLEAN]

Kinds == {"provision", "create", "update", "deleteUser", "grant", "withdraw",
          "updateInbound", "deleteInbound", "bulkUsers", "bulkAccess", "bulkDelete",
          "bulkEnable", "render"}

Request == [kind : Kinds, user : Users \cup {None}, inbound : Inbounds \cup {None},
            access : Accesses \cup {None}, users : SUBSET Users,
            accesses : SUBSET Accesses, patch : Patch]

\* A row of core_user_access on its way to the table, and its id if it has one.
Write == [id : Accesses \cup {None}, row : AccessRow]

Entry    == [inbound : Inbounds, protocol : Protocols, name : Names, secret : Nat]
Document == [user : UserRow, entries : SUBSET [id : Accesses, row : AccessRow,
                                               inbound : InboundRow]]

ASSUME NamesAssumption ==
    /\ None \notin Users \cup Inbounds \cup Accesses \cup Names
    /\ None \notin Protocols /\ None \notin BOOLEAN
    /\ DefaultServer \in Servers

ASSUME RowsAssumption ==
    /\ IsTable(InitInbounds, Inbounds, InboundRow)
    /\ IsTable(InitUsers, Users, UserRow)
    /\ IsTable(InitAccess, Accesses, AccessRow) /\ IsFiniteSet(DOMAIN InitAccess)

\* Only bulk patches delete, move accesses or set their profile, those of accesses
\* rotate credentials, and none renames; what a handler requires is there.
WellFormed(r) ==
    /\ r.patch.rotate => r.kind = "bulkAccess"
    /\ r.patch.hard \/ r.patch.profile \/ r.patch.to # None => r.kind \in {"bulkUsers", "bulkAccess"}
    /\ r.patch.name # None => r.kind \in {"provision", "create", "update"}
    /\ r.kind = "bulkAccess" => r.users = {}
    /\ r.kind = "bulkUsers" => r.accesses = {}
    /\ r.kind \in {"provision", "create"} => r.patch.name # None
    /\ r.kind = "provision" => r.user = None
    /\ r.kind \in {"update", "deleteUser", "grant", "render"} => r.user # None
    /\ r.kind \in {"grant", "updateInbound", "deleteInbound"} => r.inbound # None
    /\ r.kind = "withdraw" => r.access # None
    /\ r.kind = "bulkEnable" => r.patch.active # None

ASSUME EnvironmentAssumption ==
    /\ \A r \in Requests : r \in Request /\ WellFormed(r)
    /\ ForeignKeys \subseteq BOOLEAN
    /\ Faults \subseteq {"db", "crash"}
    /\ MaxRequests \in Nat /\ MaxFailures \in Nat

VARIABLES
    inbounds,   \* core_inbounds: id -> row
    users,      \* core_users
    access,     \* core_user_access
    drafted,    \* the entries of the latest revision of each server
    fresh,      \* the documents of users whose artifacts are not marked dirty
    op,         \* op[p]: the request p and how far it has come
    usedIds,    \* ids of rows, also of rows that are gone: generated ids never repeat
    secrets,    \* credentials generated so far
    begun,      \* requests so far
    failures    \* failures so far

rows == <<inbounds, users, access, usedIds, secrets>>
vars == <<rows, drafted, fresh, op, begun, failures>>

Pcs == {"idle", "load", "ensure", "provide", "read", "impact", "rows", "user", "userBack",
        "prepare", "store", "accessBack", "mark", "list", "withdraw", "remove", "inbound",
        "inboundBack", "drop", "markServer", "rollback", "batch", "render", "draft", "done"}

\* "unread": an error, the row of the user is written but could not be read back.
Results == {"none", "ok", "error", "unread", "undrafted"}

NoPatch == [hard |-> FALSE, active |-> None, name |-> None, protocol |-> None,
            to |-> None, profile |-> FALSE, rotate |-> FALSE]

NoRequest == [kind |-> "render", user |-> None, inbound |-> None, access |-> None,
              users |-> {}, accesses |-> {}, patch |-> NoPatch]

Op == [req : Request \cup {NoRequest}, pc : Pcs, result : Results,
       user : Users \cup {None},                \* the user at hand
       userRow : UserRow \cup {None},           \* the row to write
       inboundRow : InboundRow \cup {None},
       write : Write \cup {None},               \* the access at hand
       pending : SUBSET Write,                  \* accesses still to write
       todo : SUBSET [id : Users, row : UserRow], \* users still to write, as read
       default : [Protocols -> Inbounds \cup {None}], \* of EnsureDefaultInbounds
       servers : SUBSET Servers,                \* servers to draft
       alone : BOOLEAN,                         \* history: no other request ran
       failed : Nat,                            \* history: failures it met
       stale : SUBSET Servers,                  \* history: what was out of date
       dated : SUBSET Users]                    \* when it began

NoOp == [req |-> NoRequest, pc |-> "idle", result |-> "none", user |-> None,
         userRow |-> None, inboundRow |-> None, write |-> None, pending |-> {},
         todo |-> {}, default |-> [x \in Protocols |-> None], servers |-> {},
         alone |-> TRUE, failed |-> 0, stale |-> {}, dated |-> {}]

-----------------------------------------------------------------------------
(***************************************************************************)
(* What is made of the rows.                                               *)
(***************************************************************************)
\* buildServerConfigJSON: the accesses that an inbound of the server lists.
Served(s) ==
    {a \in DOMAIN access :
        LET row == access[a] IN
        /\ row.enabled
        /\ row.inbound \in DOMAIN inbounds
        /\ inbounds[row.inbound].server = s /\ inbounds[row.inbound].enabled
        /\ row.user \in DOMAIN users
        /\ users[row.user].active
        /\ inbounds[row.inbound].protocol = "hysteria2" => row.hysteria2 # 0}

\* A VLESS entry without a credential gets one that is drawn for the rendering.
EntryOf(row) ==
    [inbound |-> row.inbound, protocol |-> inbounds[row.inbound].protocol,
     name |-> users[row.user].name, secret |-> row[inbounds[row.inbound].protocol]]

Config(s) == {EntryOf(access[a]) : a \in Served(s)}

\* buildUserURIsAndOutbounds.
DocumentOf(u) ==
    [user |-> users[u],
     entries |-> {[id |-> a, row |-> access[a], inbound |-> inbounds[access[a].inbound]] :
                     a \in {b \in DOMAIN access : access[b].user = u
                                                  /\ access[b].inbound \in DOMAIN inbounds}}]

Stale == {s \in Servers : drafted[s] # Config(s)}
Dated == {u \in DOMAIN fresh \cap DOMAIN users : fresh[u] # DocumentOf(u)}

TypeOK ==
    /\ IsTable(inbounds, Inbounds, InboundRow)
    /\ IsTable(users, Users, UserRow)
    /\ IsTable(access, Accesses, AccessRow)
    /\ drafted \in [Servers -> SUBSET Entry]
    /\ IsTable(fresh, Users, Document)
    /\ op \in [Procs -> Op]
    /\ usedIds \subseteq Users \cup Inbounds \cup Accesses
    /\ secrets \in Nat /\ begun \in Nat /\ failures \in Nat

Init ==
    /\ inbounds = InitInbounds
    /\ users = InitUsers
    /\ access = InitAccess
    /\ drafted = [s \in Servers |-> Config(s)]
    /\ fresh = [u \in DOMAIN users |-> DocumentOf(u)]
    /\ op = [p \in Procs |-> NoOp]
    /\ usedIds = DOMAIN InitInbounds \cup DOMAIN InitUsers \cup DOMAIN InitAccess \cup
                 UNION {{InitAccess[a].user, InitAccess[a].inbound} : a \in DOMAIN InitAccess}
    /\ secrets = Cardinality(DOMAIN InitAccess)
    /\ begun = 0
    /\ failures = 0
-----------------------------------------------------------------------------
(***************************************************************************)
(* Rows.                                                                   *)
(***************************************************************************)
Put(f, k, row) == [x \in DOMAIN f \cup {k} |-> IF x = k THEN row ELSE f[x]]
Without(f, ks) == Restrict(f, DOMAIN f \ ks)

NameTaken(u, name) == \E v \in DOMAIN users \ {u} : users[v].name = name
TagTaken(i, row) ==
    \E j \in DOMAIN inbounds \ {i} :
        inbounds[j].server = row.server /\ inbounds[j].tag = row.tag

PairOf(row) == {a \in DOMAIN access : /\ access[a].user = row.user
                                      /\ access[a].inbound = row.inbound}

\* ON DELETE CASCADE, on a connection that enforces foreign keys.
RemoveUsers(us, fk) ==
    /\ users' = Without(users, us)
    /\ access' = IF fk THEN Without(access, {a \in DOMAIN access : access[a].user \in us})
                 ELSE access
    /\ fresh' = IF fk THEN Without(fresh, us) ELSE fresh

\* What a request leaves out stays.
Or(new, old) == IF new = None THEN old ELSE new

PatchedUser(row, patch) ==
    [name |-> Or(patch.name, row.name), active |-> Or(patch.active, row.active)]

PatchedInbound(row, patch) ==
    [row EXCEPT !.protocol = Or(patch.protocol, @), !.enabled = Or(patch.active, @)]

PatchedAccess(row, patch) ==
    [row EXCEPT !.enabled = Or(patch.active, @), !.inbound = Or(patch.to, @)]

-----------------------------------------------------------------------------
(***************************************************************************)
(* How a request goes on.                                                  *)
(***************************************************************************)
Answer(o, result) ==
    [NoOp EXCEPT !.req = o.req, !.pc = "done", !.result = result, !.user = o.user,
                 !.alone = o.alone, !.failed = o.failed, !.stale = o.stale,
                 !.dated = o.dated]

Drafting(o, servers) ==
    IF servers = {} THEN Answer(o, "ok")
    ELSE [o EXCEPT !.pc = "draft", !.servers = servers]

\* The servers whose configuration a handler drafts at the end: all of them, that
\* of the inbound the access was saved for, those collected before the changes.
Targets(o) ==
    CASE o.req.kind \in {"create", "update", "deleteUser"} -> Servers
      [] o.req.kind = "grant" -> IF o.req.inbound \in DOMAIN inbounds
                                 THEN {inbounds[o.req.inbound].server} ELSE Servers
      [] OTHER -> o.servers

\* The vless access of a provisioned user is written before the hysteria2 one.
NextWrites(o) ==
    IF o.req.kind = "provision" /\ Cardinality(o.pending) = 2
    THEN {w \in o.pending : w.row.inbound = o.default["vless"]}
    ELSE o.pending

\* The next access, the next user, or the drafts.
Advance(o) ==
    IF o.pending # {} THEN
        {[o EXCEPT !.write = w, !.user = w.row.user, !.pending = @ \ {w},
                   !.pc = IF o.req.patch.hard THEN "withdraw" ELSE "prepare"] :
            w \in NextWrites(o)}
    ELSE IF o.todo # {} THEN
        {[o EXCEPT !.user = t.id, !.userRow = PatchedUser(t.row, o.req.patch),
                   !.write = None, !.todo = @ \ {t},
                   !.pc = IF o.req.patch.hard THEN "remove" ELSE "user"] :
            t \in o.todo}
    ELSE {Drafting(o, Targets(o))}

\* After the mark: a bulk patch of users goes on to the accesses of the user.
Marked(o) ==
    IF o.req.kind = "bulkUsers" /\ o.write = None THEN {[o EXCEPT !.pc = "list"]}
    ELSE Advance(o)

\* Mutation of Refused: the user stays.
RefusedOnly(o) == Answer(o, "error")
\* A write that is refused: ProvisionUser takes its user back.
Refused(o) ==
    IF o.req.kind = "provision" /\ o.pc \in {"prepare", "store", "accessBack"}
    THEN [o EXCEPT !.pc = "rollback"] ELSE Answer(o, "error")

At(p, pc) == op[p].pc = pc
Go(p, o) == op' = [op EXCEPT ![p] = o]
GoTo(p, os) == \E o \in os : Go(p, o)

bounds == <<begun, failures>>

-----------------------------------------------------------------------------
(***************************************************************************)
(* Requests begin.                                                         *)
(***************************************************************************)
FirstPc(kind) ==
    CASE kind = "provision" -> "ensure"
      [] kind = "create" -> "user"
      [] kind = "deleteUser" -> "remove"
      [] kind = "grant" -> "prepare"
      [] kind \in {"bulkUsers", "bulkAccess"} -> "read"
      [] kind \in {"bulkDelete", "bulkEnable"} -> "batch"
      [] kind = "render" -> "render"
      [] OTHER -> "load"

Decoded(r) ==
    [NoOp EXCEPT
        !.req = r, !.pc = FirstPc(r.kind), !.user = r.user,
        !.userRow = IF r.kind \in {"create", "provision"}
                    THEN [name |-> r.patch.name, active |-> TRUE] ELSE None,
        !.write = IF r.kind = "grant"
                  THEN [id |-> r.access,
                        row |-> [user |-> r.user, inbound |-> r.inbound, enabled |-> TRUE,
                                 vless |-> 0, hysteria2 |-> 0]] ELSE None]

Free(p) == op[p].pc \in {"idle", "done"}

\* History: the answer of an earlier request is forgotten.
Begin(p, r) ==
    /\ Free(p) /\ begun < MaxRequests
    /\ begun' = begun + 1
    /\ op' = [q \in Procs |->
                IF q = p THEN [Decoded(r) EXCEPT !.alone = \A x \in Procs : Free(x),
                                                 !.stale = Stale, !.dated = Dated]
                ELSE IF Free(q) THEN NoOp ELSE [op[q] EXCEPT !.alone = FALSE]]
    /\ UNCHANGED <<rows, drafted, fresh, failures>>

-----------------------------------------------------------------------------
(***************************************************************************)
(* Reads.                                                                  *)
(***************************************************************************)
\* UpdateCoreUser: the row to write is the row as read with the changes.
LoadUser(p) ==
    LET o == op[p] IN
    /\ At(p, "load") /\ o.req.kind = "update"
    /\ Go(p, IF o.user \in DOMAIN users
             THEN [o EXCEPT !.pc = "user",
                            !.userRow = PatchedUser(users[o.user], o.req.patch)]
             ELSE Answer(o, "error"))
    /\ UNCHANGED <<rows, drafted, fresh, bounds>>

\* DeleteCoreAccess.
LoadAccess(p) ==
    LET o == op[p]
        a == o.req.access
    IN
    /\ At(p, "load") /\ o.req.kind = "withdraw"
    /\ Go(p, IF a \in DOMAIN access /\ access[a].inbound \in DOMAIN inbounds
             THEN [o EXCEPT !.pc = "withdraw", !.user = access[a].user,
                            !.write = [id |-> a, row |-> access[a]],
                            !.servers = {inbounds[access[a].inbound].server}]
             ELSE Answer(o, "error"))
    /\ UNCHANGED <<rows, drafted, fresh, bounds>>

\* UpdateCoreInbound, DeleteCoreInbound.
LoadInbound(p) ==
    LET o == op[p]
        i == o.req.inbound
    IN
    /\ At(p, "load") /\ o.req.kind \in {"updateInbound", "deleteInbound"}
    /\ Go(p, IF i \in DOMAIN inbounds
             THEN [o EXCEPT !.pc = IF o.req.kind = "updateInbound" THEN "inbound" ELSE "drop",
                            !.inboundRow = PatchedInbound(inbounds[i], o.req.patch),
                            !.servers = {inbounds[i].server}]
             ELSE Answer(o, "error"))
    /\ UNCHANGED <<rows, drafted, fresh, bounds>>

\* What is made of the rows of accesses.
Patched(as, patch) == {[id |-> a, row |-> PatchedAccess(access[a], patch)] : a \in as}

AccessesOf(u) == {a \in DOMAIN access : access[a].user = u}

UserRows(us) == {[id |-> u, row |-> users[u]] : u \in us \cap DOMAIN users}

\* collectUserImpact, collectAccessImpact: the users or the accesses that are there.
ReadBulk(p) ==
    LET o == op[p] IN
    /\ At(p, "read")
    /\ Go(p, [o EXCEPT !.pc = "impact", !.todo = UserRows(o.req.users),
                       !.pending = Patched(o.req.accesses \cap DOMAIN access, NoPatch)])
    /\ UNCHANGED <<rows, drafted, fresh, bounds>>

\* An inbound that is gone or cannot be read counts for nothing.
ServersOf(i) == {inbounds[j].server : j \in DOMAIN inbounds \cap {i}}

\* They look up the inbound of each access, list the accesses of the next user, and
\* look up the target inbound in the end: the servers to draft are those of the
\* accesses before the change, and that of the target.
Collect(p) ==
    LET o == op[p] IN
    /\ At(p, "impact")
    /\ \/ \E w \in o.pending :
             Go(p, [o EXCEPT !.pending = @ \ {w},
                             !.servers = @ \cup ServersOf(w.row.inbound)])
       \/ /\ o.pending = {}
          /\ \E t \in o.todo :
                Go(p, [o EXCEPT !.todo = @ \ {t}, !.pending = Patched(AccessesOf(t.id), NoPatch)])
       \/ /\ o.pending = {} /\ o.todo = {}
          /\ Go(p, [o EXCEPT !.pc = "rows", !.servers = @ \cup ServersOf(o.req.patch.to)])
    /\ UNCHANGED <<rows, drafted, fresh, bounds>>

\* Mutation of ChangesRuntime: deletion is forgotten.
ChangesButDeletion(patch) == patch.active # None \/ patch.to # None \/ patch.rotate
\* RequiresRuntimeApply.
ChangesRuntime(patch) ==
    patch.hard \/ patch.active # None \/ patch.to # None \/ patch.rotate

\* ListUsersByIDs, ListUserAccessByIDs: the rows to patch, read again.
ReadRows(p) ==
    LET o == op[p] IN
    /\ At(p, "rows")
    /\ GoTo(p, Advance([o EXCEPT
                !.servers = IF ChangesRuntime(o.req.patch) THEN @ ELSE {},
                !.todo = UserRows(o.req.users),
                !.pending = Patched(o.req.accesses \cap DOMAIN access, o.req.patch)]))
    /\ UNCHANGED <<rows, drafted, fresh, bounds>>

\* ApplyBulkUsers: the accesses of the user, when the patch changes them.
ListAccesses(p) ==
    LET o == op[p]
        as == {a \in AccessesOf(o.user) :
                 o.req.patch.profile \/ o.req.patch.to \notin {None, access[a].inbound}}
    IN
    /\ At(p, "list")
    /\ GoTo(p, Advance([o EXCEPT
                !.pending = Patched(as, [NoPatch EXCEPT !.to = o.req.patch.to])]))
    /\ UNCHANGED <<rows, drafted, fresh, bounds>>

-----------------------------------------------------------------------------
(***************************************************************************)
(* Users.                                                                  *)
(***************************************************************************)
\* The accesses that ProvisionUser writes for its user.
Provisioned(o, u) ==
    {[id |-> None, row |-> [user |-> u, inbound |-> o.default[x], enabled |-> TRUE,
                            vless |-> 0, hysteria2 |-> 0]] : x \in Protocols}

\* Store.UpsertUser: inserts the row, also one that was deleted since it was read.
WriteUser(p) ==
    LET o == op[p] IN
    /\ At(p, "user")
    /\ \E u \in IF o.user = None THEN Users \ usedIds ELSE {o.user} :
          IF NameTaken(u, o.userRow.name)
          THEN Go(p, Answer(o, "error")) /\ UNCHANGED <<users, usedIds>>
          ELSE /\ users' = Put(users, u, o.userRow)
               /\ usedIds' = usedIds \cup {u}
               /\ Go(p, [o EXCEPT !.pc = "userBack", !.user = u,
                                  !.pending = IF o.req.kind = "provision"
                                              THEN Provisioned(o, u) ELSE {}])
    /\ UNCHANGED <<inbounds, access, secrets, drafted, fresh, bounds>>

\* UpsertUser returns the row as it reads it back.
ReadUserBack(p) ==
    LET o == op[p] IN
    /\ At(p, "userBack")
    /\ Go(p, IF o.user \in DOMAIN users THEN [o EXCEPT !.pc = "mark"] ELSE Answer(o, "error"))
    /\ UNCHANGED <<rows, drafted, fresh, bounds>>

\* Mutation of MarkUser: users that are not active are not marked.
MarkActiveUser(p) ==
    /\ At(p, "mark")
    /\ fresh' = Without(fresh, {u \in {op[p].user} \cap DOMAIN users : users[u].active})
    /\ GoTo(p, Marked(op[p]))
    /\ UNCHANGED <<rows, drafted, bounds>>
\* MarkSubscriptionsArtifactsDirtyByUserIDs.
MarkUser(p) ==
    /\ At(p, "mark")
    /\ fresh' = Without(fresh, {op[p].user})
    /\ GoTo(p, Marked(op[p]))
    /\ UNCHANGED <<rows, drafted, bounds>>

\* Store.DeleteUser.
RemoveUser(p) ==
    LET o == op[p] IN
    /\ At(p, "remove")
    /\ IF o.user \in DOMAIN users
       THEN /\ \E fk \in ForeignKeys : RemoveUsers({o.user}, fk)
            /\ GoTo(p, Advance(o))
       ELSE Go(p, Answer(o, "error")) /\ UNCHANGED <<users, access, fresh>>
    /\ UNCHANGED <<inbounds, usedIds, secrets, drafted, bounds>>

\* BulkDeleteUsers, BulkSetUsersEnabled: one transaction, no mark and no draft.
Batch(p) ==
    LET o == op[p]
        us == o.req.users \cap DOMAIN users
    IN
    /\ At(p, "batch")
    /\ IF o.req.kind = "bulkDelete"
       THEN \E fk \in ForeignKeys : RemoveUsers(us, fk)
       ELSE /\ users' = [u \in DOMAIN users |->
                           IF u \in us THEN PatchedUser(users[u], o.req.patch) ELSE users[u]]
            /\ UNCHANGED <<access, fresh>>
    /\ Go(p, Answer(o, "ok"))
    /\ UNCHANGED <<inbounds, usedIds, secrets, drafted, bounds>>

-----------------------------------------------------------------------------
(***************************************************************************)
(* Accesses.                                                               *)
(***************************************************************************)
\* Credential rotation empties the credential of the protocol.
Emptied(row, protocol) == [row EXCEPT ![protocol] = 0]

\* Mutation of Other: the credential of the protocol itself is cleared.
Same(protocol) == protocol
Other(protocol) == IF protocol = "vless" THEN "hysteria2" ELSE "vless"

\* The credential an empty one is replaced by: a Hysteria2 access of the pair
\* keeps its own, anything else gets a new one.
Kept(row, protocol) ==
    IF protocol = "hysteria2"
    THEN {access[a].hysteria2 : a \in PairOf(row)} \ {0} ELSE {}

\* Service.UpsertUserAccess up to the write.
PrepareAccess(p) ==
    LET o == op[p]
        w == o.write
        protocol == inbounds[w.row.inbound].protocol
        row == IF o.req.patch.rotate THEN Emptied(w.row, protocol) ELSE w.row
        kept == Kept(row, protocol)
        secret == IF row[protocol] # 0 THEN row[protocol]
                  ELSE IF kept # {} THEN CHOOSE k \in kept : TRUE ELSE secrets + 1
    IN
    /\ At(p, "prepare")
    /\ IF w.row.inbound \in DOMAIN inbounds /\ w.row.user \in DOMAIN users
       THEN /\ Go(p, [o EXCEPT !.pc = "store",
                        !.write.row = [row EXCEPT ![protocol] = secret,
                                                  ![Other(protocol)] = 0]])
            /\ secrets' = IF secret = secrets + 1 THEN secret ELSE secrets
       ELSE Go(p, Refused(o)) /\ UNCHANGED secrets
    /\ UNCHANGED <<inbounds, users, access, usedIds, drafted, fresh, bounds>>

Referred(row) == row.user \in DOMAIN users /\ row.inbound \in DOMAIN inbounds

\* Store.UpsertUserAccess: ON CONFLICT(user_id, inbound_id) updates the row of the
\* pair, which keeps its id; any other conflict, of the id or of a reference, fails.
StoreAccess(p) ==
    LET o == op[p]
        w == o.write
        pair == PairOf(w.row)
    IN
    /\ At(p, "store")
    /\ \/ /\ pair # {}
          /\ access' = [a \in DOMAIN access |-> IF a \in pair THEN w.row ELSE access[a]]
          /\ Go(p, [o EXCEPT !.pc = "accessBack"])
          /\ UNCHANGED usedIds
       \/ /\ pair = {}
          /\ \E a \in IF w.id = None THEN Accesses \ usedIds ELSE {w.id} :
             \E fk \in ForeignKeys :
                IF a \in DOMAIN access \/ (fk /\ ~Referred(w.row))
                THEN Go(p, Refused(o)) /\ UNCHANGED <<access, usedIds>>
                ELSE /\ access' = Put(access, a, w.row)
                     /\ usedIds' = usedIds \cup {a}
                     /\ Go(p, [o EXCEPT !.pc = "accessBack"])
    /\ UNCHANGED <<inbounds, users, secrets, drafted, fresh, bounds>>

\* It returns the row of the pair as it reads it back.
ReadAccessBack(p) ==
    LET o == op[p] IN
    /\ At(p, "accessBack")
    /\ Go(p, IF PairOf(o.write.row) # {} THEN [o EXCEPT !.pc = "mark"] ELSE Refused(o))
    /\ UNCHANGED <<rows, drafted, fresh, bounds>>

\* Store.DeleteUserAccess.
WithdrawAccess(p) ==
    LET o == op[p] IN
    /\ At(p, "withdraw")
    /\ IF o.write.id \in DOMAIN access
       THEN /\ access' = Without(access, {o.write.id})
            /\ Go(p, [o EXCEPT !.pc = "mark"])
       ELSE Go(p, Answer(o, "error")) /\ UNCHANGED access
    /\ UNCHANGED <<inbounds, users, usedIds, secrets, drafted, fresh, bounds>>

-----------------------------------------------------------------------------
(***************************************************************************)
(* Inbounds.                                                               *)
(***************************************************************************)
\* Store.UpsertInbound.
WriteInbound(p) ==
    LET o == op[p]
        i == o.req.inbound
    IN
    /\ At(p, "inbound")
    /\ IF TagTaken(i, o.inboundRow)
       THEN Go(p, Answer(o, "error")) /\ UNCHANGED inbounds
       ELSE /\ inbounds' = Put(inbounds, i, o.inboundRow)
            /\ Go(p, [o EXCEPT !.pc = "inboundBack"])
    /\ UNCHANGED <<users, access, usedIds, secrets, drafted, fresh, bounds>>

\* The inbound that was written: one of the defaults, or that of the request.
WrittenInbound(o) ==
    IF o.req.kind = "provision" THEN o.default[o.inboundRow.protocol] ELSE o.req.inbound

\* UpsertInbound returns it as it reads it back.
ReadInboundBack(p) ==
    LET o == op[p] IN
    /\ At(p, "inboundBack")
    /\ Go(p, IF WrittenInbound(o) \in DOMAIN inbounds THEN [o EXCEPT !.pc = "markServer"]
             ELSE Answer(o, "error"))
    /\ UNCHANGED <<rows, drafted, fresh, bounds>>

\* Store.DeleteInbound.
DropInbound(p) ==
    LET o == op[p]
        i == o.req.inbound
    IN
    /\ At(p, "drop")
    /\ IF i \in DOMAIN inbounds
       THEN /\ inbounds' = Without(inbounds, {i})
            /\ \E fk \in ForeignKeys :
                  access' = IF fk THEN Without(access, {a \in DOMAIN access :
                                                          access[a].inbound = i})
                            ELSE access
            /\ Go(p, [o EXCEPT !.pc = "markServer"])
       ELSE Go(p, Answer(o, "error")) /\ UNCHANGED <<inbounds, access>>
    /\ UNCHANGED <<users, usedIds, secrets, drafted, fresh, bounds>>

AfterServerMark(o) ==
    IF o.req.kind = "provision" THEN [o EXCEPT !.pc = "provide"]
    ELSE Drafting(o, o.servers)

\* MarkSubscriptionsArtifactsDirtyByServer: users with an access on the server now.
MarkServer(p) ==
    LET o == op[p] IN
    /\ At(p, "markServer")
    /\ fresh' = Without(fresh,
                    {access[a].user : a \in {b \in DOMAIN access :
                        /\ access[b].inbound \in DOMAIN inbounds
                        /\ inbounds[access[b].inbound].server \in o.servers}})
    /\ Go(p, AfterServerMark(o))
    /\ UNCHANGED <<rows, drafted, bounds>>

\* Mutation of Found: only enabled inbounds are looked at.
FoundEnabled(x) ==
    {i \in DOMAIN inbounds : /\ inbounds[i].server = DefaultServer
                             /\ inbounds[i].protocol = x /\ inbounds[i].enabled}
Found(x) ==
    {i \in DOMAIN inbounds : inbounds[i].server = DefaultServer /\ inbounds[i].protocol = x}

\* EnsureDefaultInbounds looks for an inbound of each protocol on the first server.
EnsureInbounds(p) ==
    LET o == op[p] IN
    /\ At(p, "ensure")
    /\ \E d \in [Protocols -> Inbounds \cup {None}] :
          /\ \A x \in Protocols : d[x] \in IF Found(x) = {} THEN {None} ELSE Found(x)
          /\ Go(p, [o EXCEPT !.pc = "provide", !.default = d, !.servers = {DefaultServer}])
    /\ UNCHANGED <<rows, drafted, fresh, bounds>>

Missing(o) == {x \in Protocols : o.default[x] = None}

DefaultInbound(x) ==
    [server |-> DefaultServer, protocol |-> x, tag |-> x, enabled |-> TRUE]

\* It creates those that are missing, vless first; then the user is written.
ProvideInbound(p) ==
    LET o == op[p]
        x == IF "vless" \in Missing(o) THEN "vless" ELSE "hysteria2"
    IN
    /\ At(p, "provide")
    /\ \/ /\ Missing(o) = {}
          /\ Go(p, [o EXCEPT !.pc = "user"])
          /\ UNCHANGED <<inbounds, usedIds>>
       \/ /\ Missing(o) # {}
          /\ \E i \in Inbounds \ usedIds :
                IF TagTaken(i, DefaultInbound(x))
                THEN Go(p, Answer(o, "error")) /\ UNCHANGED <<inbounds, usedIds>>
                ELSE /\ inbounds' = Put(inbounds, i, DefaultInbound(x))
                     /\ usedIds' = usedIds \cup {i}
                     /\ Go(p, [o EXCEPT !.pc = "inboundBack", !.default[x] = i,
                                        !.inboundRow = DefaultInbound(x)])
    /\ UNCHANGED <<users, access, secrets, drafted, fresh, bounds>>

\* ProvisionUser deletes its user when an access cannot be written.
RollBack(p) ==
    LET o == op[p] IN
    /\ At(p, "rollback")
    /\ \E fk \in ForeignKeys : RemoveUsers({o.user}, fk)
    /\ Go(p, Answer(o, "error"))
    /\ UNCHANGED <<inbounds, usedIds, secrets, drafted, bounds>>

-----------------------------------------------------------------------------
(***************************************************************************)
(* Documents and drafts.                                                   *)
(***************************************************************************)
RenderDocument(p) ==
    LET o == op[p] IN
    /\ At(p, "render")
    /\ IF o.user \in DOMAIN users
       THEN fresh' = Put(fresh, o.user, DocumentOf(o.user)) /\ Go(p, Answer(o, "ok"))
       ELSE Go(p, Answer(o, "error")) /\ UNCHANGED fresh
    /\ UNCHANGED <<rows, drafted, bounds>>

\* applyCoreServerConfigs, renderDraftRevisionStates: one server after the other.
DraftServer(p) ==
    LET o == op[p] IN
    /\ At(p, "draft")
    /\ \E s \in o.servers :
          /\ drafted' = [drafted EXCEPT ![s] = Config(s)]
          /\ Go(p, Drafting(o, o.servers \ {s}))
    /\ UNCHANGED <<rows, fresh, bounds>>

-----------------------------------------------------------------------------
(***************************************************************************)
(* Failures.                                                               *)
(***************************************************************************)
\* The error of a mark and of the rollback is dropped; the lookups of the impact
\* skip an inbound they cannot read; any other error ends the request.
AfterFailure(o) ==
    CASE o.pc = "mark" -> Marked(o)
      [] o.pc = "markServer" -> {AfterServerMark(o)}
      [] o.pc = "impact" /\ o.pending # {} -> {[o EXCEPT !.pending = @ \ {w}] : w \in o.pending}
      [] o.pc = "impact" /\ o.pending = {} /\ o.todo = {} -> {[o EXCEPT !.pc = "rows"]}
      [] o.pc = "userBack" -> {Answer(o, "unread")}
      [] o.pc = "draft" -> {Answer(o, "undrafted")}
      [] OTHER -> {Refused(o)}

StatementFails(p) ==
    /\ "db" \in Faults /\ failures < MaxFailures
    /\ ~Free(p)
    /\ failures' = failures + 1
    /\ GoTo(p, AfterFailure([op[p] EXCEPT !.failed = @ + 1]))
    /\ UNCHANGED <<rows, drafted, fresh, begun>>

\* The process dies: requests are gone, what they committed stays.
Crash ==
    /\ "crash" \in Faults /\ failures < MaxFailures
    /\ \E p \in Procs : ~Free(p)
    /\ failures' = failures + 1
    /\ op' = [p \in Procs |-> NoOp]
    /\ UNCHANGED <<rows, drafted, fresh, begun>>

Step(p) ==
    \/ LoadUser(p) \/ LoadAccess(p) \/ LoadInbound(p)
    \/ ReadBulk(p) \/ Collect(p) \/ ReadRows(p) \/ ListAccesses(p)
    \/ WriteUser(p) \/ ReadUserBack(p) \/ MarkUser(p) \/ RemoveUser(p) \/ Batch(p)
    \/ PrepareAccess(p) \/ StoreAccess(p) \/ ReadAccessBack(p) \/ WithdrawAccess(p)
    \/ WriteInbound(p) \/ ReadInboundBack(p) \/ DropInbound(p) \/ MarkServer(p)
    \/ EnsureInbounds(p) \/ ProvideInbound(p) \/ RollBack(p)
    \/ RenderDocument(p) \/ DraftServer(p) \/ StatementFails(p)

Next ==
    \/ \E p \in Procs : (\E r \in Requests : Begin(p, r)) \/ Step(p)
    \/ Crash

Spec == Init /\ [][Next]_vars

-----------------------------------------------------------------------------
(***************************************************************************)
(* Safety.                                                                 *)
(***************************************************************************)
Answered(p, kinds, result) ==
    At(p, "done") /\ op[p].req.kind \in kinds /\ op[p].result = result

\* No other request and no failure met the request.
Undisturbed(p) == op[p].alone /\ op[p].failed = 0

\* ProvisionUser that fails takes the user it inserted back, whichever statement of
\* an access failed, unless the deletion failed too: the name can be used again.
\* (When the statement fails that reads the inserted row back the answer is "unread":
\* UpsertUser passes the error on before the rollback is reached, and the user stays.)
FailedProvisionLeavesNoUser ==
    \A p \in Procs :
        Answered(p, {"provision"}, "error") /\ op[p].alone /\ op[p].failed <= 1
        => op[p].user \notin DOMAIN users

\* A change that is answered with success is in the latest draft of every server it
\* concerns, whichever handler made it: no server the request found up to date has
\* an older configuration as its draft.  (Bulk deletion and bulk switching leave
\* the draft to the operator; a patch that RequiresRuntimeApply says needs no draft,
\* like that of client profiles alone, nevertheless writes accesses, and gives one the
\* credential it lacks since its inbound changed protocol.)
SuccessIsDrafted ==
    \A p \in Procs :
        /\ Answered(p, Kinds \ {"bulkDelete", "bulkEnable"}, "ok") /\ Undisturbed(p)
        /\ op[p].req.kind = "bulkAccess" \/ op[p].req.patch.profile
              => ChangesRuntime(op[p].req.patch)
        => Stale \subseteq op[p].stale

\* A change that is answered with success leaves no document that was current and
\* is not any more without a mark.  (Deleting an inbound marks too late for users
\* that have no other access on the server, and bulk switching does not mark.)
SuccessIsMarked ==
    \A p \in Procs :
        Answered(p, Kinds \ {"deleteInbound", "bulkEnable"}, "ok") /\ Undisturbed(p)
        => Dated \subseteq op[p].dated

\* A provisioned user can connect with both protocols: it has an access with the
\* credential of the protocol to an inbound of the first server, and the draft of
\* the server lists it, unless the inbound is switched off.
ProvisionedUserIsServed ==
    \A p \in Procs :
        Answered(p, {"provision"}, "ok") /\ Undisturbed(p)
        => \A x \in Protocols : \E a \in DOMAIN access :
              /\ access[a].user = op[p].user
              /\ access[a].inbound \in DOMAIN inbounds
              /\ inbounds[access[a].inbound].server = DefaultServer
              /\ inbounds[access[a].inbound].protocol = x
              /\ access[a][x] # 0
              /\ inbounds[access[a].inbound].enabled
                 => EntryOf(access[a]) \in drafted[DefaultServer]

\* Provisioning is refused only when the name is taken, or when an inbound with the
\* tag of a default inbound has been given the other protocol.
ProvisionRefusedForCause ==
    \A p \in Procs :
        Answered(p, {"provision"}, "error") /\ Undisturbed(p)
        => \/ \E u \in DOMAIN users : users[u].name = op[p].req.patch.name
           \/ \E i \in DOMAIN inbounds :
                 /\ inbounds[i].server = DefaultServer
                 /\ inbounds[i].tag \in Protocols \ {inbounds[i].protocol}

=============================================================================
