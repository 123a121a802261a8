--------------------------- MODULE ConfigRevisions ---------------------------
(***************************************************************************)
(* The sing-box configuration workflow of the control plane:               *)
(*                                                                         *)
(*     change -> draft revision -> validate -> apply (-> rollback)         *)
(*                                                                         *)
(* Several requests (HTTP handlers of "panel-api serve" and the            *)
(* "refresh-inbounds" command, another process on the same database) run   *)
(* at once.  Each is a sequence of autocommitted SQLite statements, one    *)
(* external check, one file replacement and one systemctl call; nothing    *)
(* serialises two requests, and each may stop between any two steps.       *)
(*                                                                         *)
(* A configuration is what buildServerConfigJSON reads, in two parts that  *)
(* it queries one after the other: the inbounds with their users           *)
(* ("access") and the profiles, outbounds, rules and DNS ("policy").  Only *)
(* the version of each part matters here.                                  *)
(***************************************************************************)
EXTENDS Naturals, FiniteSets

CONSTANTS
    Servers,      \* rows of core_servers that may ever exist
    Units,        \* a config path together with the service that reads it
    UnitOf,       \* the unit a server row points at (several may share one)
    Procs,        \* concurrent requests
    RevIds,       \* ids of core_config_revisions; bounds how many are created
    MaxAccess,    \* bound on the versions of the access part
    MaxPolicy,    \* bound on the versions of the policy part
    MaxRevNo,     \* bound on revision numbers
    Valid,        \* the configurations "sing-box check" accepts
    BinaryMayBeMissing, \* may the panel run before sing-box is installed?
    Requests,     \* the kinds of request an instance issues
    Faults,       \* the kinds of failure the environment may inject
    None          \* no server, no revision, no file, service not running

Configs  == [access : 0..MaxAccess, policy : 0..MaxPolicy]
RevNos   == 1..MaxRevNo
Blank    == [access |-> 0, policy |-> 0]

FaultKinds == {"crash", "db", "check", "write", "restart"}
RequestKinds == {"change", "bulk", "move", "policy", "create", "delete", "render",
                 "apply", "rollback", "refresh"}

ASSUME ServersAssumption ==
    /\ Servers # {} /\ Procs # {}
    /\ UnitOf \in [Servers -> Units]
    /\ None \notin Servers \cup RevIds \cup Configs

ASSUME BoundsAssumption == MaxAccess \in Nat /\ MaxPolicy \in Nat /\ MaxRevNo \in Nat

ASSUME EnvironmentAssumption ==
    /\ Valid \subseteq Configs
    /\ BinaryMayBeMissing \in BOOLEAN
    /\ Faults \subseteq FaultKinds
    /\ Requests \subseteq RequestKinds

VARIABLES
    srv,        \* srv[s]: is the row of core_servers absent, live or deleted?
    stored,     \* stored[s]: the configuration the database describes now
    revs,       \* core_config_revisions: existing row id -> row
    used,       \* ids ever given to a revision (ids are never reused)
    file,       \* file[u]: content of the unit's config path
    running,    \* running[u]: the configuration the service has loaded
    binary,     \* is the sing-box binary installed?
    op,         \* op[p]: the request p and how far it has come
    published,  \* history: every configuration ever stored in a revision
    installed,  \* history: installed[u], every content file[u] ever had
    overtaken,  \* history: requests whose server changed after they read its access part
    undrafted   \* history: servers with a change that no request was left to draft

drafting == <<overtaken, undrafted>>
vars == <<srv, stored, revs, used, file, running, binary, op, published, installed,
          overtaken, undrafted>>

Row == [server : Servers, no : RevNos, cfg : Configs, checkOK : BOOLEAN,
        applied : BOOLEAN, current : BOOLEAN,
        status : {"none", "succeeded", "failed"}, base : RevIds \cup {None}]

ApplyErrors == {"config_validation_failed", "write_failed", "runtime_restart_failed"}

Op == [kind : {"none", "draft", "apply", "rollback", "refresh"},
       pc : {"idle", "normalize", "inbounds", "policies", "create", "fetch",
             "check", "write", "restart", "markFailed", "markApplied"},
       server : Servers \cup {None},     \* server being rendered or applied
       todo : SUBSET Servers,            \* servers whose revision is still due
       payload : Configs,                \* configuration in memory
       target : RevIds \cup {None},      \* revision being applied
       base : RevIds \cup {None},        \* rollback_from_revision_id
       disturbed : BOOLEAN,              \* history: file rewritten by another
       stage : {"none"} \cup ApplyErrors] \* ApplyError.Stage to report

NoOp == [kind |-> "none", pc |-> "idle", server |-> None, todo |-> {},
         payload |-> Blank, target |-> None, base |-> None,
         disturbed |-> FALSE, stage |-> "none"]

(***************************************************************************)
(* The type invariant.                                                     *)
(***************************************************************************)
TypeOK ==
    /\ srv \in [Servers -> {"absent", "live", "deleted"}]
    /\ stored \in [Servers -> Configs]
    /\ used \subseteq RevIds
    /\ DOMAIN revs \subseteq used
    /\ revs \in [DOMAIN revs -> Row]
    /\ file \in [Units -> Configs \cup {None}]
    /\ running \in [Units -> Configs \cup {None}]
    /\ binary \in BOOLEAN
    /\ op \in [Procs -> Op]
    /\ published \subseteq Configs
    /\ installed \in [Units -> SUBSET Configs]
    /\ overtaken \subseteq Procs
    /\ undrafted \subseteq Servers

Init ==
    /\ srv \in [Servers -> {"absent", "live"}]
    /\ stored = [s \in Servers |-> Blank]
    /\ revs = [r \in {} |-> Blank]
    /\ used = {}
    /\ file = [u \in Units |-> None]
    /\ running = [u \in Units |-> None]
    /\ binary \in IF BinaryMayBeMissing THEN BOOLEAN ELSE {TRUE}
    /\ op = [p \in Procs |-> NoOp]
    /\ published = {}
    /\ installed = [u \in Units |-> {}]
    /\ overtaken = {}
    /\ undrafted = {}

-----------------------------------------------------------------------------
(***************************************************************************)
(* Queries.                                                                *)
(***************************************************************************)
Live == {s \in Servers : srv[s] = "live"}
RevisionsOf(s) == {r \in DOMAIN revs : revs[r].server = s}

\* Mutation of IsNextNo: numbers go on from the current revision.
IsNextNoOfCurrent(s, n) ==
    IF \E r \in RevisionsOf(s) : revs[r].current
    THEN \E r \in RevisionsOf(s) : revs[r].current /\ n = revs[r].no + 1
    ELSE /\ \A r \in RevisionsOf(s) : revs[r].no < n
         /\ n = 1 \/ \E r \in RevisionsOf(s) : revs[r].no = n - 1

\* SELECT COALESCE(MAX(revision_no), 0) + 1 ... WHERE server_id = ?
IsNextNo(s, n) ==
    /\ \A r \in RevisionsOf(s) : revs[r].no < n
    /\ n = 1 \/ \E r \in RevisionsOf(s) : revs[r].no = n - 1

\* ... WHERE server_id = ? ORDER BY revision_no DESC LIMIT 1
IsLatest(s, r) ==
    /\ r \in RevisionsOf(s)
    /\ \A q \in RevisionsOf(s) : revs[q].no <= revs[r].no

IsCurrent(s, r) == r \in RevisionsOf(s) /\ revs[r].current

\* Mutation of Accepts: the verdict of the check is ignored.
AcceptsAll(c) == c \in Configs

\* "sing-box check" accepts c; a missing binary skips the check.
Accepts(c) == binary => c \in Valid

\* Revisions that requests already under way may still create.
Outstanding == UNION {{p} \X op[p].todo : p \in Procs}

\* Bound: a request that creates revisions starts only if ids remain for it.
HasRoom(S) == Cardinality(used) + Cardinality(Outstanding) + Cardinality(S)
                 <= Cardinality(RevIds)

-----------------------------------------------------------------------------
(***************************************************************************)
(* Requests begin.                                                         *)
(***************************************************************************)
Begin(p, request, o) ==
    /\ request \in Requests
    /\ op[p].pc = "idle"
    /\ HasRoom(o.todo)
    /\ op' = [op EXCEPT ![p] = o]

\* Mutation of DraftOf: the handler returns without rendering.
NoDraftOf(S) == NoOp

\* Renders a draft of every server in S, one after the other.
DraftOf(S) == IF S = {} THEN NoOp
              ELSE [NoOp EXCEPT !.kind = "draft", !.pc = "inbounds", !.todo = S]

\* Requests that have read the access part of a server in S and not stored it yet.
Renderers(S) == {q \in Procs : op[q].pc \in {"policies", "create"} /\ op[q].server \in S}

\* A committed change of the access part of the servers in S.
AccessRevised(S) ==
    /\ \E v \in 0..MaxAccess :
          stored' = [s \in Servers |-> IF s \in S THEN [stored[s] EXCEPT !.access = v]
                                       ELSE stored[s]]
    /\ overtaken' = overtaken \cup Renderers(S)

\* Handlers that change inbounds, users or access commit the change first and
\* then render a draft of every server it concerns.
ChangeInbounds(p) ==
    /\ \E S \in SUBSET Live \ {{}} : Begin(p, "change", DraftOf(S)) /\ AccessRevised(S)
    /\ UNCHANGED <<srv, revs, used, file, running, binary, published, installed, undrafted>>

\* Deleting, enabling or disabling users in bulk commits and returns: no draft is
\* rendered.  So does the clock that passes the expiry of a user.
SilentChange ==
    /\ "bulk" \in Requests
    /\ \E S \in SUBSET Live \ {{}} : AccessRevised(S) /\ undrafted' = undrafted \cup S
    /\ UNCHANGED <<srv, revs, used, file, running, binary, op, published, installed>>

\* An inbound moved to another server changes what both would render, but only
\* the new server is rendered.
MoveInbound(p) ==
    /\ \E from, to \in Live :
          /\ from # to
          /\ Begin(p, "move", DraftOf({to}))
          /\ AccessRevised({from, to})
          /\ undrafted' = undrafted \cup {from}
    /\ UNCHANGED <<srv, revs, used, file, running, binary, published, installed>>

\* Profile and policy handlers commit and return: no draft is rendered.
ChangePolicy ==
    /\ "policy" \in Requests
    /\ \E s \in Live, v \in 0..MaxPolicy : stored' = [stored EXCEPT ![s].policy = v]
    /\ UNCHANGED <<srv, revs, used, file, running, binary, op, published, installed,
                   drafting>>

CreateServer(p) ==
    /\ \E s \in Servers :
          /\ srv[s] = "absent"
          /\ srv' = [srv EXCEPT ![s] = "live"]
          /\ Begin(p, "create", DraftOf({s}))
    /\ UNCHANGED <<stored, revs, used, file, running, binary, published, installed,
                   drafting>>

\* The revisions go with the server when the pooled connection that runs the
\* DELETE has foreign_keys on, and stay behind when it has not.
DeleteServer(p) ==
    /\ \E s \in Live, cascade \in BOOLEAN :
          /\ srv' = [srv EXCEPT ![s] = "deleted"]
          /\ revs' = IF cascade THEN [r \in DOMAIN revs \ RevisionsOf(s) |-> revs[r]]
                     ELSE revs
          /\ Begin(p, "delete", DraftOf(Live \ {s}))
    /\ UNCHANGED <<stored, used, file, running, binary, published, installed, drafting>>

RenderRequest(p) ==
    /\ \E s \in Live : Begin(p, "render", DraftOf({s}))
    /\ UNCHANGED <<srv, stored, revs, used, file, running, binary, published, installed,
                   drafting>>

\* No revision id asks for the latest; any id is accepted as given.
ApplyRequest(p) ==
    /\ \E s \in Live, r \in DOMAIN revs \cup {None} :
          Begin(p, "apply", [NoOp EXCEPT !.kind = "apply", !.pc = "fetch",
                                         !.server = s, !.target = r])
    /\ UNCHANGED <<srv, stored, revs, used, file, running, binary, published, installed,
                   drafting>>

\* A rollback names a revision of the same server, and renders a new one.
RollbackRequest(p) ==
    /\ \E b \in DOMAIN revs :
          Begin(p, "rollback", [NoOp EXCEPT !.kind = "rollback", !.pc = "inbounds",
                                            !.todo = {revs[b].server}, !.base = b])
    /\ UNCHANGED <<srv, stored, revs, used, file, running, binary, published, installed,
                   drafting>>

RefreshRequest(p) ==
    /\ Live # {}
    /\ Begin(p, "refresh", [NoOp EXCEPT !.kind = "refresh", !.pc = "normalize",
                                        !.todo = Live])
    /\ UNCHANGED <<srv, stored, revs, used, file, running, binary, published, installed,
                   drafting>>

-----------------------------------------------------------------------------
(***************************************************************************)
(* Rendering a draft.                                                      *)
(***************************************************************************)
Finish(p) == op' = [op EXCEPT ![p] = NoOp]

\* The servers whose access part the request has changed and not yet drafted.
Due(o) ==
    CASE o.kind = "draft" -> o.todo
      [] o.kind = "refresh" /\ o.pc \in {"inbounds", "policies", "create"} -> {o.server}
      [] OTHER -> {}

\* The request ends and leaves the drafts it owes.
GiveUp(p) == Finish(p) /\ undrafted' = undrafted \cup Due(op[p])

\* A query of the request fails: SQLite is busy, or the client has gone and
\* its context is cancelled.  The handler returns the error.
QueryFails(p) ==
    /\ "db" \in Faults
    /\ op[p].pc \in {"normalize", "inbounds", "create", "fetch"}
    /\ GiveUp(p)
    /\ UNCHANGED <<srv, stored, revs, used, file, running, binary, published, installed,
                   overtaken>>

\* refresh-inbounds upserts every inbound of the next server with defaults
\* filled in, which may change what it renders.
Normalize(p) ==
    /\ op[p].pc = "normalize"
    /\ \E s \in op[p].todo :
          /\ IF s \in Live THEN AccessRevised({s}) ELSE UNCHANGED <<stored, overtaken>>
          /\ op' = [op EXCEPT ![p].pc = "inbounds", ![p].server = s]
    /\ UNCHANGED <<srv, revs, used, file, running, binary, published, installed, undrafted>>

\* The next server: refresh goes on with the one it has just normalised.
NextServers(p) == IF op[p].kind = "refresh" THEN {op[p].server} ELSE op[p].todo

\* Mutation of BuildInbounds: a server that is gone is asked for again.
BuildInboundsRetries(p) ==
    /\ op[p].pc = "inbounds"
    /\ \E s \in NextServers(p) :
          op' = [op EXCEPT ![p].pc = IF s \in Live THEN "policies" ELSE "inbounds",
                           ![p].server = s, ![p].payload.access = stored[s].access]
    /\ overtaken' = overtaken \ {p}
    /\ UNCHANGED <<srv, stored, revs, used, file, running, binary, published, installed,
                   undrafted>>

\* A server that is gone ends the request, also when drafts of others are due.
BuildInbounds(p) ==
    /\ op[p].pc = "inbounds"
    /\ \E s \in NextServers(p) :
          IF s \in Live
          THEN /\ op' = [op EXCEPT ![p].pc = "policies", ![p].server = s,
                                   ![p].payload.access = stored[s].access]
               /\ UNCHANGED undrafted
          ELSE GiveUp(p)
    /\ overtaken' = overtaken \ {p}
    /\ UNCHANGED <<srv, stored, revs, used, file, running, binary, published, installed>>

\* A profile, outbound, rule or DNS row that cannot be read is left out or rendered
\* with its default: the policy part is then none the database has described.
BuildPolicies(p) ==
    /\ op[p].pc = "policies"
    /\ \E v \in 0..MaxPolicy :
          /\ v = stored[op[p].server].policy \/ "db" \in Faults
          /\ op' = [op EXCEPT ![p].pc = "create", ![p].payload.policy = v]
    /\ UNCHANGED <<srv, stored, revs, used, file, running, binary, published, installed,
                   drafting>>

\* What follows the creation of revision r: the next draft, the end of the
\* request, or (rollback, refresh) the application of r.
AfterCreate(p, r) ==
    LET rest == op[p].todo \ {op[p].server} IN
    CASE op[p].kind # "draft" ->
             op' = [op EXCEPT ![p].pc = "fetch", ![p].todo = rest, ![p].target = r]
      [] op[p].kind = "draft" /\ rest # {} ->
             op' = [op EXCEPT ![p] = DraftOf(rest)]
      [] OTHER -> Finish(p)

\* checkConfig decides only what the row records; the row is stored anyway.
\* A deleted server makes the INSERT fail if foreign keys are enforced on the
\* connection (QueryFails), and leaves an orphan row if not.
NewRow(p, n, ok) ==
    [server |-> op[p].server, no |-> n, cfg |-> op[p].payload, checkOK |-> ok,
     applied |-> FALSE, current |-> FALSE, status |-> "none", base |-> op[p].base]

CreateRevision(p) ==
    /\ op[p].pc = "create"
    /\ \E r \in RevIds \ used, n \in RevNos, ok \in BOOLEAN :
          /\ IsNextNo(op[p].server, n)
          /\ ok => Accepts(op[p].payload)
          /\ ~ok => ~Accepts(op[p].payload) \/ "check" \in Faults
          /\ revs' = [q \in DOMAIN revs \cup {r} |->
                        IF q = r THEN NewRow(p, n, ok) ELSE revs[q]]
          /\ used' = used \cup {r}
          /\ AfterCreate(p, r)
    /\ published' = published \cup {op[p].payload}
    /\ undrafted' = IF p \in overtaken THEN undrafted \cup {op[p].server}
                    ELSE undrafted \ {op[p].server}
    /\ UNCHANGED <<srv, stored, file, running, binary, installed, overtaken>>

-----------------------------------------------------------------------------
(***************************************************************************)
(* Applying a revision.                                                    *)
(***************************************************************************)
Fetch(p) ==
    LET s == op[p].server
        Wanted == {r \in DOMAIN revs : IF op[p].target = None THEN IsLatest(s, r)
                                       ELSE r = op[p].target}
    IN
    /\ op[p].pc = "fetch"
    /\ IF s \in Live /\ Wanted # {}
       THEN \E r \in Wanted : op' = [op EXCEPT ![p].pc = "check", ![p].target = r,
                                               ![p].payload = revs[r].cfg]
       ELSE Finish(p)
    /\ UNCHANGED <<srv, stored, revs, used, file, running, binary, published, installed,
                   drafting>>

Fail(p, stage) == op' = [op EXCEPT ![p].pc = "markFailed", ![p].stage = stage]

CheckConfig(p) ==
    /\ op[p].pc = "check"
    /\ \/ Accepts(op[p].payload) /\ op' = [op EXCEPT ![p].pc = "write"]
       \/ /\ ~Accepts(op[p].payload) \/ "check" \in Faults
          /\ Fail(p, "config_validation_failed")
    /\ UNCHANGED <<srv, stored, revs, used, file, running, binary, published, installed,
                   drafting>>

UnitOfOp(p) == UnitOf[op[p].server]

\* Mutation of Install: an existing file is not replaced.
InstallOnce(p) ==
    LET u == UnitOfOp(p) IN
    /\ file' = [file EXCEPT ![u] = IF @ = None THEN op[p].payload ELSE @]
    /\ installed' = [installed EXCEPT ![u] = @ \cup {op[p].payload}]

Install(p) ==
    /\ file' = [file EXCEPT ![UnitOfOp(p)] = op[p].payload]
    /\ installed' = [installed EXCEPT ![UnitOfOp(p)] = @ \cup {op[p].payload}]

\* Between its own write and its last step a request relies on the file.
RelyOn(u) == {q \in Procs : /\ op[q].pc \in {"restart", "markApplied"}
                            /\ UnitOf[op[q].server] = u}

Disturb(p, f) == [q \in Procs |->
    IF q \in RelyOn(UnitOfOp(p)) \ {p} THEN [f[q] EXCEPT !.disturbed = TRUE] ELSE f[q]]

WriteFile(p) ==
    /\ op[p].pc = "write"
    /\ Install(p)
    /\ op' = Disturb(p, [op EXCEPT ![p].pc = "restart"])
    /\ UNCHANGED <<srv, stored, revs, used, running, binary, published, drafting>>

\* WriteFileAtomic may fail before the rename, or after it (directory fsync).
WriteFails(p) ==
    /\ op[p].pc = "write"
    /\ "write" \in Faults
    /\ \/ UNCHANGED <<file, installed>> /\ Fail(p, "write_failed")
       \/ /\ Install(p)
          /\ op' = Disturb(p, [op EXCEPT ![p].pc = "markFailed",
                                         ![p].stage = "write_failed"])
    /\ UNCHANGED <<srv, stored, revs, used, running, binary, published, drafting>>

Startable(u) == binary /\ file[u] \in Valid
Loaded(u) == running' = [running EXCEPT ![u] = IF Startable(u) THEN file[u] ELSE None]

\* systemctl restart: ExecStartPre checks the file before the service starts.
RestartService(p) ==
    /\ op[p].pc = "restart"
    /\ Startable(UnitOfOp(p))
    /\ Loaded(UnitOfOp(p))
    /\ op' = [op EXCEPT ![p].pc = "markApplied"]
    /\ UNCHANGED <<srv, stored, revs, used, file, binary, published, installed,
                   drafting>>

\* A failed call tells nothing: systemd may still have restarted the service
\* (the command timed out), stopped it, or not have been reached.
RestartFails(p) ==
    LET u == UnitOfOp(p) IN
    /\ op[p].pc = "restart"
    /\ ~Startable(u) \/ "restart" \in Faults
    /\ \/ Loaded(u)
       \/ "restart" \in Faults /\ running' = [running EXCEPT ![u] = None]
       \/ "restart" \in Faults /\ UNCHANGED running
    /\ Fail(p, "runtime_restart_failed")
    /\ UNCHANGED <<srv, stored, revs, used, file, binary, published, installed,
                   drafting>>

\* Mutation of FailedRow: a forgotten apply time.
FailedRowNotApplied(row) == [row EXCEPT !.status = "failed", !.applied = FALSE]

\* MarkConfigRevisionApplyFailed.
FailedRow(row) == [row EXCEPT !.status = "failed"]

\* The error of the UPDATE is dropped; the request reports the stage anyway.
MarkFailed(p) ==
    /\ op[p].pc = "markFailed"
    /\ \/ revs' = [r \in DOMAIN revs |-> IF r = op[p].target
                                         THEN FailedRow(revs[r]) ELSE revs[r]]
       \/ "db" \in Faults /\ UNCHANGED revs
    /\ Finish(p)
    /\ UNCHANGED <<srv, stored, used, file, running, binary, published, installed,
                   drafting>>

\* Mutations of Applied: the other revisions keep their flag, the
\* latest revision is marked in place of the target.
AppliedKeepsOthers(t) ==
    [revs EXCEPT ![t] = [@ EXCEPT !.applied = TRUE, !.current = TRUE,
                                  !.status = "succeeded"]]
AppliedLatest(t) ==
    [r \in DOMAIN revs |->
       IF IsLatest(revs[t].server, r)
       THEN [revs[r] EXCEPT !.applied = TRUE, !.current = TRUE, !.status = "succeeded"]
       ELSE IF revs[r].server = revs[t].server THEN [revs[r] EXCEPT !.current = FALSE]
       ELSE revs[r]]

\* MarkConfigRevisionApplied, one transaction.
Applied(t) ==
    [r \in DOMAIN revs |->
       IF r = t THEN [revs[r] EXCEPT !.applied = TRUE, !.current = TRUE,
                                     !.status = "succeeded"]
       ELSE IF revs[r].server = revs[t].server THEN [revs[r] EXCEPT !.current = FALSE]
       ELSE revs[r]]

\* After an application: refresh goes on with its next server.
AfterApply(p) ==
    IF op[p].todo # {}
    THEN op' = [op EXCEPT ![p] = [NoOp EXCEPT !.kind = "refresh", !.pc = "normalize",
                                              !.todo = op[p].todo]]
    ELSE Finish(p)

MarkApplied(p) ==
    /\ op[p].pc = "markApplied"
    /\ \/ /\ op[p].target \in DOMAIN revs
          /\ revs' = Applied(op[p].target)
          /\ AfterApply(p)
       \/ /\ op[p].target \notin DOMAIN revs \/ "db" \in Faults
          /\ UNCHANGED revs
          /\ Finish(p)
    /\ UNCHANGED <<srv, stored, used, file, running, binary, published, installed,
                   drafting>>

\* The process running the request dies.
Crash(p) ==
    /\ "crash" \in Faults
    /\ op[p].pc # "idle"
    /\ GiveUp(p)
    /\ UNCHANGED <<srv, stored, revs, used, file, running, binary, published, installed,
                   overtaken>>

-----------------------------------------------------------------------------
(***************************************************************************)
(* The host.                                                               *)
(***************************************************************************)
\* systemd (Restart=on-failure) or an operator restarts the service, which
\* loads whatever the file holds now.
UnitRestarts(u) ==
    /\ Loaded(u)
    /\ UNCHANGED <<srv, stored, revs, used, file, binary, op, published, installed,
                   drafting>>

InstallBinary ==
    /\ ~binary
    /\ binary' = TRUE
    /\ UNCHANGED <<srv, stored, revs, used, file, running, op, published, installed,
                   drafting>>

Continue(p) ==
    \/ Normalize(p) \/ BuildInbounds(p) \/ BuildPolicies(p) \/ CreateRevision(p)
    \/ Fetch(p) \/ CheckConfig(p) \/ WriteFile(p) \/ WriteFails(p)
    \/ RestartService(p) \/ RestartFails(p) \/ MarkFailed(p) \/ MarkApplied(p)
    \/ QueryFails(p)

Request(p) ==
    \/ ChangeInbounds(p) \/ MoveInbound(p) \/ CreateServer(p) \/ DeleteServer(p)
    \/ RenderRequest(p) \/ ApplyRequest(p) \/ RollbackRequest(p) \/ RefreshRequest(p)

Next ==
    \/ \E p \in Procs : Request(p) \/ Continue(p) \/ Crash(p)
    \/ \E u \in Units : UnitRestarts(u)
    \/ ChangePolicy
    \/ SilentChange
    \/ InstallBinary

Spec == Init /\ [][Next]_vars

\* The Go scheduler runs every goroutine, and every step is bounded in time:
\* the check by singBoxCheckTimeout, systemctl by ServiceCommandTimeout, and
\* SQLite by its busy timeout.
FairSpec == Spec /\ \A p \in Procs : WF_vars(Continue(p))

-----------------------------------------------------------------------------
(***************************************************************************)
(* Safety.                                                                 *)
(***************************************************************************)
\* A server has at most one current revision, however many applications of
\* its revisions interleave: MarkConfigRevisionApplied clears every other
\* is_current of the server in the transaction that sets one.
OneCurrentRevision ==
    \A r, q \in DOMAIN revs :
        revs[r].server = revs[q].server /\ revs[r].current /\ revs[q].current => r = q

\* Two revisions of one server never share a number, so "the latest" (ORDER BY
\* revision_no DESC LIMIT 1) is one revision even when drafts are rendered
\* concurrently.
RevisionNumbersUnique ==
    \A r, q \in DOMAIN revs :
        revs[r].server = revs[q].server /\ revs[r].no = revs[q].no => r = q

\* A unit's config path never holds a configuration that sing-box rejects when
\* the binary has always been there: ApplyServerConfig checks the payload it is
\* about to write, also one whose draft was stored with check_ok = 0.
FileAccepted ==
    ~BinaryMayBeMissing => \A u \in Units : file[u] # None => file[u] \in Valid

\* A current revision has been applied: its apply time is set and its content
\* was written to some unit's file, even if a later attempt to apply it again
\* failed, the server was deleted or the request that applied it died.
CurrentWasInstalled ==
    \A r \in DOMAIN revs : revs[r].current =>
        /\ revs[r].applied
        /\ \E u \in Units : revs[r].cfg \in installed[u]

\* A request that is about to mark its revision applied, and whose unit's file
\* no other request has rewritten since it wrote it, finds its own payload in
\* the file and in the service (unless a failed restart stopped the service).
UndisturbedApplyTakesEffect ==
    \A p \in Procs : op[p].pc = "markApplied" /\ ~op[p].disturbed =>
        /\ file[UnitOfOp(p)] = op[p].payload
        /\ running[UnitOfOp(p)] \in {op[p].payload, None}

Quiet == \A p \in Procs : op[p].pc = "idle"

\* The latest revision of a server describes its access part as it is stored.
Covered(s) ==
    IF RevisionsOf(s) = {} THEN stored[s].access = Blank.access
    ELSE \A r \in DOMAIN revs : IsLatest(s, r) => revs[r].cfg.access = stored[s].access

\* Between requests the latest revision of a server, the one the operator goes on
\* to validate and apply, describes its inbounds and users as they are stored,
\* however the handlers that changed and rendered them interleaved.  Excepted are
\* the servers in undrafted: a change without a draft (users in bulk, the server an
\* inbound left), a request that ended before its draft, and a draft stored although
\* the server changed after it was read.  A later draft repairs each of them.
DraftCoversInbounds == Quiet => \A s \in Live \ undrafted : Covered(s)

\* Between requests a server's current revision is what its unit's file holds,
\* so a server without pending changes runs its latest revision.
CurrentRevisionIsOnDisk ==
    Quiet => \A s \in Live, r \in DOMAIN revs :
        IsCurrent(s, r) => file[UnitOf[s]] = revs[r].cfg

-----------------------------------------------------------------------------
(***************************************************************************)
(* Action properties.                                                      *)
(***************************************************************************)
\* What a revision records of its rendering never changes and its application
\* is never forgotten: later renderings, failed or repeated applications and
\* rollbacks touch only its status.  A deleted id does not come back.
RevisionsAreHistory ==
    [][/\ \A r \in DOMAIN revs \cap DOMAIN revs' :
            /\ \A f \in {"server", "no", "cfg", "checkOK", "base"} :
                  revs'[r][f] = revs[r][f]
            /\ revs[r].applied => revs'[r].applied
       /\ \A r \in used : r \in DOMAIN revs' => r \in DOMAIN revs]_vars

\* A failed apply (check, write or restart) never changes which revision is
\* current: only a request that got past the restart moves the flag.
FailureKeepsCurrent ==
    [][\A r \in DOMAIN revs \cap DOMAIN revs' :
          revs'[r].current # revs[r].current =>
              \E p \in Procs : /\ op[p].pc = "markApplied"
                               /\ op[p].target \in DOMAIN revs
                               /\ revs'[op[p].target].current]_vars

(***************************************************************************)
(* Liveness.                                                               *)
(***************************************************************************)
\* Every request returns, with a result or an error, also a refresh over
\* several servers and one whose server or revision is deleted meanwhile.
RequestsReturn == \A p \in Procs : op[p].pc # "idle" ~> op[p].pc = "idle"

(***************************************************************************)
(* Refinement: the workflow implements ConfigDeployment.                   *)
(***************************************************************************)
CurrentConfigs ==
    [s \in Servers |-> {revs[r].cfg : r \in {q \in RevisionsOf(s) : revs[q].current}}]

Deployment == INSTANCE ConfigDeployment WITH current <- CurrentConfigs

\* Whatever interleaves or fails, only published configurations reach a file,
\* services load only their file, and only installed content becomes current.
ImplementsDeployment == Deployment!Spec
=============================================================================
