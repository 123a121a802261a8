# Verification of the h2v2 control plane

`h2v2` is a control panel for a sing-box server (VLESS and Hysteria2). One Go
process, `panel-api serve`, answers the HTTP API of the web panel and of
subscription clients, keeps its state in SQLite, renders sing-box
configurations, installs them on the host and restarts the services that read
them. The same binary has one-shot commands that work on the same database
while the server runs. This directory holds TLA+ models of that program, TLC
configurations that check them on small instances and TLAPS proofs.

## 1. Inventory

| Component | Source | State | Operations | What is hard |
|---|---|---|---|---|
| Configuration revisions | `core/service.go`, `core/store_entities.go`, `fsutil/atomic.go`, `services/systemd.go` | `core_config_revisions`, the config files, the systemd services | render, validate, apply, rollback, refresh-inbounds, drafts after changes | each request is many autocommitted statements, a check, a file write and a restart, with no lock; any of them fails or the process dies |
| Subscriptions | `core/service.go`, `service_artifacts.go`, `store_subscription_state.go` | `core_subscriptions`, `core_subscription_tokens`, the ETag held by clients | issue, rotate, revoke, view, refresh, fetch by token | a rotation is five statements; artifacts are marked dirty after the change and clean after a rendering that may have read older rows |
| Users, access, inbounds | `core/service.go`, `store_entities.go`, `service_bulk.go`, `handlers/core_v1.go` | `core_users`, `core_user_access`, `core_inbounds` | create, update, delete, grant, withdraw, bulk edits, provisioning with rollback | rows are read, changed and written back whole; bulk edits loop without a transaction; foreign keys are enforced on one pooled connection |
| Profiles and policies | `core/service_profiles.go`, `store_profiles.go`, `store_policy_usage.go`, `handlers/core_v1_profiles.go` | nine profile and policy tables | upsert, delete, usage counters, validation of the model | deletes of rows in use; a write and the mark of documents are two statements; no drafts |
| Runtime usage | `core/service_runtime_usage.go`, `store_runtime_usage.go` | `core_runtime_usage_snapshots`, user traffic counters | poll sing-box statistics, add deltas to users | counters restart from zero with the service; the instance is identified after the counters are read |
| Schema migrations | `core/store.go`, `repository/repository_sqlite.go` | `core_schema_migrations`, the schema | migrate at start, restore older version rows | statements and the version row are separate commits; two openers create tables; processes start at once |
| Administrators and sessions | `repository/repository_sqlite_admin.go`, `middleware/auth.go`, `csrf.go`, `handlers/auth.go` | `admins`, `sessions` | log in, authenticate, log out, bootstrap-admin | a restore replaces both tables between the lookup of a login and its session |
| Rate limiters | `middleware/*_rate_limit.go`, `core/store.go` | windows in memory and in `core_rate_limits` | allow, reset | the clock is read before the lock; window boundaries, restarts |
| Backup and restore | `repository/repository_sqlite_ops.go`, `handlers/sqlite_storage.go`, `cmd/panel-api` | the database file, its write-ahead log, `backups/` | download, restore online, back up and restore offline | several connections and files per operation; restore under running requests; kills between file steps |
| Scheduler, lifecycle, commands | `scheduler/`, `app/`, `cmd/panel-api` | tickers, the store | poll usage and services, start, stop, one-shot commands | commands run beside the server; shutdown closes the store |
| Metrics and service state | `services/`, `repository_sqlite_system.go` | samples | sample procfs, Clash API, systemctl | input and output only |
| Web panel, deployment | `web/`, `deploy/`, `scripts/` | none on the server | - | outside the running system |

**How they interact.** HTTP handlers call `core.Service`, which calls
`core.Store`; every store method is one statement or one transaction, and a
handler is a sequence of them under the request's context. Nothing serialises
handlers: a second request, a ticker of the scheduler or a command runs between
any two statements. Handlers that change users, access or inbounds mark the
subscriptions concerned dirty and render a draft revision of each server
concerned; handlers of profiles and policies only mark. Applying a revision
writes the server's config path and restarts its service, which resets the
counters the usage poller reads. Servers created without a path share the
default path and the default service. A restore replaces the managed tables
under whatever requests are running, and brings back older version rows that
the next start of the core store reads.

**What makes each part correct.** Revisions: one current revision per server;
numbers are unique; history is immutable; what is marked current has been on
disk; the latest revision covers the changes that handlers draft; failures leave
the current revision in force. Subscriptions: one primary token; a revoked token stays
revoked; a client told "not modified" holds the present content; a change marks
the artifacts; the token stays stable unless rotated. Users: a change answered
with success is drafted and marked; failed provisioning takes its user back; a
provisioned user is served. Policies: a change marks the documents made from the
row; the usage shown before a delete, where its counts can be read, is what the
delete does; a model that validates renders. Usage: no byte is
counted twice or lost across restarts. Migrations: what is recorded is applied,
an interrupted start can be resumed. Sessions: each belongs to an administrator
and stays until its logout. Limiters: no window exceeds its limit. Backups: a
copy is whole and the requester's own; a restore leaves the pool as it found it;
after an orderly stop an offline restore never loses both the old and the new
database.

## 2. Modules

| Module | Models | Uses |
|---|---|---|
| `ConfigRevisions` | requests on revisions, the config file and the service | implements `ConfigDeployment` |
| `ConfigDeployment` | the abstract promise: publish, install, make current | |
| `Subscriptions` | tokens, artifact versions, documents, client copies | |
| `RuntimeUsage` | polls, counters, snapshots, restarts | |
| `SchemaMigrations` | openers of the database, versions, crashes, restored rows | |
| `CoreSchema` | the migration table and the tables of the code | used by `MCSchemaMigrations` |
| `UserAccess` | every request that writes users, accesses and inbounds | stands on the draft of `ConfigRevisions`, the mark of `Subscriptions` |
| `Policies` | profiles, policies, usage counters, domain validation | the same |
| `Panel` | administrators, sessions, login limiter, backups and restores, lifecycle | its restore is `Restore` of `SchemaMigrations` |

`MC*` modules give the constants their values for TLC; `*Proofs` modules hold
the theorems, one per component and a second one for `UserAccess`
(`UserAccessOutcomeProofs`, what an answer says). The parts are composed by contract rather than by one product
state space, whose size would hide the interleavings each module is about:
`UserAccess` and `Policies` take a draft of a server and a rendering of a
user's documents as one step. Their properties are about what a request reads,
writes, drafts and marks; the races inside those two steps (a draft inserted
after a later change was read, a rendering that clears the mark of a change it
did not see) are the subject of `ConfigRevisions` and `Subscriptions`, and
`MarkedWhenChanged` says nothing about them. In the other direction,
`ChangeInbounds`, `SilentChange` and `ChangePolicy`, `Change` and
`UnmarkedChange` of those modules are all the things the requests of `UserAccess`
and `Policies` can do to them.

Runs use one to three processes, one or two servers or users and two to four
rows of what is created: the races of this code are between two requests, and
every property mentions at most two rows of one server.

## 3. ConfigRevisions

**State.** `srv` is which `core_servers` rows exist; `stored[s]` is the version
of what `buildServerConfigJSON` would read for `s` now, split into the part
handlers redraft after (`access`: inbounds, users, access) and the part they do
not (`policy`: profiles, outbounds, rules, DNS), because the code queries them
one after the other; `revs` are the rows of `core_config_revisions`; `file[u]`
and `running[u]` are a config path's content and what its service has loaded;
`op[p]` is the request `p`, with the local variables of the Go functions
(`payload`, `target`, `base`, the servers still due). `published`, `installed`
and the field `disturbed` are history variables, and so are two about drafts:
`overtaken`, the requests whose server changed after they had read its access
part, and `undrafted`, the servers with a change that no request was left to
draft, until a request that nothing overtook drafts them again.

**Actions.** One action per database statement, external check, file write or
systemctl call. `ChangeInbounds`, `MoveInbound`, `ChangePolicy`, `CreateServer`,
`DeleteServer` are the handlers' commits, `SilentChange` those that draft nothing
(bulk deletion and bulk switching of users, `core_v1.go:872-921`) and the clock
that passes a user's expiry; `BuildInbounds`, `BuildPolicies` and
`CreateRevision` are `RenderServerConfig`; `Fetch`, `CheckConfig`, `WriteFile`,
`RestartService`, `MarkApplied` are `ApplyServerConfig`, with their failures
`WriteFails`, `RestartFails`, `MarkFailed`, `QueryFails`; `Normalize` is the
loop of `RefreshInbounds`. A query that fails ends the request, which leaves the
drafts it owes (`GiveUp`, `Due`) to nobody, except the reads of the policy part:
their errors become defaults (`service.go:1862-2010`), so `BuildPolicies` then
renders any policy version. `Crash`, `UnitRestarts` and `InstallBinary` are the
host. The failures an instance injects are its constant `Faults`.

**Abstraction.** A configuration is two version numbers and `Valid` says which
ones sing-box accepts. `ValidateServerConfig` only reads, so it is no action.
A change of a server's config path (`UpdateCoreServer`) is left out: a path belongs to a
server row for good. The reload branch of `applyServiceAction` is dead, because
nothing declares a service reloadable.

**Runs** (module `MCConfigRevisions`)

| Run | Instance | Shows |
|---|---|---|
| `race` | two requests of every kind but moves, bulk and policy changes, one server, two revisions, one rejected version, crashes, failing statements, writes and restarts | one current revision, immutable history, the latest revision covers every change but those in `undrafted`, rejected content never reaches the path, what is current was installed, an undisturbed apply takes effect; refinement of `ConfigDeployment` |
| `serial` | one request at a time, no failure, three revisions, bulk and policy changes at any time, binary missing or not | the latest revision covers every change that is drafted, a silent one from the next draft on; the current one is on disk |
| `progress` | two requests, two servers on one path, deletions, moves and refreshes with ids for a refresh of both beside another request, fairness | every request returns |

`DraftCoversInbounds` says when a server is allowed a latest revision that lacks
a change of its inbounds or users, which is what `undrafted` collects: a draft
read before the change and inserted after it (two concurrent changes, since the
database is read before the check and the revision inserted after it), a request
that died or failed before its draft, a silent change, and a server that an
inbound left. Further behaviour the module has, which the instance of `serial`
excludes for `CurrentRevisionIsOnDisk`: after a failed restart the config path
keeps the file of the failed revision while the previous one stays current; an
apply by revision id accepts a revision of another server. Changes of profiles
and policies render no draft, and a rollback renders the present database under
the number of a new revision.

**Bounds.** `RevIds` bounds the rows ever created (`HasRoom` reserves one per
draft a request still owes, so a bound never strands a request), `MaxAccess`
and `MaxPolicy` the versions, `MaxRevNo` the numbers. Two revisions are enough
for "latest" and "current" to differ and for one to replace the other; three in
`serial` allow an apply of a revision that is neither, three in `progress` a
refresh of two servers while another request owes a draft. `MaxAccess` 2 in `race` gives
one version that changes, one it changes to and one that sing-box rejects. Symmetry is used for requests
and revision ids in the runs without liveness.

**Fairness.** `progress` assumes weak fairness of `Continue(p)`, the next step
of a request that has begun: goroutines are scheduled, the check has a timeout
(`singBoxCheckTimeout`), systemctl has one (`ServiceCommandTimeout`) and SQLite
a busy timeout. No fairness is assumed of new requests, crashes or the host.

## 4. Subscriptions

**State.** One user's subscription. `rows` are its `core_subscription_tokens`
(`is_primary`, revoked, whether the encrypted plaintext is kept, expiry);
`primaryId`, `version` and `needRefresh` are the columns of its
`core_subscriptions` row; `stored` is what its documents would be built from
now; `cache[c]` is a subscription client's copy with its ETag; `op[p]` is the
request `p` with the local variables of the Go functions. `rendered`, `shown`
and the fields `dead` and `since` of a request are history variables: the last
content marked rendered, the token operators were last shown, the tokens that
were unusable and the content seen since the request began.

**Actions.** One per database statement: `Revoke`, `Insert`, `StoreSecret`,
`SetPrimary` and `MarkDirty` make up a rotation (an issue is the middle two, a
revocation the first); `ReadUser`, `ReadSubscription`, `ListTokens`, `TryToken`,
`NoTokenLeft`, `Promote` are `BuildUserArtifacts` up to the token it shows
(`ensurePrimarySubscriptionToken`); `Resolve`, `Build` and `MarkRendered` are
`RenderSubscriptionContentByToken`, and the last two also end a look at the
links. `Change` is any handler that commits and then marks; `UnmarkedChange` is
one that does not (`BulkSetCoreUsersEnabled`; `DeleteInbound`, whose access rows
have cascaded away before the mark looks for them). `Expire` is the clock with
which every resolution and every search compares, `StatementFails` and `Crash` are the environment.

**Abstraction.** A document is the version of the user row, read first, and the
version of one later row, `None` when that row could not be read and its entry
was skipped: each row is read by one statement, so what holds of one holds of
each. The hash in the ETag is the document itself. Expiry during a search is
measured with the clock read when the search began (`past`). A subscription row
is created on first use with the values of `Init`, so it always exists here.

**Runs** (module `MCSubscriptions`, configurations `Subscriptions_*.cfg`)

| Run | Instance | Shows |
|---|---|---|
| `sub_tokens` | two operators, three tokens, expiry, crashes, failing statements | the flags and `primary_token_id` agree; the primary can be shown; no request settles on a token that was dead when it began |
| `sub_serial` | one request at a time of every kind, no failure | clean artifacts are current; the shown token stays; a rotation leaves one working token |
| `sub_caches` | two requests, a client, marked and unmarked changes, failing statements | no answer leaves a copy with an entry older than the request |

**Bounds.** Three tokens let a rotation replace one while a view issues another;
two requests give every race of two handlers, and each property speaks of one
request and what may run beside it. Two versions of a part are enough for a copy
to be stale. `HasRoom` reserves the ids and versions a request may need.
`sub_tokens` leaves refreshes out: they take the same steps as a look at the
links. `CleanMeansRendered`, `ShownTokenIsStable` and `RotationLeavesOne` hold of
sequential instances without failures only: two first looks at once each issue a
token, and the rendering of a fetch clears the mark of a change it did not see.
Further behaviour the module has that breaks the first two: `UnmarkedChange`; an entry
skipped for a failed read, after which the artifacts are marked clean all the
same; a failed read of the primary token's row, after which a look at the links
issues a new primary. No liveness is claimed here: a request is a finite
sequence of statements.

## 5. RuntimeUsage

**State.** One server. `name` (`None` while there is no such user) and `used` are
`core_users`, `access` the users with an access row on the server, `snapshot` the
rows of `core_runtime_usage_snapshots`; `pids` are the MainPIDs of the instances
of sing-box so far, the last of which runs, `serves` and `counter` whose
credentials that one accepts under which name, and its counters; `poll` is the
poll under way with its local variables. `actual`, `covered`, `doubtful`, the
field `of` of a snapshot and of a poll and two more of a poll are history
variables: what each user has transferred, how much of what the running instance
counted has been credited, whose accounting lost its footing, and which instance
really was asked.

**Actions.** `Query`, `ReadInstance` and `Sync` are the three steps of
`SyncRuntimeUsage` for a server: the gRPC query, the question to systemd, the
transaction of `SyncServerRuntimeUsage`; `Delta`, `Current` and `CounterDelta`
are its arithmetic. `PollFails` ends a poll whose transaction fails or whose
process dies. `Traffic` and `Restart` are the service, whose next instance may get
a MainPID again (after a reboot; the code names an instance by it,
`service_runtime_usage.go:130`); `CreateUser`, `RenameUser`, `ChangeAccess`,
`DeleteUser` the operators. The id of a deleted user comes back when a request
names it, or when `UpdateCoreUser` had read the user before the deletion
(`core_v1.go:784`) and inserts it again with an amount it had.

**Abstraction.** One counter stands for upload and download, which the code
treats alike. A restart loads the configuration the service had or the one the
database renders now; an older draft is the same for the accounting as a fresh
one followed by the changes. A counter of zero stands for no counter. The panel
is a single process, so polls do not overlap.

**When accounting loses its footing.** `LosesFooting` names five situations in
which the code credits traffic wrongly and `DeleteUser` a sixth; the properties
speak of users none of them has happened to. The service restarts between the query and the question
for its instance; the instance has the MainPID of the one the snapshot was taken
of; the instance counts another user under the name (a renamed or
deleted user's name is taken over before the configuration is reloaded); an
instance that cannot be identified has no counter for the user; access is
withdrawn, which drops the snapshot, and may be given back within the same
instance; a user with a snapshot is deleted, and its id may come back within the
same instance.

**Run** (module `MCRuntimeUsage`)

| Run | Instance | Shows |
|---|---|---|
| `usage` | two users, two names, two instances of the service with two MainPIDs or one, every request and failure | no user is credited with more than it transferred; a poll credits exactly the gain |

**Bounds.** `MaxCount` bounds a counter, `MaxStarts` the instances: two instances
and counters up to two let a counter restart below, at and above its old value.
Two users and names give renames, reuse of a name and a bystander. `View`
forgets the amounts of users whose accounting lost its footing, which no guard
and no property looks at. No fairness is assumed.

## 6. SchemaMigrations

**State.** `tables` are the tables the two openers create, `objects` the tables
and columns that migrations add (a pair of version and statement), `rows` is
`core_schema_migrations`, `op[p]` where the start of process `p` is. `imported`,
`broken` and `disrupted` are history variables: the versions that a restored file
recorded and this database had not applied; why a column may exist without its row (`half`: a process died
between an `ALTER` and the row; `shape`: the core store created the table with
the column; `rollback`: a restore withdrew the row); and whether a process died
or rows were restored.

**Actions.** `Begin` is one of the three ways to open the database: `serve` opens
the repository and then the core store, `bootstrap-admin`, `sqlite-backup` and
`export` only the repository, `bootstrap-inbounds` and `refresh-inbounds` only
the core store. `RepoCreates` and `RecordBaseline` are the repository's schema,
`StoreCreates` the core store's `CREATE TABLE`s, `CheckVersion`, `Statement` and
`RecordVersion` the loop of `runMigrations`. `Close` and `Crash` end a process;
`Restore` is that of a running server, which takes the rows of any file of the
constant `Files`: the code accepts whatever has an administrator
(`repository_sqlite_ops.go:215-336`), a file of another installation and of
another version included. A backup changes nothing here. `CoreSchema` is the code's
table of 14 versions; what a `CREATE TABLE IF NOT EXISTS` gives a table that
later versions also extend is `Born`.

**Abstraction.** A statement commits by itself, as in the code. An `ALTER` fails
when its column exists, an `INSERT` of a version when its row does, a `CREATE IF
NOT EXISTS` never. Pragmas and tables no migration touches are left out.

| Run | Instance | Shows |
|---|---|---|
| `schema` | two processes, one version of each kind out of the code's table (the baseline, a column, a table with a column, columns of a `CREATE`), restores of an older file and of a complete one | recorded versions are applied and an open store is complete, up to what a restored file claimed, overlapping starts alone never leave a column without an owner, a start on its own succeeds on an undamaged database, the migration is completed |

Versions of one kind go through the same steps, and two processes give every
race on one version. **Fairness**: weak fairness of `Continue(p)`, the next
statement of a process that is opening the database; none of new starts,
crashes or restores. `MigrationCompletes` therefore is about starts under way:
whichever overtakes the other, one gets to the end.

A fresh store has the `shape` damage from its first start: the core store's
`CREATE TABLE core_subscriptions` has the columns version 13 adds. Only because
the repository has created the table without them before does `serve` work; a
store opened without a repository fails at version 13. The properties except
`RecordedIsApplied` and `OpenStoreIsComplete` exclude it with `broken`. A first
start of a core store alone also fails when a repository inserts the baseline
row meanwhile.

## 7. UserAccess

**State.** `users`, `inbounds`, `access` are the three tables (a user is active
or not, an access has a credential per protocol, 0 when empty); `drafted[s]` are
the entries of the latest revision of server `s`, `fresh[u]` the documents of
user `u` while they are not marked dirty; `op[p]` is request `p` with the local
variables of its Go functions (`default` inbounds, `pending` writes, the
`servers` still to draft). `alone` and `failed` of a request are history.

**Actions.** One per statement. `LoadUser`, `LoadAccess`, `LoadInbound`,
`ReadBulk`, `Collect`, `ReadRows`, `ListAccesses` read; `WriteUser`,
`PrepareAccess`, `StoreAccess`, `WithdrawAccess`, `WriteInbound`, `DropInbound`,
`RemoveUser`, `Batch` write; `ReadUserBack`, `ReadAccessBack`, `ReadInboundBack`
are the reads with which the store's upserts answer, whose failure is an error
with the row written; `MarkUser`, `MarkServer` mark; `EnsureInbounds` and
`ProvideInbound` find or create the default inbounds; `RollBack` takes a
provisioned user back; `DraftServer` drafts, `RenderDocument` renders. Requests
are `ProvisionUser`, the single and the bulk writes of users and accesses, the
writes of inbounds, bulk deletion and bulk switching. A row is read, changed in
Go and written back whole, so two requests overwrite each other's columns in the
model as in the code.

**Inputs.** `WellFormed` says which requests exist: only bulk patches delete, move
accesses or set their client profile, and none renames a user. An id that was ever
given to a row, also to one that is gone, is not given again (`usedIds`).

**Abstraction.** `foreign_keys` is a pragma of one connection of the pool, and
which connection a statement gets is not determined: each deletion finds it on
or off. A draft is one step, a rendering is one step (Section 2). The settings
inside an inbound, servers, token rotation inside a bulk patch (a rotation of
`Subscriptions`) and moving an inbound (`ConfigRevisions`) are left out.

| Run | Instance | Shows |
|---|---|---|
| `users` | two requests of every kind at a time, two users and servers, one failed statement or crash, foreign keys on and off | a failed provisioning leaves no user (but one whose row could not be read back), a request that nothing disturbed leaves drafts and marks its change needs, a provisioned user is served, provisioning is refused only for cause |

`SuccessIsDrafted`, `SuccessIsMarked`, `ProvisionedUserIsServed` and
`ProvisionRefusedForCause` speak of requests nothing disturbed; two concurrent
ones can lose an update. `SuccessIsDrafted` excepts the patches for which the code asks for no draft
(`RequiresRuntimeApply`: of client profiles only, or empty), although the patch of an
access whose inbound changed protocol gives it the credential it lacks. They are about a
request that meets whatever the other one left: the second request of an instance starts from every state the first can
leave, a failed or half-done first included. Deadlock is not checked: requests run
out.

## 8. Policies

**State.** `policies` is a row or `None` for each profile, outbound, rule, DNS
and log policy, `born` the order of creation the code falls back to
(`created_at_ns`); `inbounds` and `access` refer to them; `fresh[u]` are a
user's documents while not marked. `valid` are the servers validated with
nothing written since; `unmarked` whose mark was lost to a failure, that of the
re-read included (history).

**Actions.** `UpsertPolicy`, `WriteInbound`, `WriteAccess`, `ReadBack` and `Mark`
are the handlers that write, read the row back and mark, in three statements; a
row that cannot be read back, or that was deleted meanwhile, ends the request with
an error and without the mark. `GetPolicy` and `DeletePolicy` are a delete,
`AskUsage` before it the panel's guarded one; `CountFails` is the same with counts
that cannot be read and are 0 then (`store_policy_usage.go:112-118`);
`ValidateInbounds`, `ValidateRules` and `ValidateOutbounds` are the reads of the
domain validation; `RenderDocument` a rendering. Pure operators say what the
renderers read: `Config(s)` the configuration of a server, `DocumentOf(u)` a
user's documents, `UsageOf(id)` the counters of `GetPolicyUsage`.

**Abstraction.** The settings of a row are one value. Protocols are left out: a
client profile of another protocol acts like a disabled one. Priorities of rules
and outbounds are left out, the configuration has sets of them. No request here
drafts a configuration, as in the code. A request on an access names its user and
its inbound and keeps the pair of a row that exists, as the upsert does.

| Run | Instance | Shows |
|---|---|---|
| `policies` | three requests, two at a time, one policy of each kind and a second outbound of the same tag and log profile, two servers, one failure | a user whose documents are out of date is marked, about to be, or lost the mark to a failure; the usage shown before a delete is what the delete does, if its counts could be read; a validated server renders; tags of outbounds are unique |

Three requests are a change of each of two actors and one that sees both. The
second outbound gives the conflict of tags, the second log profile the choice of
the oldest. `MarkedWhenChanged` is restricted to users whose inbounds and
accesses refer to policies of their own server (`Local`), `UsageShowsImpact`
leaves log profiles out: see Section 10.

## 9. Panel

**State.** `main` and `wal` are the database file and the write-ahead log; `idle`
the idle connections of the pool, the last of which is taken first, `attached`
those on which a backup is attached as `src`, `writer` the one that a statement of
the background has (the collector every 3 seconds, `system.go:515-547`, and the
service states, `scheduler.go:80,94`); `admitted` the stamps of
the attempts let through since the last reset and `attempt` the numbers of those
whose stamp `LoginRateLimiter` keeps; `files` the copies in `backups/` by the second they are
named after, `backup` the one the operator keeps; `op[p]` a request, `cmd` an
offline restore; `up` whether the service runs. `held`, `lost`, `overtaken`,
`orderly`, `released`, `stray` and the field `used` are history variables, and so
are the stamps of `admitted` that are no longer kept.

**Actions.** `Arrive`, `Allow`, `LookUp`, `Reset`, `CreateSession` are a login
(the clock is read in `Arrive`, before the limiter's lock); `Authenticate` and
`DeleteSession` a call and a logout; `RemoveFile`, `StartCopy`, `FinishCopy`,
`SendFile` a download; `Attach`, `Copy`, `Release`, `Detach` an online restore,
whose deferred `DETACH` takes any connection and runs with the request's context
(`repository_sqlite_ops.go:245`), so that it does nothing once the client has
left. `WriterTakes` and `WriterReturns` are a statement of the background. `Start`, `Stop` and `Kill` are the
service, `BootstrapAdmin`, `BackupCommand` and `BeginOffline`, `SaveOld`,
`DropLog`, `Replace`, `OfflineFails` the commands. `WritePolicies`, `Checkpoint`
and `Tick` are what else moves the database and the clock.

**Abstraction.** A content of the database is its administrators, its sessions,
whether the panel's tables are there and whether policies of servers are;
administrators and sessions stand for the tables a restore replaces, policies
for those it does not. A password is right or wrong. A transaction is one step,
and so is the copy of a finished file; a copy in progress is a file without
content. The unused `TouchSession`, the CSRF cookie and the JSON export are left
out; `APIRateLimiter` is the same filter as the login limiter without a reset.

| Run | Instance | Shows |
|---|---|---|
| `panel` | two requests at a time beside one command or one write of the background, with failed statements, cancelled requests, kills and a full disk | every session has its administrator, a window has at most `Burst` attempts, an answered login stays (but those that were only in the log of a killed service, when an offline restore drops it), a download answers its own copy, `src` stays attached only while a restore runs, unless its `DETACH` was cancelled or other statements came between, and after an orderly stop an offline restore leaves the old or the new database and a copy of the old |
| `lost_admins` | two restores, of backups and of other files | *violated*: a restore of a file without administrators succeeds and leaves none |

**Bounds.** Two requests (`MaxRequests`) give each race of two handlers,
`MaxCommands` a change of the database under both or a statement of the background
beside them. `Burst`, `Window` and `TTL` are 1
and the clock goes from 0 to 1: an attempt at the edge of the window is one tick
after the one it must not count. The same instance with a window and a clock of
two shows the same. Three connections are one for each request and one for the
background; all but the first, which alone enforces foreign keys, are symmetric.

## 10. Where code and documents disagree

The run `lost_admins` shows one disagreement: `RestoreFromBackup` says
"admins must be greater than zero" (`repository_sqlite_ops.go:262`), but skips
the check when the file has no table `admins` (`:255`) and empties the managed
tables all the same.

The others were met while modelling. They are described here instead of being
counterexample runs; the properties exclude them, by the conditions named.

- `docs/control-plane-workflows.md:20`, runtime-affecting changes move to a draft
  revision. A moved inbound redrafts only the server it moved to
  (`core_v1.go:579`; `serial` has no moves); handlers of profiles and policies
  draft nothing (`serial` speaks of inbounds and access); bulk switching of users
  drafts and marks nothing (`SuccessIsDrafted`, `SuccessIsMarked` leave it out).
- `:27`, the token stays stable unless rotated. Two first looks at once each
  issue a primary token (`service_artifacts.go:142`; `sub_serial` has one
  request at a time).
- `:28`, artifacts are marked when related state changes. The mark is cleared by
  a rendering that read older rows (`service.go:935`; `sub_serial`). A profile
  marks the users of its own server only, although inbounds of others may refer
  to it (`service_profiles.go:173`; `Local` in `MarkedWhenChanged`). Deleting an
  inbound marks after the cascade took the accesses (`service.go:480`).
- `:14`, usage counters. Those of a log profile count references from inbounds
  that no renderer reads (`UsageShowsImpact` leaves log profiles out).
- `:15`, unsafe delete is blocked. Only the panel blocks it; the handler deletes
  (request `remove` against `delete` of `Policies`).
- `ApplyServerConfig` says failures are recorded (`service.go:1480`), but a
  cancelled request records its failure under the cancelled context, and drops
  the error (`:1508`).
- `PreviewServerConfig` says its first error is a hard failure such as a failed
  read (`service.go:1653`); the reads of rules, outbounds, DNS and log profiles
  turn an error into the defaults (`:1921` and below).
- `ValidateDomainModel` accepts a rule to `dns-out`, an outbound no configuration
  renders (`ValidModelRenders` excludes it).
- The page says "Rotate credentials" (`users-page.tsx:568`); for a Hysteria2
  access an empty password means the stored one (`service.go:535`), so the
  rotation keeps it and is counted (`service_bulk.go:246`).
- `newTestStore` opens a store without a repository (`service_test.go:13`), which
  fails at version 13 (`store.go:512`, Section 6).

Other behaviour a reader should know of: `UpdateCoreUser` writes the whole row it
read, so one of two updates is lost and an update of a deleted user inserts it
again; a bulk patch that fails half way keeps the changes of the items before,
undrafted; an edit of a Reality profile that sends no private key draws a new
pair, because the API never returns the old one; an online restore brings back
sessions that logged out since, and on the connection that enforces foreign keys
deletes every policy with its server.

## 11. Proofs

Eight modules prove 45 theorems (listed in `PROJECT.json`), each for every value
of the constants that the named `ASSUME`s of its component's module allow, except
the five of sequential requests, whose further hypotheses stand in the theorem. They
state every safety property and every action property that a passing run checks, and
the refinement of `ConfigDeployment`. Type correctness is proved of every module; the
runs still check it of `Panel` and of `Policies`, where it also says which stamps
are kept and that tags are unique.

`ConfigRevisionsProofs` proves for every set of servers, units, requests and
revision ids, every bound, every set of accepted configurations and every set
of failures that the specification implies type correctness, each property of
the run `race`, that numbers are unique (`RevisionNumbersUnique`), that only a
request past the restart moves the current flag (`FailureKeepsCurrent`), and
that it implements `ConfigDeployment`. The assumptions are the named `ASSUME`s of `ConfigRevisions`: servers have a unit,
bounds are naturals, `None` is none of the values it stands apart from.

The properties are not inductive alone. `TypeInv` adds to `TypeOK` that a
request past its first query has picked a server (`PickedServer`). `HostInv`
adds what a request carries from step to step: its target is an id that was
given out and, while it exists, holds the payload (`TargetKnown`,
`PayloadPublished`), the payload passed the check before it is written
(`PayloadAccepted`), has been written before the restart (`PayloadInstalled`)
and is still in the file unless the request was disturbed (`FileUndisturbed`).
`RevsChange` classifies every step by what it does to the rows (deletes,
creates, fails, applies) and `HostChange` by what it does to the host, so each
invariant is proved per class instead of per action. `StepRefines` maps every
step to a step or a stutter of `ConfigDeployment`.

The two properties of the run `serial` are proved of any instance where requests
run one after the other (Section 3 says what breaks them elsewhere).
`DraftCoversInboundsSerially` needs that no request is cut off by a crash or a
failing statement and that no inbound moves (`OneByOne`); checks, writes and
restarts may fail. Its invariant is `DraftInv`: every live server is `Covered` by
its latest revision, or is one whose draft the request still owes (`Due`), and what
the request has read of the access part is what is stored (`Rendering`).
`CurrentRevisionOnDiskSerially` needs one server, because servers may share a path
and an apply accepts a revision of another server, and no failure but that of the
check (`SingleServer`), because a failed restart leaves the file of the failed
revision. Its invariant is `DiskInv`: outside the two steps after its write, the
current revision is in the file (`Shown`); while nothing is current a failed
restart does no harm, and once something is, the binary is there, what is written was
accepted by the check and the restart cannot fail (`Taking`); revisions belong to servers that were created (`Hosted`).

`SubscriptionsProofs` proves for every set of tokens, requests and clients,
every bound and every set of failures that the specification implies `TypeOK`,
`OnePrimary`, `PrimaryIsRecoverable`, `DeadTokensServeNothing` and the action
property `AnswersAreCurrent`. `TypeInv` adds to `TypeOK` where a request's token
and candidates may point (`Shape`). `TokenInv` adds what a request knows of the
token it works with (`TokenKnown`): a token about to become primary has its
plaintext kept, a token settled on was not dead when the request began, and
every token that was dead is either marked revoked or in `past` while the search
runs. It is preserved because rows only grow (`RowsGrow`: no step clears a
revocation, an expiry or a secret) and because each step of a request is one of
a few moves (`TokenMoves`). `CopyInv` adds what a fetch knows (`CopyKnown`): the
present content is in `since`, what has been read was in `since`, and the
client's copy is the one its `If-None-Match` names, because a client has one
request at a time.

The properties of `sub_serial` are proved of requests that run one after the other
(`Alone`), each with no more than it needs. `RotationLeavesOneSerially` needs nothing
else: a rotation that has revoked every row inserts one (`Sole`), whatever fails or
dies before. `ShownTokenStableSerially` needs that no statement fails, because a
failed read of the primary token's row passes it over; requests may die. `Showing`
says that a token shown is the primary one and works, so the search of a look at the
links starts with it and settles on it. `CleanMeansRenderedSerially` needs that
nothing fails or dies and that every change marks, because the mark is a statement of
its own after the change. `Rendering` says that only a change on its way to its mark
may leave clean artifacts behind, and what a rendering has read is what is stored.
`Course` says at which points a request of each kind can be, and `Proceeds` where a
step leads it.

`RuntimeUsageProofs` proves for every set of users and names and every bound type
correctness and the two properties of the run `usage`. `TypeInv` adds to `TypeOK` that users with
access have a name, that instances are ones that ran and that a configuration
has a user under one name. `IInv` says for each user that kept its footing: what
is credited plus what the running instance counted and nobody credited does not
exceed what was transferred (`Credited`); the same of an answer under way,
whether the instance that gave it still runs or not (`Answered`); and the
snapshot knows what is credited of the count of an instance (`Footing`), for the
running one and for the one of the answer (`Founded`). `SyncGain` is the heart:
from `Footing`, `Delta` is at most the counter less what was covered of it.

`SchemaMigrationsProofs` proves for every migration table, any tables of the
two openers and any number of processes type correctness and the four safety
properties of `schema`.
None is inductive: that a recorded version is applied needs what each start has
behind it. `SInv` says that a start has everything of the versions below its own
and of its own version below the statement that is due (`Passed`), and where its
counters are (`Counters`); objects are never taken away, so `Passed` survives the
steps of others and a restore. `OInv` adds that an added column without a row
belongs to a start about to record it (`Owned`), and what a start that runs alone
may count on (`Solo`); both only while the database is not `broken`.

`UserAccessProofs` proves `TypeOK`, `FailedProvisionLeavesNoUser` and
`AccessKeepsItsPair`. The second needs to know how far a request that ran alone
has come (`Provisionings`): the default inbounds it found and the user it wrote
are still there, and each access still to be written refers to them, so only a
failed statement can refuse one. `Alone` says that beside such a request the
others are between requests.

`UserAccessOutcomeProofs` proves the four properties of what an answer says:
`SuccessIsDrafted`, `SuccessIsMarked`, `ProvisionedUserIsServed` and
`ProvisionRefusedForCause`. None is inductive: the answer is good because of what
every earlier step left. `HInv` adds to the invariant of `UserAccessProofs` that
every id in a row is used (`IdsUsed`) and that each request that ran alone and met no
failure (`Calm`) is `Healthy`: it is at a step of its kind with what that step works
on (`Shape`, `AtHand`); the accesses it has yet to write are on servers it is going
to draft (`Planned`); a server whose draft went out of date since it began is one it
still owes a draft (`Drafts`); a document that went out of date is marked or one it
still owes a mark (`Marks`); and the accesses written so far have the inbounds and
credentials the answer promises (`Serves`). Each part is an operator over a record of
the rows (`Now`), so that the proof of a step states it of the rows the step leaves
and the parts a step does not touch follow from the record being the same.

`PanelProofs` proves the seven properties of `panel`. For `SessionsHaveAdmin`,
`HeldSessionsStay` and `OfflineRestoreKeeps` the database alone is not enough: the main file under the
log, the backups, the files of downloads and the source of a restore all become
the database some day, so `Copies` says of each that its sessions have their
administrators. `Restoring` says what the offline restore has in each of its
steps while the stop was orderly, in particular that no log is left then. These are
`PInv`; `TInv` adds what the rest needs. `RInv` says what a request is and holds at
each step (`Phases`) and that a request said to run alone does (`Turns`); `Pool` that
a connection is idle or held by one request; `OwnFiles` which file a download no other
one of its second met has to itself, from which `DownloadIsOwnCopy` follows.
`Limiter` says that the limiter keeps exactly the admitted attempts after some cut,
which lies at or before the stamp of one of them or leaves it with `Burst` of them
(`KeptSince`), so that no window has more (`AttemptsBounded`). `RefusedRestoreCleansUp` is inductive with `Pool` and `RInv`: the
deferred `DETACH` gives back last the connection it took, and beside a restore that
runs alone nobody takes or attaches another.

`PoliciesProofs` proves the four properties of `policies`. `MarkedWhenChanged` is
inductive once the types of requests are known (`Typed`); the hard case is a mark
that another request's write has made smaller, which that request's own mark
covers. `ValidModelRenders` and `UsageShowsImpact` need that what a request that
runs alone has read is still so when it uses it (`Alone`, `AsRead`), and that a
server found valid keeps its references until something is written
(`StillValid`).

TLC checked each of these invariants on the instance of its run too.

**Only model-checked.** Liveness, `RequestsReturn` and `MigrationCompletes`, which
needs fairness and `ENABLED`. `RestoreLeavesAdmin` is violated (Section 10). What is
proved of sequential requests only, `DraftCoversInbounds`, `CurrentRevisionIsOnDisk`,
`CleanMeansRendered`, `ShownTokenIsStable` and `RotationLeavesOne`, is false of
concurrent ones, in the model as in the code (Sections 3 and 4).

## 12. Not modelled

- **Content of documents** (sing-box, Clash and URI generation): formatting. Which
  rows a document is built from is kept (`Served`, `Config`, `DocumentOf`).
- **System metrics and service state**: samples of procfs, the Clash API and
  systemctl stored as they are read, without a protocol.
- **HTTP routing and configuration loading**: static wiring without state.
- **Web panel**: a client of the API; the server relies on none of its state.
- **Installation and deployment scripts**: run once by an operator, outside the
  running system.

Within the modelled components: a change of a server's config path; the
deletion of a user under a running rotation; `last_used_at` of tokens; the
database-backed limiter of fetches, a single transaction over one window; the
probe of the statistics API's support; expiry of users by traffic used; the
settings inside inbounds and profiles; the JSON export.
