----------------------------- MODULE RuntimeUsage -----------------------------
(***************************************************************************)
(* The accounting of user traffic on one server.                           *)
(*                                                                         *)
(* sing-box counts the bytes of each user name of the configuration it has *)
(* loaded, from zero in each instance of the process.  A ticker of the     *)
(* panel asks for the counters, then asks systemd which instance runs, and *)
(* then, in one transaction, credits every user of the server with what    *)
(* the counter gained since the snapshot of the last poll.  Meanwhile      *)
(* operators create, rename and delete users and give and withdraw access, *)
(* and the service restarts, with the configuration it had or a newer one. *)
(*                                                                         *)
(* Upload and download are treated alike: one counter stands for both.     *)
(* The panel names an instance by its MainPID, which another instance may  *)
(* get again after a reboot; None is an instance it could not identify.    *)
(***************************************************************************)
EXTENDS Naturals, Sequences

CONSTANTS
    Users,        \* ids of core_users
    Names,        \* user names
    MaxCount,     \* bound on a counter of sing-box
    Pids,         \* process ids
    MaxStarts,    \* bound on the instances of the service
    Requests,     \* the kinds of request operators make
    Faults,       \* the kinds of failure the environment may inject
    None          \* no name, no user, no instance

ASSUME NamesAssumption ==
    None \notin Users \cup Names \cup Pids

ASSUME BoundsAssumption == MaxCount \in Nat /\ MaxStarts \in Nat

ASSUME EnvironmentAssumption ==
    /\ Requests \subseteq {"rename", "access", "delete"}
    /\ Faults \subseteq {"status", "db", "crash"}

VARIABLES
    name,       \* core_users: name[u], None while there is no user u
    access,     \* users with an access row of an inbound of the server
    used,       \* traffic_used_bytes
    snapshot,   \* core_runtime_usage_snapshots: user -> instance and bytes,
                \* of: history, the number of the instance that counted them
    serves,     \* whose credentials the running instance has under each name
    pids,       \* MainPID of each instance of the service, the last one runs
    counter,    \* the counters of the running instance, by name
    poll,       \* the poll under way
    actual,     \* history: bytes each user has transferred
    covered,    \* history: how much of the instance's count has been credited
    doubtful    \* history: users whose accounting lost its footing

host     == <<serves, pids, counter, actual>>
database == <<name, access, used, snapshot>>
vars == <<name, access, used, snapshot, serves, pids, counter, poll, actual,
          covered, doubtful>>

\* The number of the running instance, 0 before the first start.
Running == Len(pids)

Config == [Names -> Users \cup {None}]

Poll == [pc : {"idle", "instance", "sync"},
         stats : [Names -> Nat],        \* the counters answered, 0 where there is none
         instance : Pids \cup {None},    \* service_instance_id
         of : Nat,                      \* history: the instance that answered,
         serves : Config,               \* its configuration,
         base : [Users -> Nat]]         \* and what was covered of its count

NoPoll == [pc |-> "idle", stats |-> [n \in Names |-> 0], instance |-> None, of |-> 0,
           serves |-> [n \in Names |-> None], base |-> [u \in Users |-> 0]]

(***************************************************************************)
(* The type invariant.                                                     *)
(***************************************************************************)
TypeOK ==
    /\ name \in [Users -> Names \cup {None}]
    /\ access \subseteq Users
    /\ used \in [Users -> Nat]
    /\ DOMAIN snapshot \subseteq Users
    /\ snapshot \in [DOMAIN snapshot ->
          [instance : Pids \cup {None}, bytes : Nat, of : Nat]]
    /\ serves \in Config
    /\ pids \in Seq(Pids)
    /\ counter \in [Names -> Nat]
    /\ poll \in Poll
    /\ actual \in [Users -> Nat] /\ covered \in [Users -> Nat]
    /\ doubtful \subseteq Users

Init ==
    /\ name = [u \in Users |-> None]
    /\ access = {}
    /\ used = [u \in Users |-> 0]
    /\ snapshot = [u \in {} |-> None]
    /\ serves = [n \in Names |-> None]
    /\ pids = <<>>
    /\ counter = [n \in Names |-> 0]
    /\ poll = NoPoll
    /\ actual = [u \in Users |-> 0]
    /\ covered = [u \in Users |-> 0]
    /\ doubtful = {}

-----------------------------------------------------------------------------
(***************************************************************************)
(* The service.                                                            *)
(***************************************************************************)
Traffic(n) ==
    /\ serves[n] # None
    /\ counter[n] < MaxCount
    /\ counter' = [counter EXCEPT ![n] = @ + 1]
    /\ actual' = [actual EXCEPT ![serves[n]] = @ + 1]
    /\ UNCHANGED <<database, serves, pids, poll, covered, doubtful>>

\* buildServerConfigJSON lists the users of the server under their names.
Rendered(names, users) ==
    [n \in Names |-> IF \E u \in users : names[u] = n
                     THEN CHOOSE u \in users : names[u] = n ELSE None]

\* The service is started by systemd with the configuration it had, or by an
\* apply with the draft of the last change; counters start from zero.
Restart ==
    /\ Running < MaxStarts
    /\ \E p \in Pids : pids' = Append(pids, p)
    /\ counter' = [n \in Names |-> 0]
    /\ covered' = [u \in Users |-> 0]
    /\ serves' \in {serves, Rendered(name, access)}
    /\ UNCHANGED <<database, poll, actual, doubtful>>

-----------------------------------------------------------------------------
(***************************************************************************)
(* Operators.                                                              *)
(***************************************************************************)
Free == {n \in Names : \A u \in Users : name[u] # n}

\* ProvisionCoreUser gives access, CreateCoreUser does not.  The id of a deleted
\* user comes back when the request names it, or when UpdateCoreUser read the user
\* before it was deleted: the insert then brings an amount it had back.
CreateUser(u) ==
    /\ name[u] = None
    /\ \E n \in Free : name' = [name EXCEPT ![u] = n]
    /\ \E amount \in 0..used[u] : used' = [used EXCEPT ![u] = amount]
    /\ access' \in {access, access \cup {u}}
    /\ UNCHANGED <<snapshot, host, poll, covered, doubtful>>

\* UpsertUser keeps the traffic counters of a row that exists.
RenameUser(u) ==
    /\ "rename" \in Requests
    /\ name[u] # None
    /\ \E n \in Free : name' = [name EXCEPT ![u] = n]
    /\ UNCHANGED <<access, used, snapshot, host, poll, covered, doubtful>>

ChangeAccess(u) ==
    /\ "access" \in Requests
    /\ name[u] # None
    /\ access' \in {access \cup {u}, access \ {u}} \ {access}
    /\ UNCHANGED <<name, used, snapshot, host, poll, covered, doubtful>>

\* The access rows and snapshots of the user go with it; an id that comes back
\* starts from no snapshot within an instance that has counted it.
DeleteUser(u) ==
    /\ "delete" \in Requests
    /\ name[u] # None
    /\ name' = [name EXCEPT ![u] = None]
    /\ access' = access \ {u}
    /\ snapshot' = [v \in DOMAIN snapshot \ {u} |-> snapshot[v]]
    /\ doubtful' = doubtful \cup ({u} \cap DOMAIN snapshot)
    /\ UNCHANGED <<used, host, poll, covered>>

-----------------------------------------------------------------------------
(***************************************************************************)
(* SyncRuntimeUsage.                                                       *)
(***************************************************************************)
\* QuerySingBoxUserTraffic: sing-box has counters of the names it has seen.
Query ==
    /\ poll.pc = "idle" /\ Running # 0
    /\ poll' = [pc |-> "instance", stats |-> counter, instance |-> None,
                of |-> Running, serves |-> serves, base |-> covered]
    /\ UNCHANGED <<database, host, covered, doubtful>>

\* runtimeServiceInstanceID: the MainPID, nothing when systemctl fails.
ReadInstance ==
    /\ poll.pc = "instance"
    /\ \E i \in {pids[Running]} \cup IF "status" \in Faults THEN {None} ELSE {} :
          poll' = [poll EXCEPT !.pc = "sync", !.instance = i]
    /\ UNCHANGED <<database, host, covered, doubtful>>

Counted(u) == poll.stats[name[u]] > 0

SameInstance(u) == snapshot[u].instance = poll.instance

\* Mutation of Current: a name without a counter counts as zero.
CurrentOrZero(u) == IF Counted(u) THEN poll.stats[name[u]] ELSE 0
\* The count to credit the user up to; without a counter, what was credited.
Current(u) ==
    IF Counted(u) THEN poll.stats[name[u]]
    ELSE IF u \in DOMAIN snapshot /\ SameInstance(u) THEN snapshot[u].bytes
    ELSE 0

\* runtimeUsageCounterDelta: a counter that went back was reset.
CounterDelta(previous, current) ==
    IF current >= previous THEN current - previous ELSE current

\* Mutation of Delta: the instance is not looked at.
DeltaAnyInstance(u) ==
    IF u \notin DOMAIN snapshot THEN Current(u)
    ELSE CounterDelta(snapshot[u].bytes, Current(u))

\* runtimeUsageDelta.
Delta(u) ==
    IF \/ u \notin DOMAIN snapshot
       \/ poll.instance # None /\ snapshot[u].instance # None /\ ~SameInstance(u)
    THEN Current(u)
    ELSE CounterDelta(snapshot[u].bytes, Current(u))

\* History: the service restarted between the two questions of the poll; the
\* instance has the MainPID of the one the snapshot was taken of; it counted
\* another user under the name; an instance that could not be identified has no
\* counter for the name; the access was withdrawn.
LosesFooting(u) ==
    \/ u \in access /\ poll.instance \notin {None, pids[poll.of]}
    \/ /\ u \in access /\ u \in DOMAIN snapshot
       /\ poll.instance # None /\ SameInstance(u) /\ snapshot[u].of # poll.of
    \/ u \in access /\ Counted(u) /\ poll.serves[name[u]] # u
    \/ /\ u \in access /\ ~Counted(u) /\ u \in DOMAIN snapshot
       /\ poll.instance = None \/ snapshot[u].instance = None
    \/ u \in DOMAIN snapshot \ access

\* SyncServerRuntimeUsage, one transaction.
Sync ==
    /\ poll.pc = "sync"
    /\ used' = [u \in Users |-> IF u \in access THEN used[u] + Delta(u) ELSE used[u]]
    /\ snapshot' = [u \in access |->
                      [instance |-> poll.instance, bytes |-> Current(u), of |-> poll.of]]
    /\ covered' = [u \in Users |->
                     IF poll.of = Running /\ u \in access /\ Counted(u)
                     THEN poll.stats[name[u]] ELSE covered[u]]
    /\ doubtful' = doubtful \cup {u \in Users : LosesFooting(u)}
    /\ poll' = NoPoll
    /\ UNCHANGED <<name, access, host>>

\* The transaction is rolled back, or the process dies and its ticker restarts.
PollFails ==
    /\ \/ "db" \in Faults /\ poll.pc = "sync"
       \/ "crash" \in Faults /\ poll.pc # "idle"
    /\ poll' = NoPoll
    /\ UNCHANGED <<database, host, covered, doubtful>>

Operator == \E u \in Users : CreateUser(u) \/ RenameUser(u) \/ ChangeAccess(u) \/ DeleteUser(u)

Next ==
    \/ \E n \in Names : Traffic(n)
    \/ Restart \/ Operator
    \/ Query \/ ReadInstance \/ Sync \/ PollFails

Spec == Init /\ [][Next]_vars

-----------------------------------------------------------------------------
(***************************************************************************)
(* Safety.                                                                 *)
(***************************************************************************)
\* No user is credited with more than it has transferred, across restarts of
\* the service, renames, deletions, failed polls and failures to identify the
\* instance, as long as its accounting kept its footing.
NeverOvercharged == \A u \in Users \ doubtful : used[u] <= actual[u]

\* A poll whose instance is known credits a user with exactly what that instance
\* has counted for it since the last poll that covered it, also when the service
\* restarted meanwhile and when polls in between failed.
PollCreditsTheGain ==
    [][\A u \in access \ doubtful' :
          /\ Sync /\ Counted(u) /\ poll.instance # None
          /\ u \in DOMAIN snapshot => snapshot[u].instance # None
          => used'[u] = used[u] + (poll.stats[name[u]] - poll.base[u])]_vars
=============================================================================
