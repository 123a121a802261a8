-------------------------------- MODULE Policies --------------------------------
(***************************************************************************)
(* Profiles and policies: the rows that inbounds, accesses and servers are *)
(* configured by, what the panel says of their use, and the documents and  *)
(* configurations made from them.                                          *)
(*                                                                         *)
(* A request is a sequence of statements, each committed by itself: a      *)
(* change is written, read back, and then marks the documents it believes  *)
(* concerned.                                                              *)
(* No request of this module drafts a configuration: Config(s) is what a   *)
(* draft of server s would contain now (ConfigRevisions has the drafts).   *)
(* The settings of a row are one value, written as a whole; the protocol   *)
(* of inbounds is left out, a client profile of another protocol having    *)
(* the effect of a disabled one.                                           *)
(***************************************************************************)
EXTENDS Naturals

CONSTANTS
    Servers, Inbounds, Users, Policies, \* ids of rows; a user has one access at most
    Kind,           \* the kind of each policy
    Home,           \* the server each policy belongs to: an update keeps it
    Tags,           \* names of outbounds
    Values,         \* the settings a row may have
    InitPolicies,   \* [Policies -> PolicyRow or None]: the policies at first
    InitInbounds,   \* [Inbounds -> InboundRow]
    InitAccess,     \* [Users -> AccessRow]
    Requests,       \* the requests an instance may issue
    Procs,          \* concurrent requests
    Faults,         \* the failures that may happen
    MaxRequests,    \* bound on the number of requests
    MaxFailures,    \* bound on the number of failures
    None            \* no id, no tag, no row, no document

\* The profiles an inbound refers to; a masquerade does not show in documents.
SettingKinds == {"tls", "reality", "transport", "multiplex", "masquerade"}
PolicyKinds  == SettingKinds \cup {"client", "log", "dns", "outbound", "rule"}

\* Outbounds that every configuration has.
BuiltIn == {"direct", "block"}

PolicyRow  == [enabled : BOOLEAN, tag : Tags \cup {None}, block : BOOLEAN, value : Values]
InboundRow == [server : Servers, enabled : BOOLEAN,
               log : Policies \cup {None}, refs : [SettingKinds -> Policies \cup {None}]]
AccessRow  == [inbound : Inbounds, client : Policies \cup {None}]
Document   == [inbound : Inbounds, client : Values \cup {None},
               settings : [SettingKinds \ {"masquerade"} -> Values \cup {None}]]

Request == [kind : {"upsert"}, id : Policies, row : PolicyRow]
      \cup [kind : {"delete", "remove"}, id : Policies]
      \cup [kind : {"inbound"}, id : Inbounds, row : InboundRow]
      \cup [kind : {"access"}, id : Users, client : Policies \cup {None}]
      \cup [kind : {"validate"}, id : Servers]
      \cup [kind : {"document"}, id : Users]

ASSUME PoliciesAssumption ==
    /\ Kind \in [Policies -> PolicyKinds] /\ Home \in [Policies -> Servers]
    /\ BuiltIn \cup {"dns-out"} \subseteq Tags
    /\ None \notin Tags \cup Policies /\ None \notin PolicyRow
    /\ InitPolicies \in [Policies -> PolicyRow \cup {None}]
    /\ \A x, y \in {id \in Policies : Kind[id] = "outbound" /\ InitPolicies[id] # None} :
          Home[x] = Home[y] /\ InitPolicies[x].tag = InitPolicies[y].tag => x = y
    /\ InitInbounds \in [Inbounds -> InboundRow] /\ InitAccess \in [Users -> AccessRow]
    /\ Requests \subseteq Request
    /\ Faults \subseteq {"db", "crash"} /\ MaxRequests \in Nat /\ MaxFailures \in Nat

VARIABLES
    policies,   \* the tables of profiles and policies, None for a row that is not there
    born, clock,\* created_at_ns of the rows, and the present; the first rows are as old
    inbounds,   \* core_inbounds and their settings
    access,     \* core_user_access
    fresh,      \* the documents of a user, None while its artifacts are marked dirty
    valid,      \* history: servers found valid, and nothing was written since
    unmarked,   \* history: users who lost a mark to a failure
    op,         \* op[p]: the request p and how far it has come
    begun, failures \* requests and failures so far

tables == <<policies, born, clock, inbounds, access>>
vars == <<tables, fresh, valid, unmarked, op, begun, failures>>

-----------------------------------------------------------------------------
(***************************************************************************)
(* What is made of the rows.                                               *)
(***************************************************************************)
Stored(id) == policies[id] # None

\* A reference is looked up in the table of its kind.
Found(kind, id) == id # None /\ Kind[id] = kind /\ Stored(id)
ValueOf(kind, id) ==
    IF Found(kind, id) /\ policies[id].enabled THEN policies[id].value ELSE None

OfServer(s, kind) == {id \in Policies : Found(kind, id) /\ Home[id] = s}
Enabled(s, kind) == {id \in OfServer(s, kind) : policies[id].enabled}

\* buildLogSection and buildDNSSection: the oldest enabled profile, if any.
Oldest(ids) == {id \in ids : \A x \in ids : born[id] <= born[x]}
FirstEnabled(s, kind) == {policies[id].value : id \in Oldest(Enabled(s, kind))}

\* resolveInboundProfiles: an absent or disabled profile leaves the inline settings.
Resolved(i) == [k \in SettingKinds |-> ValueOf(k, inbounds[i].refs[k])]

TagsOf(ids) == {policies[id].tag : id \in ids}
Outbounds(s) == TagsOf(Enabled(s, "outbound")) \cup BuiltIn
Rule(id) == [id |-> id, value |-> policies[id].value,
             outbound |-> IF policies[id].block THEN "block" ELSE policies[id].tag]
Rules(s) == {Rule(id) : id \in Enabled(s, "rule")}

Served(s) == {i \in Inbounds : /\ inbounds[i].server = s /\ inbounds[i].enabled
                               /\ \E u \in Users : access[u].inbound = i}

\* buildServerConfigJSON.
Config(s) ==
    [log |-> FirstEnabled(s, "log"), dns |-> FirstEnabled(s, "dns"),
     outbounds |-> {[tag |-> policies[id].tag, value |-> policies[id].value] :
                    id \in Enabled(s, "outbound")},
     rules |-> Rules(s),
     inbounds |-> {[id |-> i, settings |-> Resolved(i)] : i \in Served(s)}]

Dangling(s) == {r \in Rules(s) : r.outbound \notin Outbounds(s)}

\* buildUserURIsAndOutbounds: an access whose client profile is gone is left out.
DocumentOf(u) ==
    LET i == access[u].inbound
        c == access[u].client IN
    IF ~inbounds[i].enabled \/ (c # None /\ ~Found("client", c)) THEN {}
    ELSE {[inbound |-> i, client |-> ValueOf("client", c),
           settings |-> [k \in SettingKinds \ {"masquerade"} |-> Resolved(i)[k]]]}

\* Mutation of UsersOf: only the users whose inbound is on the server of the policy.
LocalUsersOf(id) ==
    {u \in Users :
        LET i == access[u].inbound IN
        /\ inbounds[i].server = Home[id]
        /\ CASE Kind[id] = "client" -> access[u].client = id
             [] Kind[id] = "log" -> inbounds[i].log = id
             [] Kind[id] \in SettingKinds -> inbounds[i].refs[Kind[id]] = id
             [] OTHER -> FALSE}
\* The users that the counters of GetPolicyUsage count.
UsersOf(id) ==
    {u \in Users :
        LET i == access[u].inbound IN
        CASE Kind[id] = "client" -> access[u].client = id
          [] Kind[id] = "log" -> inbounds[i].log = id
          [] Kind[id] \in SettingKinds -> inbounds[i].refs[Kind[id]] = id
          [] OTHER -> FALSE}

InboundsOf(id) ==
    CASE Kind[id] = "log" -> {i \in Inbounds : inbounds[i].log = id}
      [] Kind[id] \in SettingKinds -> {i \in Inbounds : inbounds[i].refs[Kind[id]] = id}
      [] OTHER -> {}

\* The rules of all servers that name the tag of an outbound.
RulesOf(id) ==
    IF Kind[id] = "outbound"
    THEN {x \in Policies : Found("rule", x) /\ policies[x].tag = policies[id].tag} ELSE {}

\* What GetPolicyUsage counts, and what it is told of an entity by some of the counts.
Counters == {"users", "access", "inbounds", "rules"}
Count(counter, id) ==
    CASE counter = "inbounds" -> InboundsOf(id)
      [] counter = "rules" -> RulesOf(id)
      [] OTHER -> UsersOf(id)
Unsafe(id, read) == \E counter \in read : Count(counter, id) # {}

\* GetPolicyUsage, when all its counts can be read.
UsageOf(id) ==
    [subscriptions |-> IF Kind[id] = "log" THEN {} ELSE UsersOf(id),
     runtime |-> \/ Kind[id] \in {"dns", "outbound", "rule"}
                 \/ Kind[id] # "client" /\ InboundsOf(id) # {},
     unsafe |-> Unsafe(id, Counters)]

-----------------------------------------------------------------------------
(***************************************************************************)
(* Requests.                                                               *)
(***************************************************************************)
NoRequest == [kind |-> "none"]
NoOp == [req |-> NoRequest, pc |-> "idle", result |-> "none", alone |-> TRUE,
         failed |-> FALSE, server |-> None, rules |-> {}, errors |-> FALSE]

Pcs == {"idle", "write", "back", "usage", "get", "delete", "mark", "inbounds", "rules",
        "outbounds", "document", "done"}

Op == [req : Requests \cup {NoRequest}, pc : Pcs,
       result : {"none", "ok", "error", "refused", "invalid"},
       alone : BOOLEAN,             \* history: no other request ran meanwhile
       failed : BOOLEAN,            \* history: a statement of it failed
       server : Servers \cup {None},  \* the server its inbound was read back with
       rules : SUBSET (Tags \cup {None}),   \* the outbounds that rules named when read
       errors : BOOLEAN]            \* what it has found so far

\* Mutation of TagTaken: the index is missing.
NeverTaken(id, row) == FALSE
\* UNIQUE(server_id, tag) of core_outbounds.
TagTaken(id, row) ==
    /\ Kind[id] = "outbound"
    /\ \E x \in OfServer(Home[id], "outbound") : x # id /\ policies[x].tag = row.tag

TypeOK ==
    /\ policies \in [Policies -> PolicyRow \cup {None}]
    /\ \A s \in Servers : \A x, y \in OfServer(s, "outbound") :
          policies[x].tag = policies[y].tag => x = y
    /\ born \in [Policies -> Nat] /\ clock \in Nat
    /\ inbounds \in [Inbounds -> InboundRow]
    /\ access \in [Users -> AccessRow]
    /\ fresh \in [Users -> (SUBSET Document) \cup {None}]
    /\ unmarked \subseteq Users /\ valid \subseteq Servers
    /\ op \in [Procs -> Op]
    /\ begun \in Nat /\ failures \in Nat

Init ==
    /\ policies = InitPolicies /\ born = [id \in Policies |-> 0] /\ clock = 1
    /\ inbounds = InitInbounds /\ access = InitAccess
    /\ fresh = [u \in Users |-> DocumentOf(u)]
    /\ valid = {} /\ unmarked = {}
    /\ op = [p \in Procs |-> NoOp]
    /\ begun = 0 /\ failures = 0

FirstPc == [upsert |-> "write", inbound |-> "write", access |-> "write",
            delete |-> "get", remove |-> "usage", validate |-> "inbounds",
            document |-> "document"]

Free(p) == op[p].pc \in {"idle", "done"}
At(p, pc) == op[p].pc = pc
Go(p, pc) == op' = [op EXCEPT ![p].pc = pc]

\* History: the answers of earlier requests are forgotten.
Answer(p, result) == op' = [op EXCEPT ![p].pc = "done", ![p].result = result]

Begin(p, r) ==
    /\ Free(p) /\ begun < MaxRequests
    /\ begun' = begun + 1
    /\ op' = [q \in Procs |->
                IF q = p THEN [NoOp EXCEPT !.req = r, !.pc = FirstPc[r.kind],
                                           !.alone = \A x \in Procs : Free(x)]
                ELSE IF Free(q) THEN NoOp ELSE [op[q] EXCEPT !.alone = FALSE]]
    /\ UNCHANGED <<tables, fresh, valid, unmarked, failures>>

\* Upsert of a profile or a policy: ON CONFLICT(id) DO UPDATE keeps created_at_ns.
UpsertPolicy(p) ==
    LET id == op[p].req.id
        row == op[p].req.row IN
    /\ At(p, "write") /\ op[p].req.kind = "upsert"
    /\ IF TagTaken(id, row)
       THEN Answer(p, "error") /\ UNCHANGED <<policies, born, clock, valid>>
       ELSE /\ policies' = [policies EXCEPT ![id] = row]
            /\ IF Stored(id) THEN UNCHANGED <<born, clock>>
               ELSE born' = [born EXCEPT ![id] = clock] /\ clock' = clock + 1
            /\ valid' = {} /\ Go(p, "back")
    /\ UNCHANGED <<inbounds, access, fresh, unmarked, begun, failures>>

\* UpsertInbound and UpsertUserAccess take any id of a profile; an inbound may move,
\* an access may not.
WriteInbound(p) ==
    /\ At(p, "write") /\ op[p].req.kind = "inbound"
    /\ inbounds' = [inbounds EXCEPT ![op[p].req.id] = op[p].req.row]
    /\ valid' = {} /\ Go(p, "back")
    /\ UNCHANGED <<policies, born, clock, access, fresh, unmarked, begun, failures>>

WriteAccess(p) ==
    /\ At(p, "write") /\ op[p].req.kind = "access"
    /\ access' = [access EXCEPT ![op[p].req.id].client = op[p].req.client]
    /\ valid' = {} /\ Go(p, "back")
    /\ UNCHANGED <<policies, born, clock, inbounds, fresh, unmarked, begun, failures>>

\* What was written is read again, for the server to mark: a policy deleted meanwhile is
\* an error, and an inbound may have been moved.
ReadBack(p) ==
    LET r == op[p].req IN
    /\ At(p, "back")
    /\ CASE r.kind = "inbound" ->
              op' = [op EXCEPT ![p].pc = "mark", ![p].server = inbounds[r.id].server]
         [] r.kind = "upsert" /\ ~Stored(r.id) -> Answer(p, "error")
         [] OTHER -> Go(p, "mark")
    /\ UNCHANGED <<tables, fresh, valid, unmarked, begun, failures>>

\* The panel asks for the usage and keeps the answer until the row is removed.
AskUsage(p) ==
    /\ At(p, "usage")
    /\ IF ~Stored(op[p].req.id) THEN Answer(p, "error")
       ELSE IF UsageOf(op[p].req.id).unsafe THEN Answer(p, "refused")
       ELSE Go(p, "get")
    /\ UNCHANGED <<tables, fresh, valid, unmarked, begun, failures>>

\* Delete reads the row for its server, then deletes it, without asking for the usage.
GetPolicy(p) ==
    /\ At(p, "get")
    /\ IF Stored(op[p].req.id) THEN Go(p, "delete") ELSE Answer(p, "error")
    /\ UNCHANGED <<tables, fresh, valid, unmarked, begun, failures>>

DeletePolicy(p) ==
    LET id == op[p].req.id IN
    /\ At(p, "delete")
    /\ IF ~Stored(id) THEN Answer(p, "error") /\ UNCHANGED <<policies, valid>>
       ELSE policies' = [policies EXCEPT ![id] = None] /\ valid' = {} /\ Go(p, "mark")
    /\ UNCHANGED <<born, clock, inbounds, access, fresh, unmarked, begun, failures>>

\* Mutation of UsersOn: the users of disabled inbounds are left out.
UsersServedOn(s) ==
    {u \in Users : LET i == access[u].inbound IN inbounds[i].server = s /\ inbounds[i].enabled}
\* MarkSubscriptionsArtifactsDirtyByServer.
UsersOn(s) == {u \in Users : inbounds[access[u].inbound].server = s}

\* The users whose documents a change marks.
Reached(o) ==
    LET req == o.req IN
    CASE req.kind = "access" -> {req.id}
      [] req.kind = "inbound" -> UsersOn(o.server)
      [] req.kind = "upsert" /\ Kind[req.id] = "client" -> UsersOf(req.id)
      [] OTHER -> UsersOn(Home[req.id])

\* History: the users whose documents a request has changed and is still to mark.  A
\* deletion of the row it has written marks them instead.
Pending(o) ==
    CASE o.pc = "mark" -> Reached(o)
      [] o.pc = "back" /\ o.req.kind = "access" -> {o.req.id}
      [] o.pc = "back" /\ o.req.kind = "inbound" ->
              {u \in Users : access[u].inbound = o.req.id}
      [] o.pc = "back" /\ o.req.kind = "upsert" /\ Stored(o.req.id) -> Reached(o)
      [] OTHER -> {}
Marking == UNION {Pending(op[p]) : p \in Procs}

Mark(p) ==
    /\ At(p, "mark")
    /\ fresh' = [u \in Users |-> IF u \in Reached(op[p]) THEN None ELSE fresh[u]]
    /\ Answer(p, "ok")
    /\ UNCHANGED <<tables, valid, unmarked, begun, failures>>

\* The documents of a user are rendered and no longer dirty.
RenderDocument(p) ==
    LET u == op[p].req.id IN
    /\ At(p, "document")
    /\ fresh' = [fresh EXCEPT ![u] = DocumentOf(u)]
    /\ unmarked' = unmarked \ {u}
    /\ Answer(p, "ok")
    /\ UNCHANGED <<tables, valid, begun, failures>>

-----------------------------------------------------------------------------
(***************************************************************************)
(* ValidateDomainModel: what it reads, in three statements.                *)
(***************************************************************************)
\* A reference that the validation looks up; those to TLS profiles it does not.
Missing(s) ==
    \E i \in Inbounds, k \in SettingKinds \ {"tls"} :
        /\ inbounds[i].server = s /\ inbounds[i].enabled
        /\ inbounds[i].refs[k] # None /\ ~Found(k, inbounds[i].refs[k])

ValidateInbounds(p) ==
    /\ At(p, "inbounds")
    /\ op' = [op EXCEPT ![p].errors = Missing(op[p].req.id), ![p].pc = "rules"]
    /\ UNCHANGED <<tables, fresh, valid, unmarked, begun, failures>>

ValidateRules(p) ==
    /\ At(p, "rules")
    /\ op' = [op EXCEPT ![p].rules = TagsOf(Enabled(op[p].req.id, "rule")),
                        ![p].pc = "outbounds"]
    /\ UNCHANGED <<tables, fresh, valid, unmarked, begun, failures>>

\* Mutation of Known: disabled outbounds count.
KnownWithDisabled(s) == TagsOf(OfServer(s, "outbound")) \cup BuiltIn \cup {"dns-out"}
Known(s) == Outbounds(s) \cup {"dns-out"}

\* History: valid holds for a validation during which no other request ran.
ValidateOutbounds(p) ==
    LET s == op[p].req.id
        ok == ~op[p].errors /\ op[p].rules \subseteq Known(s) IN
    /\ At(p, "outbounds")
    /\ Answer(p, IF ok THEN "ok" ELSE "invalid")
    /\ valid' = IF ok /\ op[p].alone /\ ~op[p].failed THEN valid \cup {s} ELSE valid
    /\ UNCHANGED <<tables, fresh, unmarked, begun, failures>>

-----------------------------------------------------------------------------
(***************************************************************************)
(* Failures.                                                               *)
(***************************************************************************)
\* A failing mark is dropped, a failing re-read of what was written is not.  A validation that cannot read the outbounds knows
\* the built-in ones; any other statement that fails it reports as an error found.
ResultOfFailure(o) ==
    CASE o.pc = "mark" -> "ok"
      [] o.pc = "outbounds" -> IF ~o.errors /\ o.rules \subseteq BuiltIn \cup {"dns-out"}
                               THEN "ok" ELSE "invalid"
      [] o.pc \in {"inbounds", "rules"} -> "invalid"
      [] OTHER -> "error"

StatementFails(p) ==
    /\ "db" \in Faults /\ failures < MaxFailures /\ ~Free(p)
    /\ failures' = failures + 1
    /\ op' = [op EXCEPT ![p].pc = "done", ![p].failed = TRUE,
                        ![p].result = ResultOfFailure(op[p])]
    /\ unmarked' = unmarked \cup Pending(op[p])
    /\ UNCHANGED <<tables, fresh, valid, begun>>

\* Some of the counts cannot be read, and count nothing; a request that was given up
\* fails them all.
CountFails(p) ==
    LET id == op[p].req.id IN
    /\ "db" \in Faults /\ failures < MaxFailures /\ At(p, "usage") /\ Stored(id)
    /\ failures' = failures + 1
    /\ \E read \in (SUBSET Counters) \ {Counters} :
          op' = [op EXCEPT ![p].failed = TRUE,
                           ![p].pc = IF Unsafe(id, read) THEN "done" ELSE "get",
                           ![p].result = IF Unsafe(id, read) THEN "refused" ELSE "none"]
    /\ UNCHANGED <<tables, fresh, valid, unmarked, begun>>

Crash ==
    /\ "crash" \in Faults /\ failures < MaxFailures
    /\ failures' = failures + 1
    /\ op' = [p \in Procs |-> NoOp]
    /\ unmarked' = unmarked \cup Marking
    /\ UNCHANGED <<tables, fresh, valid, begun>>

Step(p) ==
    \/ UpsertPolicy(p) \/ WriteInbound(p) \/ WriteAccess(p) \/ ReadBack(p)
    \/ AskUsage(p) \/ CountFails(p) \/ GetPolicy(p) \/ DeletePolicy(p) \/ Mark(p) \/ RenderDocument(p)
    \/ ValidateInbounds(p) \/ ValidateRules(p) \/ ValidateOutbounds(p)

Next ==
    \/ \E p \in Procs, r \in Requests : Begin(p, r)
    \/ \E p \in Procs : Step(p) \/ StatementFails(p)
    \/ Crash

Spec == Init /\ [][Next]_vars

-----------------------------------------------------------------------------
(***************************************************************************)
(* Properties.                                                             *)
(***************************************************************************)
\* The documents of u depend on policies of the server of its inbound only.
Local(u) ==
    LET i == access[u].inbound
        named == {inbounds[i].refs[k] : k \in SettingKinds} \cup {access[u].client} IN
    \A id \in named \ {None} : Home[id] = inbounds[i].server

\* Whatever requests change the policies, inbounds and accesses its documents are made
\* from, in any order, a user whose documents are out of date is marked dirty, is about
\* to be, or lost the mark to a failure.
\* (service_profiles.go: each write is followed by the mark of those it concerns.)
MarkedWhenChanged ==
    \A u \in Users \ (Marking \cup unmarked) :
        fresh[u] # None /\ Local(u) => fresh[u] = DocumentOf(u)

\* What GetPolicyUsage says before a delete is what the delete does: without a runtime
\* apply no configuration changes, the documents that change are those it counts, and a
\* policy that may be removed safely leaves neither a document nor a rule without it.
\* Log profiles are left out: their counter is of references that no renderer reads; so
\* is a request whose counts could not be read, which are 0 to it.
UsageShowsImpact ==
    [][\A p \in Procs : At(p, "delete") /\ policies' # policies /\ op'[p].pc = "mark" =>
         LET id == op[p].req.id
             usage == UsageOf(id) IN
         /\ ~usage.runtime /\ Kind[id] # "log" => \A s \in Servers : Config(s)' = Config(s)
         /\ {u \in Users : DocumentOf(u)' # DocumentOf(u)} \subseteq usage.subscriptions
         /\ op[p].req.kind = "remove" /\ op[p].alone /\ ~op[p].failed =>
               /\ \A u \in Users : DocumentOf(u)' = DocumentOf(u)
               /\ \A s \in Servers : Dangling(s)' \subseteq Dangling(s)]_vars

\* A server that was validated, with nothing written since, renders: every rule has its
\* outbound, but those to "dns-out", which only the validation knows, and every inbound
\* has the profiles it refers to, but TLS profiles, which are not looked up.
ValidModelRenders ==
    \A s \in valid :
        /\ \A r \in Dangling(s) : r.outbound = "dns-out"
        /\ \A i \in Served(s), k \in SettingKinds \ {"tls"} :
               inbounds[i].refs[k] # None => Found(k, inbounds[i].refs[k])
===============================================================================
