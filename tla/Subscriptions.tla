---------------------------- MODULE Subscriptions ----------------------------
(***************************************************************************)
(* The subscription of one user: its tokens, the version of its artifacts  *)
(* and the copies that subscription clients keep.                          *)
(*                                                                         *)
(* Operators issue, rotate, revoke and look at tokens; clients fetch the   *)
(* documents with a token and revalidate their copy with an ETag; handlers *)
(* that change a user, its access, an inbound or a profile mark the        *)
(* artifacts dirty after the change.  Each request is a sequence of        *)
(* autocommitted statements, and nothing serialises two requests.          *)
(*                                                                         *)
(* A document is built from the user row, read first, and from the access, *)
(* inbound, profile and server rows, read later.  Only the version of each *)
(* part matters here, and one part, "access", stands for any of the later  *)
(* rows: each is read by one statement, and an entry whose rows cannot be  *)
(* read is left out of the document.  A subscription row that does not     *)
(* exist yet looks like one with the defaults of Init.                     *)
(***************************************************************************)
EXTENDS Naturals, FiniteSets

CONSTANTS
    Tokens,      \* ids of core_subscription_tokens; bounds how many are issued
    Procs,       \* concurrent requests
    Clients,     \* subscription clients, each with a copy of one document
    MaxPart,     \* bound on the versions of a part of the content
    MaxVersion,  \* bound on artifact_version
    DisabledUsers, \* versions of the user row in which the user is disabled
    Requests,    \* the kinds of request an instance issues
    Faults,      \* the kinds of failure the environment may inject
    None         \* no token, no client, an entry left out of a document

Parts   == {"user", "access"}
Content == [Parts -> 0..MaxPart]
Documents == [Parts -> 0..MaxPart \cup {None}]
Fresh   == [part \in Parts |-> 0]
ETags   == [version : Nat, body : Documents]
NoETag  == [version |-> 0, body |-> Fresh]

RequestKinds == {"rotate", "issue", "revoke", "view", "refresh", "fetch", "change",
                 "unmarked", "expire"}

ASSUME NamesAssumption ==
    None \notin Tokens \cup Clients /\ Procs # {}

ASSUME BoundsAssumption ==
    /\ MaxPart \in Nat /\ MaxVersion \in Nat
    /\ DisabledUsers \subseteq 0..MaxPart

ASSUME EnvironmentAssumption ==
    Requests \subseteq RequestKinds /\ Faults \subseteq {"crash", "db"}

VARIABLES
    stored,     \* what the documents would be built from now
    rows,       \* core_subscription_tokens of the subscription: id -> row
    primaryId,  \* core_subscriptions.primary_token_id
    version,    \* artifact_version
    needRefresh,\* artifacts_need_refresh
    cache,      \* cache[c]: ETag and body of the client's copy
    op,         \* op[p]: the request p and how far it has come
    rendered,   \* history: what the last document marked rendered was built from
    shown       \* history: the token operators were last shown, None once it is
                \* revoked or has expired

vars == <<stored, rows, primaryId, version, needRefresh, cache, op, rendered, shown>>

Row == [primary : BOOLEAN, revoked : BOOLEAN, secret : BOOLEAN,
        expires : BOOLEAN, expired : BOOLEAN]

Op == [kind : RequestKinds \cup {"none"},
       pc : {"idle", "revoke", "insert", "secret", "primary", "dirty", "user", "ensure",
             "list", "try", "promote", "resolve", "build", "rendered"},
       token : Tokens \cup {None},      \* token issued, tried or presented
       hint : SUBSET Tokens,            \* candidates: primary_token_id as read,
       flagged : SUBSET Tokens,         \* the token listed with is_primary,
       rest : SUBSET Tokens,            \* and all tokens listed
       past : SUBSET Tokens,            \* tokens expired when the search began
       body : Documents,                \* content read so far
       etag : ETags,                    \* If-None-Match of a fetch
       version : Nat,                   \* artifact_version as a fetch read it
       client : Clients \cup {None},
       dead : SUBSET Tokens,            \* history: unusable when it began
       since : [Parts -> SUBSET (0..MaxPart)]] \* history: parts stored since then

NoOp == [kind |-> "none", pc |-> "idle", token |-> None, hint |-> {}, flagged |-> {},
         rest |-> {}, past |-> {}, body |-> Fresh, etag |-> NoETag, version |-> 0, client |-> None,
         dead |-> {}, since |-> [part \in Parts |-> {}]]

(***************************************************************************)
(* The type invariant.                                                     *)
(***************************************************************************)
TypeOK ==
    /\ stored \in Content
    /\ DOMAIN rows \subseteq Tokens
    /\ rows \in [DOMAIN rows -> Row]
    /\ primaryId \in DOMAIN rows \cup {None}
    /\ version \in Nat \ {0}
    /\ needRefresh \in BOOLEAN
    /\ cache \in [Clients -> ETags]
    /\ op \in [Procs -> Op]
    /\ rendered \in Documents
    /\ shown \in Tokens \cup {None}

Init ==
    /\ stored = Fresh
    /\ rows = [t \in {} |-> None]
    /\ primaryId = None
    /\ version = 1
    /\ needRefresh = TRUE
    /\ cache = [c \in Clients |-> NoETag]
    /\ op = [p \in Procs |-> NoOp]
    /\ rendered = Fresh
    /\ shown = None

-----------------------------------------------------------------------------
(***************************************************************************)
(* Requests begin and end.                                                 *)
(***************************************************************************)
Dead == {t \in DOMAIN rows : rows[t].revoked \/ rows[t].expired}

Issuing == {p \in Procs : op[p].kind \in {"rotate", "issue", "view", "refresh"}}
Marking == {p \in Procs : op[p].kind \in {"rotate", "refresh", "change"}}

\* Bounds: a request starts only if the ids and versions it may need remain.
HasRoom(kind) ==
    /\ kind \in {"rotate", "issue", "view", "refresh"} =>
          Cardinality(DOMAIN rows) + Cardinality(Issuing) < Cardinality(Tokens)
    /\ kind \in {"rotate", "refresh", "change"} =>
          version + Cardinality(Marking) < MaxVersion

Begun(kind, pc) ==
    [NoOp EXCEPT !.kind = kind, !.pc = pc, !.dead = Dead,
                 !.since = [part \in Parts |-> {stored[part]}]]

Begin(p, o) ==
    /\ o.kind \in Requests
    /\ op[p].pc = "idle"
    /\ HasRoom(o.kind)
    /\ op' = [op EXCEPT ![p] = o]

Goto(p, pc) == op' = [op EXCEPT ![p].pc = pc]
Finish(p)   == op' = [op EXCEPT ![p] = NoOp]

OperatorRequest(p) ==
    /\ \/ Begin(p, Begun("rotate", "revoke"))
       \/ Begin(p, Begun("issue", "insert"))
       \/ Begin(p, Begun("revoke", "revoke"))
       \/ Begin(p, Begun("view", "user"))
       \/ Begin(p, Begun("refresh", "dirty"))
    /\ UNCHANGED <<stored, rows, primaryId, version, needRefresh, cache, rendered, shown>>

\* A client presents a token it was given and the ETag of its copy.
FetchRequest(p) ==
    /\ \E c \in Clients, t \in DOMAIN rows :
          /\ \A q \in Procs : op[q].client # c
          /\ Begin(p, [Begun("fetch", "resolve") EXCEPT !.client = c, !.token = t,
                                                        !.etag = cache[c]])
    /\ UNCHANGED <<stored, rows, primaryId, version, needRefresh, cache, rendered, shown>>

\* One part of the content changes; the requests under way may have seen it
\* before or after.
Revise(f, o) ==
    \E part \in Parts, v \in 0..MaxPart :
        /\ v # stored[part]
        /\ stored' = [stored EXCEPT ![part] = v]
        /\ o = [q \in Procs |-> IF f[q].pc = "idle" THEN f[q]
                                ELSE [f[q] EXCEPT !.since[part] = @ \cup {v}]]

\* Handlers of users, access, inbounds, servers and profiles commit the change
\* and then mark the subscriptions it concerns.
Change(p) ==
    /\ "change" \in Requests
    /\ op[p].pc = "idle"
    /\ HasRoom("change")
    /\ Revise([op EXCEPT ![p] = Begun("change", "dirty")], op')
    /\ UNCHANGED <<rows, primaryId, version, needRefresh, cache, rendered, shown>>

\* Enabling or disabling users in bulk, and deleting an inbound, whose access
\* rows have gone by the time the mark looks for them, mark nothing.
UnmarkedChange ==
    /\ "unmarked" \in Requests
    /\ Revise(op, op')
    /\ UNCHANGED <<rows, primaryId, version, needRefresh, cache, rendered, shown>>

-----------------------------------------------------------------------------
(***************************************************************************)
(* Tokens.                                                                 *)
(***************************************************************************)
\* Mutation of Revoked: only the primary is revoked.
RevokedPrimaryOnly ==
    [t \in DOMAIN rows |-> [rows[t] EXCEPT !.revoked = @ \/ t = primaryId]]

\* RevokeSubscriptionTokens.
Revoked == [t \in DOMAIN rows |-> [rows[t] EXCEPT !.revoked = TRUE]]

Revoke(p) ==
    /\ op[p].pc = "revoke"
    /\ rows' = Revoked
    /\ shown' = None
    /\ IF op[p].kind = "rotate" THEN Goto(p, "insert") ELSE Finish(p)
    /\ UNCHANGED <<stored, primaryId, version, needRefresh, cache, rendered>>

\* A view issues tokens without an expiry time.
Expiries(p) == IF op[p].kind \in {"rotate", "issue"} /\ "expire" \in Requests
               THEN BOOLEAN ELSE {FALSE}

\* Mutation of AfterInsert: the token of a rotation becomes primary without its
\* secret being kept.
AfterInsertPrimary(p, t) ==
    op' = [op EXCEPT ![p].token = t,
                     ![p].pc = IF op[p].kind = "issue" THEN "secret" ELSE "primary"]
AfterInsert(p, t) == op' = [op EXCEPT ![p].token = t, ![p].pc = "secret"]

Insert(p) ==
    /\ op[p].pc = "insert"
    /\ \E t \in Tokens \ DOMAIN rows, e \in Expiries(p) :
          /\ rows' = [u \in DOMAIN rows \cup {t} |->
                        IF u = t THEN [primary |-> FALSE, revoked |-> FALSE,
                                       secret |-> FALSE, expires |-> e, expired |-> FALSE]
                        ELSE rows[u]]
          /\ AfterInsert(p, t)
    /\ UNCHANGED <<stored, primaryId, version, needRefresh, cache, rendered, shown>>

\* UpdateSubscriptionTokenSecret: from here on the plaintext can be shown again.
StoreSecret(p) ==
    /\ op[p].pc = "secret"
    /\ rows' = [rows EXCEPT ![op[p].token].secret = TRUE]
    /\ IF op[p].kind = "issue" THEN Finish(p) ELSE Goto(p, "primary")
    /\ UNCHANGED <<stored, primaryId, version, needRefresh, cache, rendered, shown>>

\* Mutation of Flagged: the flags of the other tokens stay.
FlaggedToo(t) == [rows EXCEPT ![t].primary = TRUE]
Flagged(t) == [u \in DOMAIN rows |-> [rows[u] EXCEPT !.primary = (u = t)]]

\* UpdateSubscriptionPrimaryToken, one transaction.
MakePrimary(t) == rows' = Flagged(t) /\ primaryId' = t

SetPrimary(p) ==
    /\ op[p].pc = "primary"
    /\ MakePrimary(op[p].token)
    /\ Goto(p, IF op[p].kind = "rotate" THEN "dirty" ELSE "build")
    /\ UNCHANGED <<stored, version, needRefresh, cache, rendered, shown>>

\* Mutation of Dirtied: the version is counted but the flag is left.
DirtiedVersionOnly == version' = version + 1 /\ UNCHANGED needRefresh
Dirtied == version' = version + 1 /\ needRefresh' = TRUE

\* MarkSubscriptionArtifactsDirty: the end of a rotation, which hands its token
\* out, or of a change; the beginning of a manual refresh.
MarkDirty(p) ==
    /\ op[p].pc = "dirty"
    /\ Dirtied
    /\ shown' = IF op[p].kind = "rotate" /\ op[p].token \notin Dead THEN op[p].token
                ELSE shown
    /\ IF op[p].kind = "refresh" THEN Goto(p, "user") ELSE Finish(p)
    /\ UNCHANGED <<stored, rows, primaryId, cache, rendered>>

\* The clock passes the expiry time of t, with which every resolution and every search
\* for a token compares the present.
Expire(t) ==
    /\ "expire" \in Requests
    /\ rows[t].expires /\ ~rows[t].expired
    /\ rows' = [rows EXCEPT ![t].expired = TRUE]
    /\ shown' = IF shown = t THEN None ELSE shown
    /\ UNCHANGED <<stored, primaryId, version, needRefresh, cache, op, rendered>>

-----------------------------------------------------------------------------
(***************************************************************************)
(* BuildUserArtifacts: the operator looks at the links and documents.      *)
(***************************************************************************)
ReadUser(p) ==
    /\ op[p].pc = "user"
    /\ op' = [op EXCEPT ![p].pc = "ensure", ![p].body = [@ EXCEPT !["user"] = stored["user"]]]
    /\ UNCHANGED <<stored, rows, primaryId, version, needRefresh, cache, rendered, shown>>

\* EnsureSubscriptionForUser reads primary_token_id; the search for a token that
\* can be shown begins.
ReadSubscription(p) ==
    /\ op[p].pc = "ensure"
    /\ op' = [op EXCEPT ![p].pc = "list", ![p].hint = {primaryId} \ {None},
                        ![p].past = {t \in DOMAIN rows : rows[t].expired}]
    /\ UNCHANGED <<stored, rows, primaryId, version, needRefresh, cache, rendered, shown>>

\* A failed listing is ignored.
ListTokens(p) ==
    /\ op[p].pc = "list"
    /\ \/ op' = [op EXCEPT ![p].pc = "try", ![p].flagged = {t \in DOMAIN rows : rows[t].primary},
                           ![p].rest = DOMAIN rows]
       \/ "db" \in Faults /\ Goto(p, "try")
    /\ UNCHANGED <<stored, rows, primaryId, version, needRefresh, cache, rendered, shown>>

\* Mutation of Candidates: in any order.
CandidatesAny(o) == o.hint \cup o.flagged \cup o.rest
\* The rest come newest first, by a clock read before the INSERT: any order here.
Candidates(o) == IF o.hint # {} THEN o.hint
                 ELSE IF o.flagged # {} THEN o.flagged ELSE o.rest

\* Mutation of Showable: a revoked token is shown.
ShowableRevoked(p, t) == rows[t].secret /\ t \notin op[p].past
\* Not revoked now, not expired when the search began, plaintext recoverable.
Showable(p, t) == rows[t].secret /\ ~rows[t].revoked /\ t \notin op[p].past

\* The next candidate; one whose row cannot be read is passed over.
TryToken(p) ==
    /\ op[p].pc = "try"
    /\ \E t \in Candidates(op[p]) :
          \/ /\ Showable(p, t)
             /\ op' = [op EXCEPT ![p].token = t,
                                 ![p].pc = IF rows[t].primary THEN "build" ELSE "promote"]
          \/ /\ ~Showable(p, t) \/ "db" \in Faults
             /\ op' = [op EXCEPT ![p].hint = @ \ {t}, ![p].flagged = @ \ {t},
                                 ![p].rest = @ \ {t}]
    /\ UNCHANGED <<stored, rows, primaryId, version, needRefresh, cache, rendered, shown>>

NoTokenLeft(p) ==
    /\ op[p].pc = "try"
    /\ Candidates(op[p]) = {}
    /\ Goto(p, "insert")
    /\ UNCHANGED <<stored, rows, primaryId, version, needRefresh, cache, rendered, shown>>

\* The token found becomes primary; failing to make it so is ignored.
Promote(p) ==
    /\ op[p].pc = "promote"
    /\ \/ MakePrimary(op[p].token)
       \/ "db" \in Faults /\ UNCHANGED <<rows, primaryId>>
    /\ Goto(p, "build")
    /\ UNCHANGED <<stored, version, needRefresh, cache, rendered, shown>>

-----------------------------------------------------------------------------
(***************************************************************************)
(* Documents.                                                              *)
(***************************************************************************)
Alive(t) == ~rows[t].revoked /\ ~rows[t].expired

\* ResolveSubscriptionTokenState: token, subscription and user in one query.
Resolve(p) ==
    /\ op[p].pc = "resolve"
    /\ IF Alive(op[p].token) /\ stored["user"] \notin DisabledUsers
       THEN op' = [op EXCEPT ![p].pc = "build", ![p].body = [@ EXCEPT !["user"] = stored["user"]],
                             ![p].version = version]
       ELSE Finish(p)
    /\ UNCHANGED <<stored, rows, primaryId, version, needRefresh, cache, rendered, shown>>

ETagOf(o, body) == [version |-> o.version, body |-> body]

\* Mutation of Matches: the ETag carries the version without the hash.
MatchesVersion(o, body) == o.etag.version = o.version
Matches(o, body) == o.etag = ETagOf(o, body)

\* buildUserURIsAndOutbounds: an entry whose rows cannot be read is skipped.
AccessRead == {stored["access"]} \cup IF "db" \in Faults THEN {None} ELSE {}

\* The rest of the content is read.  A client whose ETag matches is answered 304
\* and keeps its copy; everyone else gets the document.
Answer(p, body) ==
    IF op[p].kind = "fetch" /\ Matches(op[p], body)
    THEN Finish(p)
    ELSE op' = [op EXCEPT ![p].pc = "rendered", ![p].body = body]

Build(p) ==
    /\ op[p].pc = "build"
    /\ \E entry \in AccessRead : Answer(p, [op[p].body EXCEPT !["access"] = entry])
    /\ UNCHANGED <<stored, rows, primaryId, version, needRefresh, cache, rendered, shown>>

\* MarkSubscriptionArtifactsRendered, whose failure is ignored, and the answer.
MarkRendered(p) ==
    /\ op[p].pc = "rendered"
    /\ \/ needRefresh' = FALSE /\ rendered' = op[p].body
       \/ "db" \in Faults /\ UNCHANGED <<needRefresh, rendered>>
    /\ IF op[p].kind = "fetch"
       THEN /\ cache' = [cache EXCEPT ![op[p].client] = ETagOf(op[p], op[p].body)]
            /\ UNCHANGED shown
       ELSE /\ shown' = IF op[p].token \in Dead THEN shown ELSE op[p].token
            /\ UNCHANGED cache
    /\ Finish(p)
    /\ UNCHANGED <<stored, rows, primaryId, version>>

-----------------------------------------------------------------------------
\* A statement whose error ends the request fails.
StatementFails(p) ==
    /\ "db" \in Faults
    /\ op[p].pc \in {"revoke", "insert", "secret", "primary", "dirty", "user", "ensure",
                     "resolve", "build"}
    /\ Finish(p)
    /\ UNCHANGED <<stored, rows, primaryId, version, needRefresh, cache, rendered, shown>>

Crash(p) ==
    /\ "crash" \in Faults
    /\ op[p].pc # "idle"
    /\ Finish(p)
    /\ UNCHANGED <<stored, rows, primaryId, version, needRefresh, cache, rendered, shown>>

Continue(p) ==
    \/ Revoke(p) \/ Insert(p) \/ StoreSecret(p) \/ SetPrimary(p) \/ MarkDirty(p)
    \/ ReadUser(p) \/ ReadSubscription(p) \/ ListTokens(p) \/ TryToken(p)
    \/ NoTokenLeft(p) \/ Promote(p) \/ Resolve(p) \/ Build(p) \/ MarkRendered(p)
    \/ StatementFails(p)

Next ==
    \/ \E p \in Procs : OperatorRequest(p) \/ FetchRequest(p) \/ Change(p)
    \/ \E p \in Procs : Continue(p) \/ Crash(p)
    \/ \E t \in DOMAIN rows : Expire(t)
    \/ UnmarkedChange

Spec == Init /\ [][Next]_vars

-----------------------------------------------------------------------------
(***************************************************************************)
(* Safety.                                                                 *)
(***************************************************************************)
\* The subscription's primary_token_id and the is_primary flags agree, whatever
\* rotations, views and first issues interleave: one statement moves both.
OnePrimary == \A t \in DOMAIN rows : rows[t].primary <=> t = primaryId

\* The primary token can be shown again: its plaintext was stored before it was
\* made primary, also when the request died in between.
PrimaryIsRecoverable == primaryId # None => rows[primaryId].secret

\* No request answers with a token, or with documents for a token, that was
\* revoked or had expired before the request began; a view that searches for a
\* token while a rotation runs reads each row again before it settles.
DeadTokensServeNothing ==
    \A p \in Procs : op[p].pc \in {"promote", "build", "rendered"} =>
                        op[p].token \notin op[p].dead

Quiet == \A p \in Procs : op[p].pc = "idle"

\* Between requests, artifacts that are not marked dirty were last rendered from
\* the content that is stored.
CleanMeansRendered == Quiet /\ ~needRefresh => rendered = stored

(***************************************************************************)
(* Action properties.                                                      *)
(***************************************************************************)
\* The token an operator is shown stays the one shown until it is revoked (a
\* rotation revokes it) or expires.
ShownTokenIsStable == [][shown # None /\ shown' # None => shown' = shown]_vars

\* When a rotation succeeds the token it hands out is the only one that works.
RotationLeavesOne ==
    [][\A p \in Procs : op[p].kind = "rotate" /\ MarkDirty(p) =>
          \A t \in DOMAIN rows : Alive(t) => t = op[p].token]_vars

\* Whatever a fetch is answered, a document or "not modified", every entry the
\* client's copy then shows is as it was stored at some moment between the
\* client's request and the answer, although the version is read before the
\* content and raised only after a change.
ShowsOnly(document, since) ==
    \A part \in Parts : document[part] # None => document[part] \in since[part]

AnswersAreCurrent ==
    [][\A p \in Procs :
          /\ op[p].kind = "fetch"
          /\ (Build(p) \/ MarkRendered(p)) /\ op'[p].pc = "idle"
          => ShowsOnly(cache'[op[p].client].body, op[p].since)]_vars
=============================================================================
