----------------------- MODULE UserAccessOutcomeProofs -----------------------
(***************************************************************************)
(* Proofs about UserAccess: what the answer of a request that ran alone and *)
(* without a failure says of the drafts, the marks and the provisioned user. *)
(*                                                                          *)
(* The inductive invariant says of such a request where it is (Shape), that *)
(* what it has yet to write is on servers it is going to draft (Planned,    *)
(* AtHand), which drafts and documents it still owes (Drafts, Marks), and   *)
(* how much of a provisioning is done (Serves).  They are written over a    *)
(* record of the rows, so that a step can state them of the rows it leaves. *)
(***************************************************************************)
EXTENDS UserAccessProofs

Now == [ins |-> inbounds, us |-> users, acc |-> access, dr |-> drafted,
        stale |-> Stale, dated |-> Dated]

StepsOf(kind) ==
    CASE kind = "provision" -> ProvisionPcs
      [] kind = "create" -> {"user", "userBack", "mark", "draft", "done"}
      [] kind = "update" -> {"load", "user", "userBack", "mark", "draft", "done"}
      [] kind = "deleteUser" -> {"remove", "draft", "done"}
      [] kind = "grant" -> {"prepare", "store", "accessBack", "mark", "draft", "done"}
      [] kind = "withdraw" -> {"load", "withdraw", "mark", "draft", "done"}
      [] kind = "updateInbound" -> {"load", "inbound", "inboundBack", "markServer", "draft", "done"}
      [] kind = "deleteInbound" -> {"load", "drop", "markServer", "draft", "done"}
      [] kind = "bulkUsers" -> {"read", "impact", "rows", "user", "userBack", "remove", "mark",
                                "list", "prepare", "store", "accessBack", "draft", "done"}
      [] kind = "bulkAccess" -> {"read", "impact", "rows", "withdraw", "prepare", "store",
                                 "accessBack", "mark", "draft", "done"}
      [] kind = "render" -> {"render", "done"}
      [] OTHER -> {"batch", "done"}

Writing == {"prepare", "store", "accessBack", "withdraw"}
Withdrawing(o) == o.req.patch.hard \/ o.req.kind = "withdraw"

TargetsIn(o, v) ==
    CASE o.req.kind \in {"create", "update", "deleteUser"} -> Servers
      [] o.req.kind = "grant" -> IF o.req.inbound \in DOMAIN v.ins
                                 THEN {v.ins[o.req.inbound].server} ELSE Servers
      [] OTHER -> o.servers

\* The requests whose success promises drafts.
Promises(o) ==
    /\ o.req.kind \notin {"bulkDelete", "bulkEnable"}
    /\ o.req.kind = "bulkAccess" \/ o.req.patch.profile => ChangesRuntime(o.req.patch)

\* A bulk patch of users that changes nothing a configuration is made of.
Idle(o) == o.req.kind = "bulkUsers" /\ ~ChangesRuntime(o.req.patch) /\ ~o.req.patch.profile

OnTarget(i, o, v) == i \in DOMAIN v.ins => v.ins[i].server \in TargetsIn(o, v)

\* A row to withdraw is that of the user, for as long as it is there.
AsRead(w, o, v) ==
    w.id \in DOMAIN v.acc => /\ v.acc[w.id].user = w.row.user
                             /\ Promises(o) => OnTarget(v.acc[w.id].inbound, o, v)

\* The user of a bulk patch is one of those it names, and there unless it deletes them.
Named(u, o, v) == u \in o.req.users /\ (~o.req.patch.hard => u \in DOMAIN v.us)

\* Which statements a request has, and when.
Shape(o) ==
    /\ o.pc \in StepsOf(o.req.kind)
    /\ o.pc \in {"prepare", "store", "accessBack", "user", "userBack", "list"} => ~o.req.patch.hard
    /\ o.req.kind = "bulkUsers" /\ o.pc \in {"remove", "mark"}
          => (o.req.patch.hard <=> o.pc = "remove")
    /\ o.pc = "withdraw" => Withdrawing(o)
    /\ o.pc \in {"load", "read", "ensure", "render"} => o.servers = {}

\* The server of an inbound is to be drafted, or the inbound is still to be looked up.
Counted(i, o, v) ==
    i \in DOMAIN v.ins => \/ v.ins[i].server \in o.servers
                         \/ \E w \in o.pending : w.row.inbound = i

\* What a bulk request has looked at so far.
Surveyed(o, v) ==
    /\ \A a \in DOMAIN v.acc :
          a \in o.req.accesses \/ v.acc[a].user \in o.req.users \cap DOMAIN v.us
          => \/ Counted(v.acc[a].inbound, o, v)
             \/ \E t \in o.todo : t.id = v.acc[a].user
    /\ o.pc = "rows" => /\ o.pending = {} /\ o.todo = {}
                        /\ o.req.patch.to \in DOMAIN v.ins =>
                              v.ins[o.req.patch.to].server \in o.servers

\* What a request has yet to write is on servers that it is going to draft.
Planned(o, v) ==
    /\ o.req.kind \notin {"provision", "bulkUsers", "bulkAccess"} => o.pending = {}
    /\ o.req.kind # "bulkUsers" => o.todo = {}
    /\ o.req.kind = "bulkUsers" /\ o.req.patch.hard => o.pending = {}
    /\ Withdrawing(o) => \A w \in o.pending : AsRead(w, o, v)
    /\ Promises(o) /\ ~Idle(o) => \A w \in o.pending : OnTarget(w.row.inbound, o, v)
    /\ Promises(o) /\ ~Idle(o) /\ o.req.kind = "bulkUsers" =>
         /\ o.req.patch.to # None => OnTarget(o.req.patch.to, o, v)
         /\ \A a \in DOMAIN v.acc : v.acc[a].user \in o.req.users \cap DOMAIN v.us
                                    => OnTarget(v.acc[a].inbound, o, v)
    /\ o.req.kind = "bulkUsers" => /\ \A t \in o.todo : Named(t.id, o, v)
                                   /\ \A w \in o.pending : Named(w.row.user, o, v)
    /\ Idle(o) => o.pending = {} /\ \A t \in o.todo : t.row = v.us[t.id]

\* So is what it is about to write.
AtHand(o, v) ==
    /\ o.pc \in Writing =>
         /\ o.user = o.write.row.user
         /\ o.req.kind = "grant" => o.write.row.inbound = o.req.inbound
         /\ Promises(o) => ~Idle(o) /\ OnTarget(o.write.row.inbound, o, v)
    /\ o.pc = "withdraw" => AsRead(o.write, o, v)
    /\ o.pc \in {"inbound", "drop"} => OnTarget(o.req.inbound, o, v)
    /\ o.pc = "inbound" => o.inboundRow.server \in o.servers
    /\ o.req.kind = "bulkUsers" /\ o.pc \notin {"read", "impact", "rows", "draft", "done"}
          => Named(o.user, o, v)
    /\ Idle(o) /\ o.pc = "user" => o.userRow = v.us[o.user]

\* The servers whose draft is not up to date any more are those still to be drafted.
Owed(o, v) ==
    CASE o.pc = "draft" -> o.servers
      [] o.pc = "done" -> IF o.result = "ok" THEN {} ELSE Servers
      [] o.pc \in {"impact", "rows"} -> {}
      [] OTHER -> TargetsIn(o, v)

Drafts(o, v) == Promises(o) => v.stale \subseteq o.stale \cup Owed(o, v)

\* The users whose documents are not up to date any more are those still to be marked.
ToMark(o, v) ==
    CASE o.pc \in {"userBack", "accessBack", "mark"} -> {o.user}
      [] o.pc \in {"inboundBack", "markServer"} ->
            {v.acc[a].user : a \in {b \in DOMAIN v.acc :
                /\ v.acc[b].inbound \in DOMAIN v.ins
                /\ v.ins[v.acc[b].inbound].server \in o.servers}}
      [] OTHER -> {}

Marks(o, v) ==
    /\ o.req.kind \notin {"deleteInbound", "bulkEnable"}
    /\ o.pc = "done" => o.result = "ok"
    => v.dated \subseteq o.dated \cup ToMark(o, v)

\* The user has an access for the protocol on the first server.
Serving(a, u, x, v) ==
    /\ v.acc[a].user = u /\ v.acc[a].inbound \in DOMAIN v.ins
    /\ v.ins[v.acc[a].inbound].server = DefaultServer
    /\ v.ins[v.acc[a].inbound].protocol = x
    /\ v.acc[a][x] # 0

Held(u, x, v) == \E a \in DOMAIN v.acc : Serving(a, u, x, v) /\ v.acc[a].enabled

EntryIn(row, v) ==
    [inbound |-> row.inbound, protocol |-> v.ins[row.inbound].protocol,
     name |-> v.us[row.user].name, secret |-> row[v.ins[row.inbound].protocol]]

IsServed(u, x, v) ==
    \E a \in DOMAIN v.acc :
       /\ Serving(a, u, x, v)
       /\ v.ins[v.acc[a].inbound].enabled => EntryIn(v.acc[a], v) \in v.dr[DefaultServer]

Cause(o, v) ==
    \/ \E u \in DOMAIN v.us : v.us[u].name = o.req.patch.name
    \/ \E i \in DOMAIN v.ins : /\ v.ins[i].server = DefaultServer
                               /\ v.ins[i].tag \in Protocols \ {v.ins[i].protocol}

Ensured(o, v) ==
    \A x \in Protocols : o.default[x] # None =>
        /\ o.default[x] \in DOMAIN v.ins
        /\ v.ins[o.default[x]].server = DefaultServer
        /\ v.ins[o.default[x]].protocol = x

Awaited(o, x, v) ==
    \/ \E w \in o.pending : w.row.inbound = o.default[x]
    \/ o.pc \in {"prepare", "store"} /\ o.write.row.inbound = o.default[x]
    \/ Held(o.user, x, v)

\* How far the provisioning has come.
Serves(o, v) ==
    o.req.kind = "provision" =>
    /\ o.pc # "rollback"
    /\ o.pc \in {"ensure", "provide", "inboundBack", "markServer", "user"} =>
          o.userRow = [name |-> o.req.patch.name, active |-> TRUE]
    /\ o.pc \notin {"ensure", "done"} => o.servers = {DefaultServer} /\ Ensured(o, v)
    /\ o.pc \in {"provide", "inboundBack", "markServer"} =>
          \A x \in Protocols, i \in DOMAIN v.ins :
             o.default[x] = None => v.ins[i].server # DefaultServer \/ v.ins[i].protocol # x
    /\ o.pc = "inboundBack" => WrittenInbound(o) \in DOMAIN v.ins
    /\ o.pc \in {"userBack", "mark", "prepare", "store", "accessBack"} =>
          /\ v.us[o.user].active
          /\ \A w \in o.pending : w.row.enabled
          /\ \A x \in Protocols : o.default[x] # None /\ Awaited(o, x, v)
    /\ o.pc \in {"prepare", "store"} => o.write.row.enabled
    /\ o.pc = "store" => o.write.row[v.ins[o.write.row.inbound].protocol] # 0
    /\ o.pc = "draft" => /\ o.user \in DOMAIN v.us /\ v.us[o.user].active
                         /\ \A x \in Protocols : Held(o.user, x, v)
    /\ o.pc = "done" /\ o.result = "ok" => \A x \in Protocols : IsServed(o.user, x, v)
    /\ o.pc = "done" /\ o.result = "error" => Cause(o, v)

\* A request that ran alone and met no failure.
Calm(o) == o.pc # "idle" /\ o.alone /\ o.failed = 0

Healthy(o, v) ==
    Calm(o) => /\ Shape(o) /\ AtHand(o, v) /\ Drafts(o, v) /\ Marks(o, v) /\ Serves(o, v)
               /\ o.pc \in {"impact", "rows"} => Surveyed(o, v)
               /\ o.pc \notin {"read", "impact", "rows", "draft", "done"} => Planned(o, v)

\* An id that is still to be given is not that of a user or an inbound, and no access
\* refers to it.
IdsUsed ==
    /\ DOMAIN users \subseteq usedIds /\ DOMAIN inbounds \subseteq usedIds
    /\ \A a \in DOMAIN access : access[a].user \in usedIds
    /\ \A p \in Procs : /\ op[p].pc = "store" => op[p].write.row.user \in usedIds
                        /\ op[p].pc = "inbound" => op[p].req.inbound \in usedIds

HInv == UInv /\ IdsUsed /\ \A p \in Procs : Healthy(op[p], Now)

-----------------------------------------------------------------------------
(***************************************************************************)
(* What a configuration and a document depend on.                          *)
(***************************************************************************)
LEMMA Fields ==
    /\ Now.ins = inbounds /\ Now.us = users /\ Now.acc = access /\ Now.dr = drafted
    /\ Now.stale = Stale /\ Now.dated = Dated
    /\ Now'.ins = inbounds' /\ Now'.us = users' /\ Now'.acc = access' /\ Now'.dr = drafted'
    /\ Now'.stale = Stale' /\ Now'.dated = Dated'
BY DEF Now

On(s) == {a \in DOMAIN access : /\ access[a].inbound \in DOMAIN inbounds
                                /\ inbounds[access[a].inbound].server = s}

(* The configuration of a server depends on its inbounds, their accesses and their users. *)
LEMMA ConfigKept ==
    ASSUME NEW s, On(s)' = On(s),
           \A a \in On(s) :
              /\ access'[a] = access[a]
              /\ inbounds'[access[a].inbound] = inbounds[access[a].inbound]
              /\ access[a].user \in DOMAIN users <=> access[a].user \in DOMAIN users'
              /\ access[a].user \in DOMAIN users => users'[access[a].user] = users[access[a].user]
    PROVE  Config(s)' = Config(s)
<1>1. Served(s) \subseteq On(s) /\ Served(s)' \subseteq On(s)'
  BY DEF Served, On
<1>2. ASSUME NEW a \in On(s) PROVE a \in Served(s)' <=> a \in Served(s)
  BY <1>2 DEF Served, On
<1>3. Served(s)' = Served(s) BY <1>1, <1>2
<1>4. ASSUME NEW a \in Served(s) PROVE EntryOf(access[a])' = EntryOf(access[a])
  <2>1. a \in On(s) /\ access[a].user \in DOMAIN users BY <1>1 DEF Served
  <2> QED BY <2>1 DEF EntryOf
<1>5. Config(s)' = {EntryOf(access[a])' : a \in Served(s)'} BY DEF Config
<1> QED BY <1>3, <1>4, <1>5 DEF Config

(* The servers whose configuration a step may change are all that get out of date. *)
LEMMA StaleKept ==
    ASSUME drafted' = drafted, NEW T, \A s \in Servers \ T : Config(s)' = Config(s)
    PROVE  Stale' \subseteq Stale \cup T
<1> SUFFICES ASSUME NEW s \in Stale', s \notin T PROVE s \in Stale OBVIOUS
<1>1. s \in Servers /\ drafted'[s] # Config(s)' BY DEF Stale
<1> QED BY <1>1 DEF Stale

LEMMA StaleSame ==
    ASSUME UNCHANGED <<inbounds, users, access, drafted>> PROVE Stale' = Stale
BY DEF Stale, Config, Served, EntryOf

LEMMA DatedSame ==
    ASSUME UNCHANGED <<inbounds, users, access, fresh>> PROVE Dated' = Dated
BY DEF Dated, DocumentOf

Read(u) == {a \in DOMAIN access : access[a].user = u /\ access[a].inbound \in DOMAIN inbounds}

(* A document depends on the user, its accesses and their inbounds. *)
LEMMA DocumentKept ==
    ASSUME NEW u, users'[u] = users[u], Read(u)' = Read(u),
           \A a \in Read(u) : /\ access'[a] = access[a]
                              /\ inbounds'[access[a].inbound] = inbounds[access[a].inbound]
    PROVE  DocumentOf(u)' = DocumentOf(u)
<1> DEFINE e(a) == [id |-> a, row |-> access[a], inbound |-> inbounds[access[a].inbound]]
<1>1. ASSUME NEW a \in Read(u) PROVE e(a)' = e(a) BY <1>1
<1>2. DocumentOf(u) = [user |-> users[u], entries |-> {e(a) : a \in Read(u)}]
  BY DEF DocumentOf, Read
<1>3. DocumentOf(u)' = [user |-> users'[u], entries |-> {e(a)' : a \in Read(u)'}]
  BY DEF DocumentOf, Read
<1>4. {e(a)' : a \in Read(u)'} = {e(a) : a \in Read(u)} BY <1>1
<1> QED BY <1>2, <1>3, <1>4

LEMMA DatedKept ==
    ASSUME NEW U,
           \A u \in (DOMAIN fresh' \cap DOMAIN users') \ U :
              /\ u \in DOMAIN fresh \cap DOMAIN users
              /\ fresh'[u] = fresh[u] /\ DocumentOf(u)' = DocumentOf(u)
    PROVE  Dated' \subseteq Dated \cup U
<1> SUFFICES ASSUME NEW u \in Dated', u \notin U PROVE u \in Dated OBVIOUS
<1>1. u \in DOMAIN fresh' \cap DOMAIN users' /\ fresh'[u] # DocumentOf(u)' BY DEF Dated
<1> QED BY <1>1 DEF Dated

-----------------------------------------------------------------------------
(***************************************************************************)
(* How a request goes on.                                                  *)
(***************************************************************************)
LEMMA AnswerFields ==
    ASSUME NEW o \in Op, o.req \in Requests, NEW r \in Results
    PROVE  LET a == Answer(o, r) IN
           /\ a.req = o.req /\ a.pc = "done" /\ a.result = r /\ a.user = o.user
           /\ a.alone = o.alone /\ a.failed = o.failed /\ a.stale = o.stale
           /\ a.dated = o.dated /\ a.pending = {} /\ a.todo = {}
BY NoOpOK DEF Answer, OpOK, Op, NoOp

(* Only the process that steps is concerned: it ran alone, or is not calm any more. *)
LEMMA Carries ==
    ASSUME HInv, UInv', IdsUsed', NEW p \in Procs, ~Free(p), NEW a, Go(p, a),
           a.alone = op[p].alone, Healthy(a, Now')
    PROVE  HInv'
<1>1. op' = [op EXCEPT ![p] = a] /\ op \in [Procs -> OpOK] BY DEF Go, HInv, UInv
<1>2. ASSUME NEW q \in Procs PROVE Healthy(op'[q], Now')
  <2>1. CASE q = p BY <1>1, <2>1
  <2>2. CASE q # p
    <3>1. op[q].pc = "idle" \/ ~op[q].alone BY <2>2 DEF HInv, UInv, Alone
    <3>2. op'[q] = op[q] BY <1>1, <2>2
    <3> QED BY <3>1, <3>2 DEF Healthy, Calm
  <2> QED BY <2>1, <2>2
<1> QED BY <1>2 DEF HInv

LEMMA DoneShape ==
    ASSUME NEW o, o.req.kind \in Kinds, o.pc = "done" PROVE Shape(o)
BY DEF Shape, StepsOf, ProvisionPcs, Kinds

(* An error promises nothing, but that of a provisioning has a cause. *)
LEMMA ErrorHealthy ==
    ASSUME NEW o \in Op, o.req \in Requests, NEW v, v.stale \subseteq Servers,
           Calm(o) /\ o.req.kind = "provision" => Cause(o, v), o.pc # "idle"
    PROVE  Healthy(Answer(o, "error"), v)
<1> DEFINE a == Answer(o, "error")
<1>1. /\ a.req = o.req /\ a.pc = "done" /\ a.result = "error" /\ a.user = o.user
      /\ a.alone = o.alone /\ a.failed = o.failed /\ a.stale = o.stale
      /\ a.dated = o.dated /\ a.pending = {} /\ a.todo = {}
  BY AnswerFields DEF Results
<1>2. o.req.kind \in Kinds BY RequestFacts
<1> HIDE DEF a
<1> SUFFICES ASSUME Calm(a) PROVE Healthy(a, v) BY DEF Healthy, a
<1>3. Shape(a) BY <1>1, <1>2, DoneShape
<1>4. AtHand(a, v) BY <1>1 DEF AtHand, Writing
<1>5. Drafts(a, v) BY <1>1 DEF Drafts, Owed
<1>6. Marks(a, v) BY <1>1 DEF Marks
<1>7. Calm(o) BY <1>1 DEF Calm
<1>8. Serves(a, v) BY <1>1, <1>7 DEF Serves, Cause
<1> QED BY <1>1, <1>3, <1>4, <1>5, <1>6, <1>8 DEF Healthy

\* What a provisioning has done when its accesses are written one after the other.
ProvisionReady(o, v) ==
    /\ o.servers = {DefaultServer} /\ Ensured(o, v)
    /\ o.user \in DOMAIN v.us /\ v.us[o.user].active
    /\ \A w \in o.pending : w.row.enabled /\ w.row.user = o.user
    /\ \A x \in Protocols :
          /\ o.default[x] # None
          /\ (\E w \in o.pending : w.row.inbound = o.default[x]) \/ Held(o.user, x, v)

\* A request that has finished an item and goes on with the next one.
Ready(o, v) ==
    /\ o.req.kind \notin {"render", "bulkDelete", "bulkEnable"}
    /\ Planned(o, v)
    /\ Promises(o) => v.stale \subseteq o.stale \cup TargetsIn(o, v)
    /\ o.req.kind # "deleteInbound" => v.dated \subseteq o.dated
    /\ o.req.kind = "provision" => ProvisionReady(o, v)

LEMMA DraftingHealthy ==
    ASSUME NEW o \in OpOK, o.pc # "idle", NEW v, NEW T \in SUBSET Servers,
           o.req.kind \notin {"render", "bulkDelete", "bulkEnable"},
           Promises(o) => v.stale \subseteq o.stale \cup T,
           o.req.kind # "deleteInbound" => v.dated \subseteq o.dated,
           o.req.kind = "provision" =>
              IF T = {} THEN \A x \in Protocols : IsServed(o.user, x, v)
              ELSE /\ T = {DefaultServer} /\ Ensured(o, v)
                   /\ o.user \in DOMAIN v.us /\ v.us[o.user].active
                   /\ \A x \in Protocols : Held(o.user, x, v)
    PROVE  Healthy(Drafting(o, T), v)
<1>0. o \in Op /\ o.req \in Requests BY DEF OpOK
<1>9. o.req.kind \in Kinds BY <1>0, RequestFacts
<1>1. CASE T = {}
  <2> DEFINE a == Answer(o, "ok")
  <2>1. /\ a.req = o.req /\ a.pc = "done" /\ a.result = "ok" /\ a.user = o.user
        /\ a.alone = o.alone /\ a.failed = o.failed /\ a.stale = o.stale
        /\ a.dated = o.dated
    BY <1>0, AnswerFields DEF Results
  <2>2. Drafting(o, T) = a BY <1>1 DEF Drafting
  <2> HIDE DEF a
  <2>3. Shape(a) BY <1>9, <2>1, DoneShape
  <2>4. AtHand(a, v) BY <2>1 DEF AtHand, Writing
  <2>5. Drafts(a, v) BY <1>1, <2>1 DEF Drafts, Owed, Promises
  <2>6. Marks(a, v) BY <1>9, <2>1 DEF Marks
  <2>7. Serves(a, v) BY <1>1, <2>1 DEF Serves
  <2> QED BY <2>1, <2>2, <2>3, <2>4, <2>5, <2>6, <2>7 DEF Healthy
<1>2. CASE T # {}
  <2> DEFINE a == [o EXCEPT !.pc = "draft", !.servers = T]
  <2>1. /\ a.req = o.req /\ a.pc = "draft" /\ a.user = o.user /\ a.servers = T
        /\ a.alone = o.alone /\ a.failed = o.failed /\ a.stale = o.stale
        /\ a.dated = o.dated /\ a.default = o.default
    BY <1>0 DEF Op
  <2>2. Drafting(o, T) = a BY <1>2 DEF Drafting
  <2> HIDE DEF a
  <2>3. Shape(a) BY <1>9, <2>1 DEF Shape, StepsOf, Kinds, ProvisionPcs
  <2>4. AtHand(a, v) BY <2>1 DEF AtHand, Writing
  <2>5. Drafts(a, v) BY <2>1 DEF Drafts, Owed, Promises
  <2>6. Marks(a, v) BY <1>9, <2>1 DEF Marks
  <2>7. Serves(a, v) BY <1>2, <2>1 DEF Serves, Ensured
  <2> QED BY <2>1, <2>2, <2>3, <2>4, <2>5, <2>6, <2>7 DEF Healthy
<1> QED BY <1>1, <1>2

LEMMA AdvanceFields ==
    ASSUME NEW o \in OpOK, NEW a \in Advance(o)
    PROVE  \/ /\ o.pending # {} /\ a.write \in NextWrites(o) /\ a.write \in o.pending
              /\ a.user = a.write.row.user
              /\ a.pending = o.pending \ {a.write} /\ a.todo = o.todo
              /\ a.pc = IF o.req.patch.hard THEN "withdraw" ELSE "prepare"
              /\ a.req = o.req /\ a.alone = o.alone /\ a.failed = o.failed
              /\ a.stale = o.stale /\ a.dated = o.dated /\ a.servers = o.servers
              /\ a.default = o.default
           \/ /\ o.pending = {} /\ o.todo # {}
              /\ \E t \in o.todo : /\ a.user = t.id /\ a.todo = o.todo \ {t}
                                   /\ a.userRow = PatchedUser(t.row, o.req.patch)
              /\ a.pending = {} /\ a.write = None
              /\ a.pc = IF o.req.patch.hard THEN "remove" ELSE "user"
              /\ a.req = o.req /\ a.alone = o.alone /\ a.failed = o.failed
              /\ a.stale = o.stale /\ a.dated = o.dated /\ a.servers = o.servers
              /\ a.default = o.default
           \/ o.pending = {} /\ o.todo = {} /\ a = Drafting(o, Targets(o))
<1>0. o \in Op BY DEF OpOK
<1>1. CASE o.pending # {}
  <2>1. PICK w \in NextWrites(o) :
          a = [o EXCEPT !.write = w, !.user = w.row.user, !.pending = @ \ {w},
                        !.pc = IF o.req.patch.hard THEN "withdraw" ELSE "prepare"]
    BY <1>1 DEF Advance
  <2>2. w \in o.pending BY DEF NextWrites
  <2>3. a.write = w BY <1>0, <2>1 DEF Op
  <2> QED BY <1>0, <1>1, <2>1, <2>2, <2>3 DEF Op
<1>2. CASE o.pending = {} /\ o.todo # {}
  <2>1. PICK t \in o.todo :
          a = [o EXCEPT !.user = t.id, !.userRow = PatchedUser(t.row, o.req.patch),
                        !.write = None, !.todo = @ \ {t},
                        !.pc = IF o.req.patch.hard THEN "remove" ELSE "user"]
    BY <1>2 DEF Advance
  <2> QED BY <1>0, <1>2, <2>1 DEF Op
<1>3. CASE o.pending = {} /\ o.todo = {} BY <1>3 DEF Advance
<1> QED BY <1>1, <1>2, <1>3

LEMMA SameRow ==
    ASSUME NEW row \in UserRow, NEW patch, patch.name = None, patch.active = None
    PROVE  PatchedUser(row, patch) = row
BY DEF PatchedUser, Or, UserRow

(* The plan of a request does not depend on where it is. *)
LEMMA PlanKept ==
    ASSUME NEW o, NEW a, NEW v, Planned(o, v), a.req = o.req, a.servers = o.servers,
           a.pending \subseteq o.pending, a.todo \subseteq o.todo
    PROVE  Planned(a, v)
<1>1. \A i : OnTarget(i, o, v) <=> OnTarget(i, a, v) BY DEF OnTarget, TargetsIn
<1>2. Promises(a) = Promises(o) /\ Idle(a) = Idle(o) /\ Withdrawing(a) = Withdrawing(o)
  BY DEF Promises, Idle, Withdrawing
<1>3. \A u : Named(u, o, v) <=> Named(u, a, v) BY DEF Named
<1>4. \A w : AsRead(w, o, v) <=> AsRead(w, a, v) BY <1>1, <1>2 DEF AsRead
<1> QED BY <1>1, <1>2, <1>3, <1>4 DEF Planned

LEMMA AdvanceHealthy ==
    ASSUME Tables, NEW o \in OpOK, o.pc # "idle", NEW v, Ready(o, v),
           Targets(o) = TargetsIn(o, v), NEW a \in Advance(o)
    PROVE  Healthy(a, v)
<1>0. o \in Op /\ o.req \in Requests /\ o.req.kind \in Kinds /\ WellFormed(o.req)
  BY RequestFacts DEF OpOK
<1>1. CASE o.pending # {} /\ o.req.kind # "provision"
  <2>1. /\ a.write \in o.pending /\ a.user = a.write.row.user
        /\ a.pending \subseteq o.pending /\ a.todo = o.todo
        /\ a.pc = (IF o.req.patch.hard THEN "withdraw" ELSE "prepare")
        /\ a.req = o.req /\ a.alone = o.alone /\ a.failed = o.failed
        /\ a.stale = o.stale /\ a.dated = o.dated /\ a.servers = o.servers
    BY <1>1, AdvanceFields
  <2>2. o.req.kind \in {"bulkUsers", "bulkAccess"} /\ (o.req.patch.hard => o.req.kind = "bulkAccess")
    BY <1>1 DEF Ready, Planned
  <2>3. Shape(a) BY <2>1, <2>2 DEF Shape, StepsOf, Withdrawing
  <2>4. Planned(a, v) BY <2>1, PlanKept DEF Ready
  <2>5. AtHand(a, v)
    <3>1. Promises(o) => ~Idle(o) /\ OnTarget(a.write.row.inbound, o, v)
      BY <1>1, <2>1 DEF Ready, Planned
    <3>2. OnTarget(a.write.row.inbound, o, v) <=> OnTarget(a.write.row.inbound, a, v)
      BY <2>1 DEF OnTarget, TargetsIn
    <3>3. Promises(o) = Promises(a) /\ Idle(o) = Idle(a) BY <2>1 DEF Promises, Idle
    <3>4. a.pc = "withdraw" => AsRead(a.write, a, v)
      <4>1. a.pc = "withdraw" => AsRead(a.write, o, v)
        BY <2>1 DEF Ready, Planned, Withdrawing
      <4>2. \A i : OnTarget(i, o, v) <=> OnTarget(i, a, v) BY <2>1 DEF OnTarget, TargetsIn
      <4> QED BY <3>3, <4>1, <4>2 DEF AsRead
    <3>5. o.req.kind = "bulkUsers" => Named(a.user, a, v)
      BY <2>1 DEF Ready, Planned, Named
    <3> QED BY <2>1, <2>2, <3>1, <3>2, <3>3, <3>4, <3>5 DEF AtHand
  <2>6. Drafts(a, v)
    <3>1. Owed(a, v) = TargetsIn(o, v) BY <2>1 DEF Owed, TargetsIn
    <3> QED BY <2>1, <3>1 DEF Drafts, Ready, Promises
  <2>7. Marks(a, v) BY <2>1 DEF Marks, Ready
  <2>8. Serves(a, v) BY <2>1, <1>1 DEF Serves
  <2> QED BY <2>1, <2>3, <2>4, <2>5, <2>6, <2>7, <2>8 DEF Healthy
<1>2. CASE o.pending # {} /\ o.req.kind = "provision"
  <2>0. ~o.req.patch.hard BY <1>0, <1>2 DEF WellFormed
  <2>1. /\ a.write \in o.pending /\ a.user = a.write.row.user
        /\ a.pending = o.pending \ {a.write} /\ a.todo = o.todo
        /\ a.pc = "prepare" /\ a.default = o.default
        /\ a.req = o.req /\ a.alone = o.alone /\ a.failed = o.failed
        /\ a.stale = o.stale /\ a.dated = o.dated /\ a.servers = o.servers
    BY <1>2, <2>0, AdvanceFields
  <2>3. Shape(a) BY <1>2, <2>0, <2>1 DEF Shape, StepsOf, ProvisionPcs
  <2>4. Planned(a, v) BY <2>1, PlanKept DEF Ready
  <2>5. AtHand(a, v)
    <3>1. Promises(o) => ~Idle(o) /\ OnTarget(a.write.row.inbound, o, v)
      BY <1>2, <2>1 DEF Ready, Planned
    <3>2. OnTarget(a.write.row.inbound, o, v) <=> OnTarget(a.write.row.inbound, a, v)
      BY <2>1 DEF OnTarget, TargetsIn
    <3>3. Promises(o) = Promises(a) /\ Idle(o) = Idle(a) BY <2>1 DEF Promises, Idle
    <3> QED BY <1>2, <2>1, <3>1, <3>2, <3>3 DEF AtHand
  <2>6. Drafts(a, v)
    <3>1. Owed(a, v) = TargetsIn(o, v) BY <2>1 DEF Owed, TargetsIn
    <3> QED BY <2>1, <3>1 DEF Drafts, Ready, Promises
  <2>7. Marks(a, v) BY <1>2, <2>1 DEF Marks, Ready
  <2>8. Serves(a, v)
    <3>1. ProvisionReady(o, v) BY <1>2 DEF Ready
    <3>2. a.user = o.user BY <2>1, <3>1 DEF ProvisionReady
    <3>3. Ensured(a, v) BY <2>1, <3>1 DEF ProvisionReady, Ensured
    <3>4. ASSUME NEW x \in Protocols PROVE a.default[x] # None /\ Awaited(a, x, v)
      BY <2>1, <3>1, <3>2 DEF ProvisionReady, Awaited
    <3>5. v.us[a.user].active /\ a.write.row.enabled /\ \A w \in a.pending : w.row.enabled
      BY <2>1, <3>1, <3>2 DEF ProvisionReady
    <3> QED BY <2>1, <3>1, <3>3, <3>4, <3>5 DEF Serves, ProvisionReady
  <2> QED BY <2>1, <2>3, <2>4, <2>5, <2>6, <2>7, <2>8 DEF Healthy
<1>3. CASE o.pending = {} /\ o.todo # {}
  <2>1. PICK t \in o.todo : a.user = t.id /\ a.todo = o.todo \ {t}
                            /\ a.userRow = PatchedUser(t.row, o.req.patch)
    BY <1>3, AdvanceFields
  <2>2. /\ a.pending = {} /\ a.todo \subseteq o.todo
        /\ a.pc = (IF o.req.patch.hard THEN "remove" ELSE "user")
        /\ a.req = o.req /\ a.alone = o.alone /\ a.failed = o.failed
        /\ a.stale = o.stale /\ a.dated = o.dated /\ a.servers = o.servers
    BY <1>3, <2>1, AdvanceFields
  <2>3. o.req.kind = "bulkUsers" BY <1>3 DEF Ready, Planned
  <2>4. Shape(a) BY <2>2, <2>3 DEF Shape, StepsOf
  <2>5. Planned(a, v) BY <2>2, PlanKept DEF Ready
  <2>6. AtHand(a, v)
    <3>1. Named(a.user, a, v) BY <2>1, <2>2, <2>3 DEF Ready, Planned, Named
    <3>2. Idle(a) => a.userRow = v.us[a.user]
      <4> SUFFICES ASSUME Idle(a) PROVE a.userRow = v.us[a.user] OBVIOUS
      <4>1. Idle(o) BY <2>2 DEF Idle
      <4>2. t.row = v.us[t.id] BY <4>1 DEF Ready, Planned
      <4>3. o.req.patch.name = None /\ o.req.patch.active = None
        BY <1>0, <2>3, <4>1 DEF Idle, ChangesRuntime, WellFormed
      <4>4. t.row \in UserRow BY <1>0 DEF Op
      <4> QED BY <2>1, <4>2, <4>3, <4>4, SameRow
    <3> QED BY <2>2, <2>3, <3>1, <3>2 DEF AtHand, Writing
  <2>7. Drafts(a, v)
    <3>1. Owed(a, v) = TargetsIn(o, v) BY <2>2 DEF Owed, TargetsIn
    <3> QED BY <2>2, <3>1 DEF Drafts, Ready, Promises
  <2>8. Marks(a, v) BY <2>2, <2>3 DEF Marks, Ready
  <2>9. Serves(a, v) BY <2>2, <2>3 DEF Serves
  <2> QED BY <2>2, <2>4, <2>5, <2>6, <2>7, <2>8, <2>9 DEF Healthy
<1>4. CASE o.pending = {} /\ o.todo = {}
  <2>1. a = Drafting(o, TargetsIn(o, v)) BY <1>4, AdvanceFields
  <2>2. TargetsIn(o, v) \subseteq Servers BY TargetsTyped
  <2>3. o.req.kind = "provision" =>
              /\ TargetsIn(o, v) # {} /\ TargetsIn(o, v) = {DefaultServer} /\ Ensured(o, v)
              /\ o.user \in DOMAIN v.us /\ v.us[o.user].active
              /\ \A x \in Protocols : Held(o.user, x, v)
    BY <1>4 DEF Ready, ProvisionReady, TargetsIn
  <2> QED BY <2>1, <2>2, <2>3, DraftingHealthy DEF Ready
<1> QED BY <1>1, <1>2, <1>3, <1>4

-----------------------------------------------------------------------------
(***************************************************************************)
(* The users that accesses refer to.                                       *)
(***************************************************************************)
LEMMA NotStoring ==
    ASSUME Tables, NEW o \in OpOK, o.pc # "idle"
    PROVE  /\ \A r \in Results : Answer(o, r).pc \notin {"store", "inbound"}
           /\ \A T \in SUBSET Servers : Drafting(o, T).pc \notin {"store", "inbound"}
           /\ \A a \in Advance(o) : a.pc \notin {"store", "inbound"}
           /\ \A a \in Marked(o) : a.pc \notin {"store", "inbound"}
           /\ Refused(o).pc \notin {"store", "inbound"}
           /\ AfterServerMark(o).pc \notin {"store", "inbound"}
<1>0. o \in Op /\ o.req \in Requests BY DEF OpOK
<1>1. \A r \in Results : Answer(o, r).pc \notin {"store", "inbound"} BY <1>0, AnswerFields
<1>2. ASSUME NEW T \in SUBSET Servers PROVE Drafting(o, T).pc \notin {"store", "inbound"} BY DraftingOK
<1>3. ASSUME NEW a \in Advance(o) PROVE a.pc \notin {"store", "inbound"}
  <2>1. a = Drafting(o, Targets(o)) => a.pc \notin {"store", "inbound"} BY <1>2, TargetsTyped
  <2> QED BY <2>1, AdvanceFields
<1>4. ASSUME NEW a \in Marked(o) PROVE a.pc \notin {"store", "inbound"}
  <2>1. [o EXCEPT !.pc = "list"].pc \notin {"store", "inbound"} BY <1>0 DEF Op
  <2> QED BY <1>3, <2>1 DEF Marked
<1>5. Refused(o).pc \notin {"store", "inbound"}
  <2>1. [o EXCEPT !.pc = "rollback"].pc \notin {"store", "inbound"} BY <1>0 DEF Op
  <2> QED BY <1>1, <2>1 DEF Refused, Results
<1>6. AfterServerMark(o).pc \notin {"store", "inbound"}
  <2>1. [o EXCEPT !.pc = "provide"].pc \notin {"store", "inbound"} BY <1>0 DEF Op
  <2>2. o.servers \subseteq Servers BY <1>0 DEF Op
  <2> QED BY <1>2, <2>1, <2>2 DEF AfterServerMark
<1> QED BY <1>1, <1>2, <1>3, <1>4, <1>5, <1>6

LEMMA IdsUsedBy ==
    ASSUME UInv, IdsUsed, NEW p \in Procs, NEW a, Go(p, a),
           usedIds \subseteq usedIds', DOMAIN users' \subseteq usedIds',
           DOMAIN inbounds' \subseteq usedIds',
           \A x \in DOMAIN access' : access'[x].user \in usedIds',
           a.pc = "store" => a.write.row.user \in usedIds',
           a.pc = "inbound" => a.req.inbound \in usedIds'
    PROVE  IdsUsed'
<1>1. op' = [op EXCEPT ![p] = a] /\ op \in [Procs -> OpOK] BY DEF Go, UInv
<1>2. ASSUME NEW q \in Procs
      PROVE  /\ op'[q].pc = "store" => op'[q].write.row.user \in usedIds'
             /\ op'[q].pc = "inbound" => op'[q].req.inbound \in usedIds'
  <2>1. CASE q = p BY <1>1, <2>1
  <2>2. CASE q # p
    <3>1. op'[q] = op[q] BY <1>1, <2>2
    <3> QED BY <3>1 DEF IdsUsed
  <2> QED BY <2>1, <2>2
<1> QED BY <1>2 DEF IdsUsed

LEMMA IdsUsedSame ==
    ASSUME UInv, IdsUsed, NEW p \in Procs, NEW a, Go(p, a), a.pc \notin {"store", "inbound"},
           UNCHANGED <<inbounds, users, access, usedIds>>
    PROVE  IdsUsed'
BY IdsUsedBy DEF IdsUsed

LEMMA IdsUsedFewer ==
    ASSUME UInv, IdsUsed, NEW p \in Procs, NEW a, Go(p, a), a.pc \notin {"store", "inbound"},
           NEW us, users' = Without(users, us), UNCHANGED <<inbounds, usedIds>>,
           access' = access \/ \E gone : access' = Without(access, gone)
    PROVE  IdsUsed'
<1>1. DOMAIN users' \subseteq DOMAIN users BY DEF Without, Restrict
<1>2. ASSUME NEW x \in DOMAIN access' PROVE x \in DOMAIN access /\ access'[x] = access[x]
  BY DEF Without, Restrict
<1> QED BY <1>1, <1>2, IdsUsedBy DEF IdsUsed

LEMMA IdsUsedAccesses ==
    ASSUME UInv, IdsUsed, NEW p \in Procs, NEW a, Go(p, a), a.pc \notin {"store", "inbound"},
           UNCHANGED <<users, usedIds>>, DOMAIN inbounds' \subseteq usedIds,
           access' = access \/ \E gone : access' = Without(access, gone)
    PROVE  IdsUsed'
<1>2. ASSUME NEW x \in DOMAIN access' PROVE x \in DOMAIN access /\ access'[x] = access[x]
  BY DEF Without, Restrict
<1> QED BY <1>2, IdsUsedBy DEF IdsUsed

LEMMA Stepping ==
    ASSUME UInv, NEW p \in Procs, Step(p)
    PROVE  /\ op[p] \in OpOK /\ op[p] \in Op /\ op[p].pc \notin {"idle", "done"} /\ ~Free(p)
           /\ op[p].req \in Requests /\ Tables
<1>1. ~Free(p)
  BY DEF Step, Free, At, LoadUser, LoadAccess, LoadInbound, ReadBulk, Collect, ReadRows,
         ListAccesses, WriteUser, ReadUserBack, MarkUser, RemoveUser, Batch, PrepareAccess,
         StoreAccess, ReadAccessBack, WithdrawAccess, WriteInbound, ReadInboundBack, DropInbound,
         MarkServer, EnsureInbounds, ProvideInbound, RollBack, RenderDocument,
         DraftServer, StatementFails
<1> QED BY <1>1, Going DEF Free

\* What ReadRows and ListAccesses leave to be written.
Reread(o) ==
    Replan(o, "rows", UserRows(o.req.users),
           Patched(o.req.accesses \cap DOMAIN access, o.req.patch),
           IF ChangesRuntime(o.req.patch) THEN o.servers ELSE {})

ToPatch(o) ==
    {a \in AccessesOf(o.user) :
        o.req.patch.profile \/ o.req.patch.to \notin {None, access[a].inbound}}

Move(o) == [NoPatch EXCEPT !.to = o.req.patch.to]
Listed(o) == [o EXCEPT !.pending = Patched(ToPatch(o), Move(o))]

SameButPlan(o, b) ==
    /\ b.req = o.req /\ b.pc = o.pc /\ b.user = o.user /\ b.alone = o.alone
    /\ b.failed = o.failed /\ b.stale = o.stale /\ b.dated = o.dated /\ b.default = o.default

LEMMA ReplanFields ==
    ASSUME NEW o \in Op, NEW pc, NEW todo, NEW pending, NEW servers, NEW b,
           b = Replan(o, pc, todo, pending, servers)
    PROVE  /\ b.pc = pc /\ b.todo = todo /\ b.pending = pending /\ b.servers = servers
           /\ b.req = o.req /\ b.user = o.user /\ b.alone = o.alone /\ b.failed = o.failed
           /\ b.stale = o.stale /\ b.dated = o.dated /\ b.default = o.default
BY DEF Replan, Op

LEMMA RereadOK ==
    ASSUME Tables, NEW o \in OpOK, o.pc = "rows"
    PROVE  LET b == Reread(o) IN
           /\ b \in OpOK /\ SameButPlan(o, b) /\ b.todo = UserRows(o.req.users)
           /\ b.pending = Patched(o.req.accesses \cap DOMAIN access, o.req.patch)
           /\ b.servers = IF ChangesRuntime(o.req.patch) THEN o.servers ELSE {}
<1> DEFINE todo == UserRows(o.req.users)
           pending == Patched(o.req.accesses \cap DOMAIN access, o.req.patch)
           servers == IF ChangesRuntime(o.req.patch) THEN o.servers ELSE {}
           b == Replan(o, "rows", todo, pending, servers)
<1>1. o \in Op /\ o.req.patch \in Patch BY RequestFacts DEF OpOK
<1>2. todo \in SUBSET [id : Users, row : UserRow] BY UserRowsTyped DEF Tables
<1>3. pending \in SUBSET Write BY <1>1, PatchedTyped DEF Tables
<1>4. servers \in SUBSET Servers BY <1>1 DEF Op
<1>5. Reread(o) = b BY DEF Reread
<1> HIDE DEF todo, pending, servers
<1>6. b \in OpOK BY <1>2, <1>3, <1>4, Replanned
<1>7. SameButPlan(o, b) /\ b.todo = todo /\ b.pending = pending /\ b.servers = servers
  BY <1>1, ReplanFields DEF SameButPlan
<1> HIDE DEF b
<1> QED BY <1>5, <1>6, <1>7 DEF todo, pending, servers

(* The plans of ReadRows are those of the request as it is read. *)
LEMMA RowsRead ==
    ASSUME Tables, NEW p \in Procs, op[p] \in Op, ReadRows(p)
    PROVE  \E a \in Advance(Reread(op[p])) : Go(p, a)
<1> DEFINE o == op[p]
<1>1. [o EXCEPT !.servers = IF ChangesRuntime(o.req.patch) THEN @ ELSE {},
                !.todo = UserRows(o.req.users),
                !.pending = Patched(o.req.accesses \cap DOMAIN access, o.req.patch)] = Reread(o)
  BY DEF Op, Replan, Reread, ReadRows, At
<1> QED BY <1>1 DEF ReadRows, GoTo

LEMMA ListedOK ==
    ASSUME Tables, NEW o \in OpOK, o.pc = "list"
    PROVE  LET b == Listed(o) IN
           /\ b \in OpOK /\ SameButPlan(o, b) /\ b.servers = o.servers /\ b.todo = o.todo
           /\ b.pending = Patched(ToPatch(o), Move(o))
<1> DEFINE pending == Patched(ToPatch(o), Move(o))
           b == [o EXCEPT !.pending = pending]
<1>1. o \in Op /\ o.req \in Requests /\ o.req.patch \in Patch /\ o.req.kind # "provision"
  BY RequestFacts DEF OpOK, ProvisionPcs
<1>2. Move(o) \in Patch BY <1>1 DEF Patch, NoPatch, Move
<1>3. pending \in SUBSET Write BY <1>2, PatchedTyped DEF Tables, ToPatch, AccessesOf
<1>4. Listed(o) = b BY DEF Listed
<1> HIDE DEF pending
<1>5. /\ b \in Op /\ SameButPlan(o, b) /\ b.servers = o.servers
      /\ b.todo = o.todo /\ b.pending = pending
  BY <1>1, <1>3 DEF Op, SameButPlan
<1> HIDE DEF b
<1>6. b \in OpOK BY <1>1, <1>5 DEF OpOK, SameButPlan
<1> QED BY <1>4, <1>5, <1>6 DEF pending

LEMMA IdsUsedReads ==
    ASSUME UInv, IdsUsed, NEW p \in Procs, Step(p),
           \/ LoadUser(p) \/ LoadAccess(p) \/ LoadInbound(p) \/ ReadBulk(p) \/ Collect(p)
           \/ ReadRows(p) \/ ListAccesses(p)
    PROVE  IdsUsed'
<1> DEFINE o == op[p]
<1>0. o \in OpOK /\ o \in Op /\ o.pc # "idle" /\ Tables /\ o.req.kind \in Kinds
      /\ o.req.patch \in Patch /\ o.req \in Requests
  BY Stepping, RequestFacts
<1>1. UNCHANGED <<inbounds, users, access, usedIds>>
  BY DEF LoadUser, LoadAccess, LoadInbound, ReadBulk, Collect, ReadRows, ListAccesses, rows
<1>2. \A r \in Results : Answer(o, r).pc \notin {"store", "inbound"} BY <1>0, NotStoring
<1>3. CASE LoadUser(p)
  <2>1. PICK a : Go(p, a) /\ (a = Answer(o, "error")
                              \/ \E row : a = [o EXCEPT !.pc = "user", !.userRow = row])
    BY <1>3 DEF LoadUser
  <2>2. a.pc \notin {"store", "inbound"} BY <1>0, <1>2, <2>1 DEF Op, Results
  <2> QED BY <1>1, <2>1, <2>2, IdsUsedSame
<1>4. CASE LoadAccess(p)
  <2> DEFINE row == access[o.req.access]
             b == [o EXCEPT !.pc = "withdraw", !.user = row.user,
                            !.write = [id |-> o.req.access, row |-> row],
                            !.servers = {inbounds[row.inbound].server}]
  <2>1. Go(p, Answer(o, "error")) \/ Go(p, b) BY <1>4 DEF LoadAccess
  <2>2. b.pc \notin {"store", "inbound"} BY <1>0 DEF Op
  <2> HIDE DEF b
  <2> QED BY <1>1, <1>2, <2>1, <2>2, IdsUsedSame DEF Results
<1>5. CASE LoadInbound(p)
  <2> DEFINE row == inbounds[o.req.inbound]
             b == [o EXCEPT !.pc = IF o.req.kind = "updateInbound" THEN "inbound" ELSE "drop",
                            !.inboundRow = PatchedInbound(row, o.req.patch),
                            !.servers = {row.server}]
  <2>1. CASE o.req.inbound \in DOMAIN inbounds
    <3>1. Go(p, b) BY <1>5, <2>1 DEF LoadInbound
    <3>2. b.pc # "store" /\ b.req = o.req BY <1>0 DEF Op
    <3> HIDE DEF b
    <3> QED BY <1>1, <2>1, <3>1, <3>2, IdsUsedBy DEF IdsUsed
  <2>2. CASE o.req.inbound \notin DOMAIN inbounds
    <3>1. Go(p, Answer(o, "error")) BY <1>5, <2>2 DEF LoadInbound
    <3> QED BY <1>1, <1>2, <3>1, IdsUsedSame DEF Results
  <2> QED BY <2>1, <2>2
<1>6. CASE ReadBulk(p)
  <2> DEFINE todo == UserRows(o.req.users)
             pending == Patched(o.req.accesses \cap DOMAIN access, NoPatch)
             b == [o EXCEPT !.pc = "impact", !.todo = todo, !.pending = pending]
  <2>1. Go(p, b) BY <1>6 DEF ReadBulk
  <2> HIDE DEF todo, pending
  <2>2. b.pc \notin {"store", "inbound"} BY <1>0 DEF Op
  <2> HIDE DEF b
  <2> QED BY <1>1, <2>1, <2>2, IdsUsedSame
<1>8. CASE Collect(p)
  <2>0. o.pc = "impact" BY <1>8 DEF Collect, At
  <2>1. ASSUME NEW rest, NEW more, \/ Go(p, [o EXCEPT !.pending = rest, !.servers = more])
                                   \/ Go(p, [o EXCEPT !.todo = rest, !.pending = more])
                                   \/ Go(p, [o EXCEPT !.pc = "rows", !.servers = more])
        PROVE  IdsUsed'
    <3>1. /\ [o EXCEPT !.pending = rest, !.servers = more].pc \notin {"store", "inbound"}
          /\ [o EXCEPT !.todo = rest, !.pending = more].pc \notin {"store", "inbound"}
          /\ [o EXCEPT !.pc = "rows", !.servers = more].pc \notin {"store", "inbound"}
      BY <1>0, <2>0 DEF Op
    <3> QED BY <1>1, <2>1, <3>1, IdsUsedSame
  <2>2. \/ \E w \in o.pending : Go(p, [o EXCEPT !.pending = o.pending \ {w},
                                   !.servers = o.servers \cup ServersOf(w.row.inbound)])
        \/ \E t \in o.todo : Go(p, [o EXCEPT !.todo = o.todo \ {t},
                                   !.pending = Patched(AccessesOf(t.id), NoPatch)])
        \/ Go(p, [o EXCEPT !.pc = "rows", !.servers = o.servers \cup ServersOf(o.req.patch.to)])
    BY <1>8, Zenon DEF Collect
  <2> QED BY <2>1, <2>2, ZenonT(20)
<1>9. CASE ReadRows(p)
  <2>1. PICK a \in Advance(Reread(o)) : Go(p, a) BY <1>0, <1>9, RowsRead
  <2>2. o.pc = "rows" BY <1>9 DEF ReadRows, At
  <2>3. Reread(o) \in OpOK /\ Reread(o).pc # "idle"
    BY <1>0, <2>2, RereadOK DEF SameButPlan
  <2>4. a.pc \notin {"store", "inbound"} BY <1>0, <2>1, <2>3, NotStoring
  <2> QED BY <1>1, <2>1, <2>4, IdsUsedSame
<1>7. CASE ListAccesses(p)
  <2>1. PICK a \in Advance(Listed(o)) : Go(p, a)
    BY <1>7 DEF ListAccesses, GoTo, Listed, ToPatch, Move
  <2>2. o.pc = "list" BY <1>7 DEF ListAccesses, At
  <2>3. Listed(o) \in OpOK /\ Listed(o).pc # "idle"
    BY <1>0, <2>2, ListedOK DEF SameButPlan
  <2>4. a.pc \notin {"store", "inbound"} BY <1>0, <2>1, <2>3, NotStoring
  <2> QED BY <1>1, <2>1, <2>4, IdsUsedSame
<1> QED BY <1>3, <1>4, <1>5, <1>6, <1>7, <1>8, <1>9

(* The row that was written is read back, or it is gone. *)
LEMMA IdsUsedReadBack ==
    ASSUME UInv, IdsUsed, NEW p \in Procs, Step(p),
           ReadUserBack(p) \/ ReadAccessBack(p) \/ ReadInboundBack(p)
    PROVE  IdsUsed'
<1> DEFINE o == op[p]
<1>0. o \in OpOK /\ o \in Op /\ o.pc # "idle" /\ Tables BY Stepping
<1>1. Answer(o, "error").pc \notin {"store", "inbound"} /\ Refused(o).pc \notin {"store", "inbound"}
  BY <1>0, NotStoring DEF Results
<1>2. ASSUME NEW pc, pc \notin {"store", "inbound"}
      PROVE  [o EXCEPT !.pc = pc].pc \notin {"store", "inbound"}
  BY <1>0, <1>2 DEF Op
<1>3. \E a \in {Answer(o, "error"), Refused(o), [o EXCEPT !.pc = "mark"],
                [o EXCEPT !.pc = "markServer"]} : Go(p, a)
  BY DEF ReadUserBack, ReadAccessBack, ReadInboundBack
<1>4. UNCHANGED <<inbounds, users, access, usedIds>>
  BY DEF ReadUserBack, ReadAccessBack, ReadInboundBack, rows
<1> QED BY <1>1, <1>2, <1>3, <1>4, IdsUsedSame

LEMMA IdsUsedUsers ==
    ASSUME UInv, IdsUsed, NEW p \in Procs, Step(p),
           WriteUser(p) \/ MarkUser(p) \/ RemoveUser(p) \/ Batch(p) \/ RollBack(p)
    PROVE  IdsUsed'
<1> DEFINE o == op[p]
<1>0. o \in OpOK /\ o \in Op /\ o.pc # "idle" /\ Tables BY Stepping
<1>1. \A r \in Results : Answer(o, r).pc \notin {"store", "inbound"} BY <1>0, NotStoring
<1>2. CASE WriteUser(p)
  <2>1. PICK u : IF NameTaken(u, o.userRow.name)
                 THEN Go(p, Answer(o, "error")) /\ UNCHANGED <<users, usedIds>>
                 ELSE /\ users' = Put(users, u, o.userRow)
                      /\ usedIds' = usedIds \cup {u}
                      /\ Go(p, [o EXCEPT !.pc = "userBack", !.user = u,
                                         !.pending = IF o.req.kind = "provision"
                                                     THEN Provisioned(o, u) ELSE {}])
    BY <1>2 DEF WriteUser
  <2>2. access' = access /\ inbounds' = inbounds BY <1>2 DEF WriteUser
  <2>3. CASE NameTaken(u, o.userRow.name)
    BY <1>1, <2>1, <2>2, <2>3, IdsUsedSame DEF Results
  <2>4. CASE ~NameTaken(u, o.userRow.name)
    <3> DEFINE ws == IF o.req.kind = "provision" THEN Provisioned(o, u) ELSE {}
               b == [o EXCEPT !.pc = "userBack", !.user = u, !.pending = ws]
    <3>1. Go(p, b) BY <2>1, <2>4
    <3> HIDE DEF ws
    <3>2. b.pc \notin {"store", "inbound"} BY <1>0 DEF Op
    <3> HIDE DEF b
    <3>3. DOMAIN users' = DOMAIN users \cup {u} BY <2>1, <2>4 DEF Put
    <3>4. usedIds' = usedIds \cup {u} BY <2>1, <2>4
    <3> QED BY <2>2, <3>1, <3>2, <3>3, <3>4, IdsUsedBy DEF IdsUsed
  <2> QED BY <2>3, <2>4
<1>3. CASE MarkUser(p)
  <2>1. PICK a \in Marked(o) : Go(p, a) BY <1>3 DEF MarkUser, GoTo
  <2>2. a.pc \notin {"store", "inbound"} BY <1>0, <2>1, NotStoring
  <2> QED BY <1>3, <2>1, <2>2, IdsUsedSame DEF MarkUser, rows
<1>4. CASE RemoveUser(p)
  <2>1. CASE o.user \in DOMAIN users
    <3>1. PICK a \in Advance(o) : Go(p, a) BY <1>4, <2>1 DEF RemoveUser, GoTo
    <3>2. a.pc \notin {"store", "inbound"} BY <1>0, <3>1, NotStoring
    <3>3. PICK fk \in ForeignKeys : RemoveUsers({o.user}, fk) BY <1>4, <2>1 DEF RemoveUser
    <3>4. usedIds' = usedIds /\ inbounds' = inbounds BY <1>4 DEF RemoveUser
    <3> QED BY <3>1, <3>2, <3>3, <3>4, IdsUsedFewer DEF RemoveUsers
  <2>2. CASE o.user \notin DOMAIN users
    BY <1>1, <1>4, <2>2, IdsUsedSame DEF RemoveUser, Results
  <2> QED BY <2>1, <2>2
<1>5. CASE Batch(p)
  <2>0. Go(p, Answer(o, "ok")) /\ usedIds' = usedIds /\ inbounds' = inbounds
    BY <1>5 DEF Batch
  <2>1. CASE o.req.kind = "bulkDelete"
    <3>1. PICK fk \in ForeignKeys : RemoveUsers(o.req.users \cap DOMAIN users, fk)
      BY <1>5, <2>1 DEF Batch
    <3> QED BY <1>1, <2>0, <3>1, IdsUsedFewer DEF RemoveUsers, Results
  <2>2. CASE o.req.kind # "bulkDelete"
    <3>1. DOMAIN users' = DOMAIN users /\ access' = access BY <1>5, <2>2 DEF Batch
    <3> QED BY <1>1, <2>0, <3>1, IdsUsedBy DEF IdsUsed, Results
  <2> QED BY <2>1, <2>2
<1>6. CASE RollBack(p)
  <2>1. PICK fk \in ForeignKeys : RemoveUsers({o.user}, fk) BY <1>6 DEF RollBack
  <2>2. Go(p, Answer(o, "error")) /\ usedIds' = usedIds /\ inbounds' = inbounds
    BY <1>6 DEF RollBack
  <2> QED BY <1>1, <2>1, <2>2, IdsUsedFewer DEF RemoveUsers, Results
<1> QED BY <1>2, <1>3, <1>4, <1>5, <1>6

LEMMA IdsUsedStores ==
    ASSUME UInv, IdsUsed, NEW p \in Procs, Step(p),
           PrepareAccess(p) \/ StoreAccess(p) \/ WithdrawAccess(p)
    PROVE  IdsUsed'
<1> DEFINE o == op[p]
           w == o.write
<1>0. o \in OpOK /\ o \in Op /\ o.pc # "idle" /\ Tables BY Stepping
<1>1. Answer(o, "error").pc \notin {"store", "inbound"} /\ Refused(o).pc \notin {"store", "inbound"}
  BY <1>0, NotStoring DEF Results
<1>7. /\ [o EXCEPT !.pc = "mark"].pc \notin {"store", "inbound"}
      /\ [o EXCEPT !.pc = "accessBack"].pc \notin {"store", "inbound"}
  BY <1>0 DEF Op
<1>2. CASE PrepareAccess(p)
  <2>1. UNCHANGED <<inbounds, users, access, usedIds>> /\ o.pc = "prepare"
    BY <1>2 DEF PrepareAccess, At
  <2>2. CASE w.row.inbound \in DOMAIN inbounds /\ w.row.user \in DOMAIN users
    <3> DEFINE protocol == inbounds[w.row.inbound].protocol
               row == IF o.req.patch.rotate THEN Emptied(w.row, protocol) ELSE w.row
               kept == Kept(row, protocol)
               secret == IF row[protocol] # 0 THEN row[protocol]
                         ELSE IF kept # {} THEN CHOOSE k \in kept : TRUE ELSE secrets + 1
               credited == [row EXCEPT ![protocol] = secret, ![Other(protocol)] = 0]
               b == [o EXCEPT !.pc = "store", !.write.row = credited]
    <3>1. Go(p, b) BY <1>2, <2>2 DEF PrepareAccess
    <3>2. inbounds[w.row.inbound] \in InboundRow BY <1>0, <2>2, RowOfTable DEF Tables, Rows
    <3>3. protocol \in Protocols BY <3>2 DEF InboundRow
    <3>4. w \in Write /\ w.row \in AccessRow BY <1>0, <2>1 DEF OpOK, Write
    <3>5. protocol # "user" /\ Other(protocol) # "user" BY <3>3 DEF Protocols, Other
    <3> HIDE DEF protocol
    <3>6. row \in [DOMAIN row -> {row[k] : k \in DOMAIN row}] /\ row.user = w.row.user
          /\ "user" \in DOMAIN row
      BY <3>4, <3>5 DEF Emptied, AccessRow
    <3> HIDE DEF row, kept
    <3>7. credited.user = w.row.user BY <3>5, <3>6
    <3> HIDE DEF credited, secret
    <3>8. b.write.row = credited /\ b.pc = "store" BY <1>0, <3>4 DEF Op, Write
    <3> HIDE DEF b
    <3>9. b.write.row.user \in DOMAIN users BY <2>2, <3>7, <3>8
    <3> QED BY <2>1, <3>1, <3>8, <3>9, IdsUsedBy DEF IdsUsed
  <2>3. CASE ~(w.row.inbound \in DOMAIN inbounds /\ w.row.user \in DOMAIN users)
    <3>1. Go(p, Refused(o)) BY <1>2, <2>3 DEF PrepareAccess
    <3> QED BY <1>1, <2>1, <3>1, IdsUsedSame
  <2> QED BY <2>2, <2>3
<1>3. CASE StoreAccess(p)
  <2>0. users' = users /\ inbounds' = inbounds /\ o.pc = "store"
    BY <1>3 DEF StoreAccess, At
  <2>1. w.row.user \in usedIds BY <2>0 DEF IdsUsed
  <2>2. CASE /\ access' = [a \in DOMAIN access |-> IF a \in PairOf(w.row) THEN w.row ELSE access[a]]
             /\ Go(p, [o EXCEPT !.pc = "accessBack"]) /\ UNCHANGED usedIds
    <3>1. ASSUME NEW a \in DOMAIN access' PROVE access'[a].user \in usedIds
      BY <2>1, <2>2 DEF IdsUsed
    <3> QED BY <1>7, <2>0, <2>2, <3>1, IdsUsedBy DEF IdsUsed
  <2>3. CASE \E a : /\ access' = Put(access, a, w.row)
                    /\ usedIds' = usedIds \cup {a} /\ Go(p, [o EXCEPT !.pc = "accessBack"])
    <3>1. ASSUME NEW a \in DOMAIN access' PROVE access'[a].user \in usedIds'
      BY <2>1, <2>3 DEF IdsUsed, Put
    <3> QED BY <1>7, <2>0, <2>3, <3>1, IdsUsedBy DEF IdsUsed
  <2>4. CASE Go(p, Refused(o)) /\ UNCHANGED <<access, usedIds>>
    BY <1>1, <2>0, <2>4, IdsUsedSame
  <2> QED BY <1>3, <2>2, <2>3, <2>4 DEF StoreAccess
<1>4. CASE WithdrawAccess(p)
  <2>1. UNCHANGED <<inbounds, users, usedIds>> BY <1>4 DEF WithdrawAccess
  <2>2. \/ Go(p, [o EXCEPT !.pc = "mark"]) /\ access' = Without(access, {w.id})
        \/ Go(p, Answer(o, "error")) /\ access' = access
    BY <1>4 DEF WithdrawAccess
  <2> QED BY <1>1, <1>7, <2>1, <2>2, IdsUsedAccesses DEF IdsUsed
<1> QED BY <1>2, <1>3, <1>4

LEMMA IdsUsedInbounds ==
    ASSUME UInv, IdsUsed, NEW p \in Procs, Step(p),
           \/ WriteInbound(p) \/ DropInbound(p) \/ MarkServer(p) \/ EnsureInbounds(p)
           \/ ProvideInbound(p) \/ RenderDocument(p) \/ DraftServer(p) \/ StatementFails(p)
    PROVE  IdsUsed'
<1> DEFINE o == op[p]
<1>0. o \in OpOK /\ o \in Op /\ o.pc # "idle" /\ Tables /\ o.req.kind \in Kinds
  BY Stepping, RequestFacts
<1>1. Answer(o, "error").pc \notin {"store", "inbound"} /\ Answer(o, "ok").pc \notin {"store", "inbound"}
  BY <1>0, NotStoring DEF Results
<1>2. ASSUME NEW pc, pc \notin {"store", "inbound"} PROVE [o EXCEPT !.pc = pc].pc \notin {"store", "inbound"} BY <1>0, <1>2 DEF Op
<1>3. CASE WriteInbound(p)
  <2>1. UNCHANGED <<users, access, usedIds>> /\ o.pc = "inbound" BY <1>3 DEF WriteInbound, At
  <2>2. o.req.inbound \in usedIds BY <2>1 DEF IdsUsed
  <2>3. DOMAIN inbounds' \subseteq usedIds BY <1>3, <2>2 DEF WriteInbound, Put, IdsUsed
  <2>4. Go(p, [o EXCEPT !.pc = "inboundBack"]) \/ Go(p, Answer(o, "error"))
    BY <1>3 DEF WriteInbound
  <2> QED BY <1>1, <1>2, <2>1, <2>3, <2>4, IdsUsedAccesses
<1>4. CASE DropInbound(p)
  <2>1. UNCHANGED <<users, usedIds>> BY <1>4 DEF DropInbound
  <2>2. Go(p, [o EXCEPT !.pc = "markServer"]) \/ Go(p, Answer(o, "error"))
    BY <1>4 DEF DropInbound
  <2>3. access' = access \/ \E gone : access' = Without(access, gone) BY <1>4 DEF DropInbound
  <2>4. DOMAIN inbounds' \subseteq usedIds BY <1>4 DEF DropInbound, Without, Restrict, IdsUsed
  <2> QED BY <1>1, <1>2, <2>1, <2>2, <2>3, <2>4, IdsUsedAccesses
<1>5. CASE MarkServer(p)
  <2>1. Go(p, AfterServerMark(o)) BY <1>5 DEF MarkServer
  <2>2. AfterServerMark(o).pc \notin {"store", "inbound"} BY <1>0, NotStoring
  <2> QED BY <1>5, <2>1, <2>2, IdsUsedSame DEF MarkServer, rows
<1>6. CASE EnsureInbounds(p)
  <2>1. PICK d : Go(p, [o EXCEPT !.pc = "provide", !.default = d, !.servers = {DefaultServer}])
    BY <1>6 DEF EnsureInbounds
  <2>2. [o EXCEPT !.pc = "provide", !.default = d, !.servers = {DefaultServer}].pc \notin {"store", "inbound"}
    BY <1>0 DEF Op
  <2> QED BY <1>6, <2>1, <2>2, IdsUsedSame DEF EnsureInbounds, rows
<1>7. CASE ProvideInbound(p)
  <2>1. UNCHANGED <<users, access>> BY <1>7 DEF ProvideInbound
  <2>2. CASE Go(p, [o EXCEPT !.pc = "user"]) /\ UNCHANGED <<inbounds, usedIds>>
    BY <1>2, <2>1, <2>2, IdsUsedSame
  <2>3. CASE Go(p, Answer(o, "error")) /\ UNCHANGED <<inbounds, usedIds>>
    BY <1>1, <2>1, <2>3, IdsUsedSame
  <2>4. CASE \E i, x : /\ inbounds' = Put(inbounds, i, DefaultInbound(x))
                       /\ usedIds' = usedIds \cup {i}
                       /\ Go(p, [o EXCEPT !.pc = "inboundBack", !.default[x] = i,
                                          !.inboundRow = DefaultInbound(x)])
    <3>1. PICK i, x : /\ inbounds' = Put(inbounds, i, DefaultInbound(x))
                      /\ usedIds' = usedIds \cup {i}
                      /\ Go(p, [o EXCEPT !.pc = "inboundBack", !.default[x] = i,
                                          !.inboundRow = DefaultInbound(x)])
      BY <2>4
    <3>2. [o EXCEPT !.pc = "inboundBack", !.default[x] = i,
                    !.inboundRow = DefaultInbound(x)].pc \notin {"store", "inbound"}
      BY <1>0 DEF Op
    <3>3. DOMAIN inbounds' \subseteq usedIds' BY <3>1 DEF Put, IdsUsed
    <3> QED BY <2>1, <3>1, <3>2, <3>3, IdsUsedBy DEF IdsUsed
  <2> QED BY <1>7, <2>2, <2>3, <2>4 DEF ProvideInbound
<1>8. CASE RenderDocument(p)
  <2>1. Go(p, Answer(o, "ok")) \/ Go(p, Answer(o, "error")) BY <1>8 DEF RenderDocument
  <2> QED BY <1>1, <1>8, <2>1, IdsUsedSame DEF RenderDocument, rows
<1>9. CASE DraftServer(p)
  <2>1. PICK s \in o.servers : Go(p, Drafting(o, o.servers \ {s})) BY <1>9 DEF DraftServer
  <2>2. o.servers \ {s} \in SUBSET Servers BY <1>0 DEF Op
  <2>3. Drafting(o, o.servers \ {s}).pc \notin {"store", "inbound"} BY <1>0, <2>2, NotStoring
  <2> QED BY <1>9, <2>1, <2>3, IdsUsedSame DEF DraftServer, rows
<1>10. CASE StatementFails(p)
  <2> DEFINE b == [o EXCEPT !.failed = @ + 1]
  <2>1. PICK a \in AfterFailure(b) : Go(p, a) BY <1>10 DEF StatementFails, GoTo
  <2>2. b \in Op /\ b.pc = o.pc BY <1>0 DEF Op
  <2>3. b.req = o.req /\ b.userRow = o.userRow /\ b.write = o.write
        /\ b.inboundRow = o.inboundRow /\ b.todo = o.todo /\ b.default = o.default
    BY <1>0 DEF Op
  <2> HIDE DEF b
  <2>4. b \in OpOK BY <1>0, <2>2, <2>3 DEF OpOK
  <2>5. /\ \A r \in Results : Answer(b, r).pc \notin {"store", "inbound"}
        /\ \A x \in Marked(b) : x.pc \notin {"store", "inbound"}
        /\ Refused(b).pc \notin {"store", "inbound"} /\ AfterServerMark(b).pc \notin {"store", "inbound"}
    BY <1>0, <2>2, <2>4, NotStoring
  <2>6. ASSUME b.pc = "impact", NEW rest
        PROVE  /\ [b EXCEPT !.pending = rest].pc \notin {"store", "inbound"}
               /\ [b EXCEPT !.pc = "rows"].pc \notin {"store", "inbound"}
    BY <2>2, <2>6 DEF Op
  <2>7. a.pc \notin {"store", "inbound"}
    <3>8. CASE b.pc = "impact"
      <4>1. CASE b.pending # {}
        <5>1. PICK w \in b.pending : a = [b EXCEPT !.pending = b.pending \ {w}]
          BY <2>1, <3>8, <4>1 DEF AfterFailure
        <5> QED BY <2>6, <3>8, <5>1
      <4>2. CASE b.pending = {}
        <5>1. a = [b EXCEPT !.pc = "rows"] \/ a = Refused(b)
          BY <2>1, <3>8, <4>2 DEF AfterFailure
        <5> QED BY <2>5, <2>6, <3>8, <5>1
      <4> QED BY <4>1, <4>2
    <3>9. CASE b.pc # "impact"
      <4>1. AfterFailure(b) = (CASE b.pc = "mark" -> Marked(b)
                                 [] b.pc = "markServer" -> {AfterServerMark(b)}
                                 [] b.pc = "userBack" -> {Answer(b, "unread")}
                                 [] b.pc = "draft" -> {Answer(b, "undrafted")}
                                 [] OTHER -> {Refused(b)})
        BY <3>9 DEF AfterFailure
      <4>2. \/ a \in Marked(b) \/ a = AfterServerMark(b) \/ a = Refused(b)
            \/ a = Answer(b, "unread") \/ a = Answer(b, "undrafted")
        BY <2>1, <4>1
      <4>3. "unread" \in Results /\ "undrafted" \in Results BY DEF Results
      <4> QED BY <2>5, <4>2, <4>3
    <3> QED BY <3>8, <3>9
  <2> QED BY <1>10, <2>1, <2>7, IdsUsedSame DEF StatementFails, rows
<1> QED BY <1>3, <1>4, <1>5, <1>6, <1>7, <1>8, <1>9, <1>10

LEMMA IdsUsedKeeps ==
    ASSUME UInv, IdsUsed, NEW p \in Procs, Step(p) PROVE IdsUsed'
BY IdsUsedReads, IdsUsedReadBack, IdsUsedUsers, IdsUsedStores, IdsUsedInbounds DEF Step

-----------------------------------------------------------------------------
(***************************************************************************)
(* Steps of a calm request.                                                *)
(***************************************************************************)
LEMMA Calmly ==
    ASSUME HInv, NEW p \in Procs, op[p].pc \notin {"idle", "done"}
    PROVE  /\ op[p] \in OpOK /\ op[p] \in Op /\ op[p].req \in Requests /\ ~Free(p)
           /\ op[p].req \in Request /\ op[p].req.patch \in Patch /\ WellFormed(op[p].req)
           /\ op[p].req.kind \in Kinds /\ Tables /\ Rows
           /\ Provisioning(op[p], DOMAIN users, DOMAIN inbounds, access)
           /\ Calm(op[p]) => /\ Shape(op[p]) /\ AtHand(op[p], Now) /\ Drafts(op[p], Now)
                             /\ Marks(op[p], Now) /\ Serves(op[p], Now)
                             /\ op[p].pc \in {"impact", "rows"} => Surveyed(op[p], Now)
                             /\ op[p].pc \notin {"read", "impact", "rows", "draft", "done"}
                                   => Planned(op[p], Now)
<1>1. UInv /\ Healthy(op[p], Now) BY DEF HInv
<1>2. /\ op[p] \in OpOK /\ op[p] \in Op /\ op[p].req \in Requests /\ ~Free(p)
      /\ op[p].req \in Request /\ op[p].req.patch \in Patch /\ WellFormed(op[p].req)
      /\ op[p].req.kind \in Kinds /\ Tables
      /\ Provisioning(op[p], DOMAIN users, DOMAIN inbounds, access)
  BY <1>1, Going
<1> QED BY <1>1, <1>2 DEF Healthy, Tables

LEMMA NextTyped ==
    ASSUME UInv' PROVE Tables' /\ Now'.stale \subseteq Servers
BY DEF UInv, Now, Stale

LEMMA ErrorCarries ==
    ASSUME HInv, UInv', IdsUsed', NEW p \in Procs, op[p].pc \notin {"idle", "done"},
           Go(p, Answer(op[p], "error")),
           Calm(op[p]) /\ op[p].req.kind = "provision" => Cause(op[p], Now')
    PROVE  HInv'
<1> DEFINE a == Answer(op[p], "error")
<1>1. op[p] \in Op /\ op[p].req \in Requests /\ ~Free(p) BY Calmly
<1>2. a.alone = op[p].alone BY <1>1, AnswerFields DEF Results
<1>3. Healthy(a, Now') BY <1>1, NextTyped, ErrorHealthy
<1> HIDE DEF a
<1>4. Go(p, a) BY DEF a
<1> QED BY <1>1, <1>2, <1>3, <1>4, Carries

LEMMA AdvanceCarries ==
    ASSUME HInv, UInv', IdsUsed', NEW p \in Procs, ~Free(p),
           NEW b \in OpOK, b.pc # "idle", b.alone = op[p].alone,
           Calm(b) => Ready(b, Now') /\ Targets(b) = TargetsIn(b, Now'),
           NEW a \in Advance(b), Go(p, a)
    PROVE  HInv'
<1>1. Tables BY DEF HInv, UInv
<1>2. Keeps(b, a) BY <1>1, AdvanceOK
<1>3. Healthy(a, Now')
  <2>1. CASE Calm(b) BY <1>1, <2>1, AdvanceHealthy
  <2>2. CASE ~Calm(b) BY <1>2, <2>2 DEF Healthy, Calm, Keeps
  <2> QED BY <2>1, <2>2
<1> QED BY <1>2, <1>3, Carries DEF Keeps

(* Nothing that a request promises depends on where it is, as long as it does not mark. *)
LEMMA MovesOn ==
    ASSUME NEW o, NEW a, NEW v, a.req = o.req, a.stale = o.stale, a.dated = o.dated,
           a.servers = o.servers,
           o.pc \notin {"draft", "done", "userBack", "accessBack", "mark", "inboundBack",
                        "markServer", "impact", "rows"},
           a.pc \notin {"draft", "done", "userBack", "accessBack", "mark", "inboundBack",
                        "markServer", "impact", "rows"},
           Drafts(o, v), Marks(o, v)
    PROVE  Drafts(a, v) /\ Marks(a, v)
<1>1. Owed(a, v) = TargetsIn(o, v) /\ Owed(o, v) = TargetsIn(o, v) BY DEF Owed, TargetsIn
<1>2. ToMark(a, v) = {} /\ ToMark(o, v) = {} BY DEF ToMark
<1> QED BY <1>1, <1>2 DEF Drafts, Marks, Promises

(* The row that was written is still to be marked after it has been read back. *)
LEMMA ReadsBack ==
    ASSUME NEW o, NEW a, NEW v, a.req = o.req, a.stale = o.stale, a.dated = o.dated,
           a.servers = o.servers, a.user = o.user,
           \/ o.pc \in {"userBack", "accessBack"} /\ a.pc = "mark"
           \/ o.pc = "inboundBack" /\ a.pc = "markServer",
           Drafts(o, v), Marks(o, v)
    PROVE  Drafts(a, v) /\ Marks(a, v)
<1>1. Owed(a, v) = TargetsIn(o, v) /\ Owed(o, v) = TargetsIn(o, v) BY DEF Owed, TargetsIn
<1>2. ToMark(a, v) = ToMark(o, v) BY DEF ToMark
<1> QED BY <1>1, <1>2 DEF Drafts, Marks, Promises

LEMMA NowSame ==
    ASSUME UNCHANGED <<inbounds, users, access, drafted, fresh>> PROVE Now' = Now
BY StaleSame, DatedSame DEF Now

LEMMA TargetsAre == ASSUME NEW o, NEW v, v.ins = inbounds PROVE Targets(o) = TargetsIn(o, v)
BY DEF Targets, TargetsIn

-----------------------------------------------------------------------------
(***************************************************************************)
(* Beginnings and crashes.                                                 *)
(***************************************************************************)
LEMMA NoOpHealthy == ASSUME NEW v PROVE Healthy(NoOp, v)
BY DEF Healthy, Calm, NoOp

LEMMA InitHealthy == ASSUME Init PROVE HInv
<1>1. UInv BY InitInv
<1>2. \A p \in Procs : op[p] = NoOp BY DEF Init
<1>3. IdsUsed
  <2>1. \A p \in Procs : op[p].pc = "idle" BY <1>2 DEF NoOp
  <2>2. ASSUME NEW a \in DOMAIN access PROVE access[a].user \in usedIds BY DEF Init
  <2> QED BY <2>1, <2>2 DEF Init, IdsUsed
<1> QED BY <1>1, <1>2, <1>3, NoOpHealthy DEF HInv

LEMMA DecodedFields ==
    ASSUME NEW r \in Requests
    PROVE  /\ Decoded(r).req = r /\ Decoded(r).pc = FirstPc(r.kind) /\ Decoded(r).user = r.user
           /\ r.kind = "provision" =>
                 Decoded(r).userRow = [name |-> r.patch.name, active |-> TRUE]
           /\ r.kind = "grant" => /\ Decoded(r).write.row.user = r.user
                                  /\ Decoded(r).write.row.inbound = r.inbound
           /\ Decoded(r).pending = {} /\ Decoded(r).todo = {} /\ Decoded(r).servers = {}
<1> DEFINE row == IF r.kind \in {"create", "provision"}
                  THEN [name |-> r.patch.name, active |-> TRUE] ELSE None
           write == IF r.kind = "grant"
                    THEN [id |-> r.access,
                          row |-> [user |-> r.user, inbound |-> r.inbound, enabled |-> TRUE,
                                   vless |-> 0, hysteria2 |-> 0]] ELSE None
           o == [NoOp EXCEPT !.req = r, !.pc = FirstPc(r.kind), !.user = r.user, !.userRow = row,
                             !.write = write]
<1>1. Decoded(r) = o BY DEF Decoded
<1>2. r.kind = "provision" => row = [name |-> r.patch.name, active |-> TRUE] OBVIOUS
<1>3. r.kind = "grant" => write.row.user = r.user /\ write.row.inbound = r.inbound OBVIOUS
<1> HIDE DEF row, write
<1>4. /\ o.req = r /\ o.pc = FirstPc(r.kind) /\ o.user = r.user /\ o.userRow = row
      /\ o.write = write /\ o.pending = {} /\ o.todo = {} /\ o.servers = {}
  BY DEF NoOp
<1> HIDE DEF o
<1> QED BY <1>1, <1>2, <1>3, <1>4

LEMMA BeginHealthy ==
    ASSUME HInv, NEW p \in Procs, NEW r \in Requests, Begin(p, r)
    PROVE  HInv'
<1> DEFINE others == \A x \in Procs : Free(x)
           own == [Decoded(r) EXCEPT !.alone = others, !.stale = Stale, !.dated = Dated]
<1>0. UInv' /\ UNCHANGED <<rows, drafted, fresh>> BY BeginKeeps DEF Begin, HInv
<1>1. Decoded(r) \in Op /\ r.kind \in Kinds /\ WellFormed(r) BY DecodedOK, RequestFacts DEF OpOK
<1>2. /\ own.req = r /\ own.pc = FirstPc(r.kind) /\ own.user = r.user
      /\ own.userRow = Decoded(r).userRow /\ own.write = Decoded(r).write
      /\ own.pending = {} /\ own.todo = {} /\ own.servers = {}
      /\ own.stale = Stale /\ own.dated = Dated
  BY <1>1, DecodedFields DEF Op
<1>3. op' = [q \in Procs |-> IF q = p THEN own
                             ELSE IF Free(q) THEN NoOp ELSE [op[q] EXCEPT !.alone = FALSE]]
  BY DEF Begin
<1> HIDE DEF own
<1>4. Now' = Now BY <1>0, NowSame DEF rows
<1>5. own.pc \in {"ensure", "user", "remove", "prepare", "read", "batch", "render", "load"}
  BY <1>2 DEF FirstPc
<1>6. Healthy(own, Now)
  <2>1. Shape(own)
    <3>1. own.pc \in StepsOf(r.kind) BY <1>1, <1>2 DEF FirstPc, StepsOf, Kinds, ProvisionPcs
    <3>2. own.pc \in {"prepare", "user"} => ~r.patch.hard
      BY <1>1, <1>2 DEF FirstPc, WellFormed
    <3>3. r.kind = "bulkUsers" => own.pc = "read" BY <1>2 DEF FirstPc
    <3> QED BY <1>2, <1>5, <3>1, <3>2, <3>3 DEF Shape
  <2>2. own.pc \notin {"read", "impact", "rows", "draft", "done"} => Planned(own, Now)
    <3>1. own.pc # "read" => r.kind # "bulkUsers" BY <1>2 DEF FirstPc
    <3> QED BY <1>2, <3>1 DEF Planned, Idle
  <2>3. AtHand(own, Now)
    <3>1. r.kind = "bulkUsers" => own.pc = "read" BY <1>2 DEF FirstPc
    <3>2. own.pc = "prepare" => r.kind = "grant" BY <1>1, <1>2 DEF FirstPc, Kinds
    <3>3. CASE r.kind = "grant"
      <4>1. OnTarget(r.inbound, own, Now) BY <1>2, <3>3 DEF OnTarget, TargetsIn
      <4>2. own.pc = "prepare" BY <1>2, <3>3 DEF FirstPc
      <4>3. own.write.row.user = r.user /\ own.write.row.inbound = r.inbound
        BY <1>2, <3>3, DecodedFields
      <4>4. ~Idle(own) BY <1>2, <3>3 DEF Idle
      <4> QED BY <1>2, <3>3, <4>1, <4>2, <4>3, <4>4 DEF AtHand
    <3>4. CASE r.kind # "grant"
      BY <1>2, <1>5, <3>1, <3>2, <3>4 DEF AtHand, Idle, Writing
    <3> QED BY <3>3, <3>4
  <2>4. Drafts(own, Now) /\ Marks(own, Now) BY <1>2, Fields DEF Drafts, Marks
  <2>5. Serves(own, Now)
    <3>1. r.kind = "provision" => own.pc = "ensure" BY <1>2 DEF FirstPc
    <3> QED BY <1>2, <3>1, DecodedFields DEF Serves
  <2> QED BY <1>5, <2>1, <2>2, <2>3, <2>4, <2>5 DEF Healthy
<1>7. ASSUME NEW q \in Procs, q # p
      PROVE  (Healthy(op'[q], Now) /\ op'[q].pc = op[q].pc) \/ op'[q] = NoOp
  <2>1. CASE Free(q) BY <1>3, <1>7, <2>1
  <2>2. CASE ~Free(q)
    <3>1. op[q] \in Op BY DEF HInv, UInv, OpOK
    <3>2. op'[q] = [op[q] EXCEPT !.alone = FALSE] BY <1>3, <1>7, <2>2
    <3>3. ~op'[q].alone /\ op'[q].pc = op[q].pc BY <3>1, <3>2 DEF Op
    <3> QED BY <3>3 DEF Healthy, Calm
  <2> QED BY <2>1, <2>2
<1>8. ASSUME NEW q \in Procs PROVE Healthy(op'[q], Now')
  BY <1>3, <1>4, <1>6, <1>7, NoOpHealthy
<1>9. IdsUsed'
  <2>1. UNCHANGED <<users, inbounds, access, usedIds>> /\ IdsUsed BY <1>0 DEF rows, HInv
  <2>2. ASSUME NEW q \in Procs
        PROVE  /\ op'[q].pc = "store" => op'[q].write.row.user \in usedIds
               /\ op'[q].pc = "inbound" => op'[q].req.inbound \in usedIds
    <3>1. CASE q = p
      <4>1. op'[q] = own BY <1>3, <3>1
      <4> QED BY <1>5, <4>1
    <3>2. CASE q # p /\ Free(q)
      <4>1. op'[q] = NoOp BY <1>3, <3>2
      <4> QED BY <4>1 DEF NoOp
    <3>3. CASE q # p /\ ~Free(q)
      <4>1. op[q] \in Op BY DEF HInv, UInv, OpOK
      <4>2. op'[q] = [op[q] EXCEPT !.alone = FALSE] BY <1>3, <3>3
      <4>3. op'[q].pc = op[q].pc /\ op'[q].write = op[q].write /\ op'[q].req = op[q].req
        BY <4>1, <4>2 DEF Op
      <4> QED BY <2>1, <4>3 DEF IdsUsed
    <3> QED BY <3>1, <3>2, <3>3
  <2> QED BY <2>1, <2>2 DEF IdsUsed
<1> QED BY <1>0, <1>8, <1>9 DEF HInv

LEMMA CrashHealthy == ASSUME HInv, Crash PROVE HInv'
<1>1. UInv' /\ UNCHANGED rows BY CrashKeeps DEF HInv, Crash
<1>2. \A p \in Procs : op'[p] = NoOp BY DEF Crash
<1>3. \A p \in Procs : op'[p].pc = "idle" BY <1>2 DEF NoOp
<1>4. IdsUsed' BY <1>1, <1>3 DEF IdsUsed, HInv, rows
<1>5. \A p \in Procs : Healthy(op'[p], Now') BY <1>2, NoOpHealthy
<1> QED BY <1>1, <1>4, <1>5 DEF HInv

LEMMA CalmCarries ==
    ASSUME HInv, UInv', IdsUsed', NEW p \in Procs, op[p].pc \notin {"idle", "done"},
           NEW a, Go(p, a), a.alone = op[p].alone, a.failed = op[p].failed,
           Calm(op[p]) => /\ Shape(a) /\ AtHand(a, Now') /\ Drafts(a, Now') /\ Marks(a, Now')
                          /\ Serves(a, Now')
                          /\ a.pc \in {"impact", "rows"} => Surveyed(a, Now')
                          /\ a.pc \notin {"read", "impact", "rows", "draft", "done"}
                                => Planned(a, Now')
    PROVE  HInv'
<1>1. ~Free(p) BY Calmly
<1>2. Calm(a) => Calm(op[p]) BY DEF Calm
<1> QED BY <1>1, <1>2, Carries DEF Healthy

-----------------------------------------------------------------------------
(***************************************************************************)
(* Reads.                                                                  *)
(***************************************************************************)
LEMMA LoadUserHealthy ==
    ASSUME HInv, UInv', IdsUsed', NEW p \in Procs, LoadUser(p) PROVE HInv'
<1> DEFINE o == op[p]
           row == PatchedUser(users[o.user], o.req.patch)
           a == [o EXCEPT !.pc = "user", !.userRow = row]
<1>0. o.pc = "load" /\ o.req.kind = "update" BY DEF LoadUser, At
<1>1. o \in Op /\ WellFormed(o.req) BY <1>0, Calmly
<1>2. Now' = Now BY NowSame DEF LoadUser, rows
<1>3. Go(p, a) \/ Go(p, Answer(o, "error")) BY DEF LoadUser
<1>4. /\ a.pc = "user" /\ a.req = o.req /\ a.alone = o.alone /\ a.failed = o.failed
      /\ a.stale = o.stale /\ a.dated = o.dated /\ a.servers = o.servers
      /\ a.pending = o.pending /\ a.todo = o.todo
  BY <1>1 DEF Op
<1> HIDE DEF a, row
<1>5. ASSUME Calm(o)
      PROVE  Shape(a) /\ AtHand(a, Now) /\ Drafts(a, Now) /\ Marks(a, Now) /\ Serves(a, Now)
             /\ Planned(a, Now)
  <2>1. Drafts(o, Now) /\ Marks(o, Now) /\ Planned(o, Now) BY <1>0, <1>5, Calmly
  <2>2. Shape(a) BY <1>0, <1>1, <1>4 DEF Shape, StepsOf, WellFormed
  <2>3. AtHand(a, Now) BY <1>0, <1>4 DEF AtHand, Idle, Writing
  <2>4. Drafts(a, Now) /\ Marks(a, Now) BY <1>0, <1>4, <2>1, MovesOn
  <2>5. Serves(a, Now) BY <1>0, <1>4 DEF Serves
  <2>6. Planned(a, Now) BY <1>4, <2>1, PlanKept
  <2> QED BY <2>2, <2>3, <2>4, <2>5, <2>6
<1>6. CASE Go(p, a) BY <1>0, <1>2, <1>4, <1>5, <1>6, CalmCarries
<1>7. CASE Go(p, Answer(o, "error")) BY <1>0, <1>7, ErrorCarries
<1> QED BY <1>3, <1>6, <1>7

LEMMA LoadAccessHealthy ==
    ASSUME HInv, UInv', IdsUsed', NEW p \in Procs, LoadAccess(p) PROVE HInv'
<1> DEFINE o == op[p]
           i == o.req.access
           w == [id |-> i, row |-> access[i]]
           ss == {inbounds[access[i].inbound].server}
           a == [o EXCEPT !.pc = "withdraw", !.user = access[i].user, !.write = w, !.servers = ss]
<1>0. o.pc = "load" /\ o.req.kind = "withdraw" BY DEF LoadAccess, At
<1>1. o \in Op /\ WellFormed(o.req) BY <1>0, Calmly
<1>2. Now' = Now BY NowSame DEF LoadAccess, rows
<1>3. CASE i \in DOMAIN access /\ access[i].inbound \in DOMAIN inbounds
  <2>1. Go(p, a) BY <1>3 DEF LoadAccess
  <2>2. w.id = i /\ w.row = access[i] OBVIOUS
  <2> HIDE DEF w
  <2>3. /\ a.pc = "withdraw" /\ a.req = o.req /\ a.alone = o.alone /\ a.failed = o.failed
        /\ a.stale = o.stale /\ a.dated = o.dated /\ a.servers = ss /\ a.write = w
        /\ a.pending = o.pending /\ a.todo = o.todo /\ a.user = access[i].user
    BY <1>1 DEF Op
  <2> HIDE DEF a
  <2>4. ASSUME Calm(o)
        PROVE  Shape(a) /\ AtHand(a, Now) /\ Drafts(a, Now) /\ Marks(a, Now) /\ Serves(a, Now)
               /\ Planned(a, Now)
    <3>1. Drafts(o, Now) /\ Marks(o, Now) /\ Planned(o, Now) /\ Shape(o) BY <1>0, <2>4, Calmly
    <3>2. Shape(a) BY <1>0, <1>1, <2>3 DEF Shape, StepsOf, Withdrawing
    <3>3. OnTarget(access[i].inbound, a, Now)
      BY <1>0, <2>3, Fields DEF OnTarget, TargetsIn
    <3>4. ~Idle(a) BY <1>0, <2>3 DEF Idle
    <3>5. AsRead(w, a, Now) BY <2>2, <3>3, Fields DEF AsRead
    <3>6. AtHand(a, Now) BY <1>0, <2>2, <2>3, <3>3, <3>4, <3>5 DEF AtHand, Writing
    <3>7. Drafts(a, Now)
      <4>1. o.servers = {} BY <1>0, <3>1 DEF Shape
      <4>2. Promises(o) => Now.stale \subseteq o.stale
        BY <1>0, <3>1, <4>1 DEF Drafts, Owed, TargetsIn
      <4> QED BY <2>3, <4>2 DEF Drafts, Promises
    <3>8. Marks(a, Now) BY <1>0, <2>3, <3>1 DEF Marks, ToMark
    <3>9. Serves(a, Now) BY <1>0, <2>3 DEF Serves
    <3>10. Planned(a, Now)
      <4>1. a.pending = {} /\ a.todo = {} BY <1>0, <2>3, <3>1 DEF Planned
      <4> QED BY <1>0, <2>3, <3>4, <4>1 DEF Planned
    <3> QED BY <3>2, <3>6, <3>7, <3>8, <3>9, <3>10
  <2> QED BY <1>0, <1>2, <2>1, <2>3, <2>4, CalmCarries
<1>4. CASE ~(i \in DOMAIN access /\ access[i].inbound \in DOMAIN inbounds)
  <2>1. Go(p, Answer(o, "error")) BY <1>4 DEF LoadAccess
  <2> QED BY <1>0, <2>1, ErrorCarries
<1> QED BY <1>3, <1>4

LEMMA LoadInboundHealthy ==
    ASSUME HInv, UInv', IdsUsed', NEW p \in Procs, LoadInbound(p) PROVE HInv'
<1> DEFINE o == op[p]
           i == o.req.inbound
           row == PatchedInbound(inbounds[i], o.req.patch)
           pc == IF o.req.kind = "updateInbound" THEN "inbound" ELSE "drop"
           ss == {inbounds[i].server}
           a == [o EXCEPT !.pc = pc, !.inboundRow = row, !.servers = ss]
<1>0. o.pc = "load" /\ o.req.kind \in {"updateInbound", "deleteInbound"}
  BY DEF LoadInbound, At
<1>1. o \in Op /\ WellFormed(o.req) /\ Rows BY <1>0, Calmly
<1>2. Now' = Now BY NowSame DEF LoadInbound, rows
<1>3. CASE i \in DOMAIN inbounds
  <2>1. Go(p, a) BY <1>3 DEF LoadInbound
  <2>2. row.server = inbounds[i].server
    <3>1. inbounds[i] \in InboundRow BY <1>1, <1>3, RowOfTable DEF Rows
    <3> QED BY <3>1 DEF PatchedInbound, InboundRow
  <2> HIDE DEF row
  <2>3. pc \in {"inbound", "drop"} OBVIOUS
  <2>4. /\ a.pc = pc /\ a.req = o.req /\ a.alone = o.alone /\ a.failed = o.failed
        /\ a.stale = o.stale /\ a.dated = o.dated /\ a.servers = ss /\ a.inboundRow = row
        /\ a.pending = o.pending /\ a.todo = o.todo
    BY <1>1 DEF Op
  <2> HIDE DEF a
  <2>5. ASSUME Calm(o)
        PROVE  Shape(a) /\ AtHand(a, Now) /\ Drafts(a, Now) /\ Marks(a, Now) /\ Serves(a, Now)
               /\ Planned(a, Now)
    <3>1. Drafts(o, Now) /\ Marks(o, Now) /\ Planned(o, Now) /\ Shape(o) BY <1>0, <2>5, Calmly
    <3>2. Shape(a) BY <1>0, <2>4 DEF Shape, StepsOf
    <3>3. OnTarget(i, a, Now) BY <1>0, <2>4, Fields DEF OnTarget, TargetsIn
    <3>4. ~Idle(a) BY <1>0, <2>4 DEF Idle
    <3>6. AtHand(a, Now) BY <1>0, <2>2, <2>3, <2>4, <3>3, <3>4 DEF AtHand, Writing
    <3>7. Drafts(a, Now)
      <4>1. o.servers = {} BY <1>0, <3>1 DEF Shape
      <4>2. Promises(o) => Now.stale \subseteq o.stale
        BY <1>0, <3>1, <4>1 DEF Drafts, Owed, TargetsIn
      <4> QED BY <2>4, <4>2 DEF Drafts, Promises
    <3>8. Marks(a, Now) BY <1>0, <2>3, <2>4, <3>1 DEF Marks, ToMark
    <3>9. Serves(a, Now) BY <1>0, <2>4 DEF Serves
    <3>10. Planned(a, Now)
      <4>1. a.pending = {} /\ a.todo = {} BY <1>0, <2>4, <3>1 DEF Planned
      <4> QED BY <1>0, <2>4, <3>4, <4>1 DEF Planned
    <3> QED BY <3>2, <3>6, <3>7, <3>8, <3>9, <3>10
  <2> QED BY <1>0, <1>2, <2>1, <2>4, <2>5, CalmCarries
<1>4. CASE i \notin DOMAIN inbounds
  <2>1. Go(p, Answer(o, "error")) BY <1>4 DEF LoadInbound
  <2> QED BY <1>0, <2>1, ErrorCarries
<1> QED BY <1>3, <1>4

LEMMA EnsureInboundsHealthy ==
    ASSUME HInv, UInv', IdsUsed', NEW p \in Procs, EnsureInbounds(p) PROVE HInv'
<1> DEFINE o == op[p]
<1>0. o.pc = "ensure" BY DEF EnsureInbounds, At
<1>1. o \in OpOK /\ o \in Op BY <1>0, Calmly
<1>2. o.req.kind = "provision" BY <1>0, <1>1 DEF OpOK
<1>3. Now' = Now BY NowSame DEF EnsureInbounds, rows
<1>4. PICK d \in [Protocols -> Inbounds \cup {None}] :
        /\ \A x \in Protocols : d[x] \in IF Found(x) = {} THEN {None} ELSE Found(x)
        /\ Go(p, [o EXCEPT !.pc = "provide", !.default = d, !.servers = {DefaultServer}])
  BY DEF EnsureInbounds
<1> DEFINE a == [o EXCEPT !.pc = "provide", !.default = d, !.servers = {DefaultServer}]
<1>5. /\ a.pc = "provide" /\ a.req = o.req /\ a.alone = o.alone /\ a.failed = o.failed
      /\ a.stale = o.stale /\ a.dated = o.dated /\ a.servers = {DefaultServer} /\ a.default = d
      /\ a.pending = o.pending /\ a.todo = o.todo /\ a.userRow = o.userRow
  BY <1>1 DEF Op
<1>6. Go(p, a) BY <1>4
<1> HIDE DEF a
<1>7. ASSUME Calm(o)
      PROVE  Shape(a) /\ AtHand(a, Now) /\ Drafts(a, Now) /\ Marks(a, Now) /\ Serves(a, Now)
             /\ Planned(a, Now)
  <2>1. Drafts(o, Now) /\ Marks(o, Now) /\ Planned(o, Now) /\ Shape(o) /\ Serves(o, Now)
    BY <1>0, <1>7, Calmly
  <2>2. Shape(a) BY <1>2, <1>5 DEF Shape, StepsOf, ProvisionPcs
  <2>3. ~Idle(a) BY <1>2, <1>5 DEF Idle
  <2>4. AtHand(a, Now) BY <1>2, <1>5, <2>3 DEF AtHand, Writing
  <2>5. Drafts(a, Now)
    <3>1. o.servers = {} BY <1>0, <2>1 DEF Shape
    <3>2. Promises(o) => Now.stale \subseteq o.stale
      BY <1>0, <1>2, <2>1, <3>1 DEF Drafts, Owed, TargetsIn
    <3> QED BY <1>5, <3>2 DEF Drafts, Promises
  <2>6. Marks(a, Now) BY <1>0, <1>2, <1>5, <2>1 DEF Marks, ToMark
  <2>7. Serves(a, Now)
    <3>1. o.userRow = [name |-> o.req.patch.name, active |-> TRUE] BY <1>0, <1>2, <2>1 DEF Serves
    <3>2. ASSUME NEW x \in Protocols PROVE d[x] # None => d[x] \in Found(x) BY <1>4
    <3>3. Ensured(a, Now) BY <1>5, <3>2, Fields DEF Ensured, Found
    <3>4. ASSUME NEW x \in Protocols, d[x] = None PROVE Found(x) = {}
      <4>1. ASSUME Found(x) # {} PROVE FALSE
        <5>1. d[x] \in Found(x) BY <1>4, <4>1
        <5>2. d[x] \in Inbounds BY <1>1, <5>1, Calmly, <1>0 DEF Found, Rows, IsTable
        <5> QED BY <3>4, <5>2, NoneIsApart
      <4> QED BY <4>1
    <3>5. \A x \in Protocols, i \in DOMAIN inbounds :
             d[x] = None => inbounds[i].server # DefaultServer \/ inbounds[i].protocol # x
      BY <3>4 DEF Found
    <3> QED BY <1>5, <3>1, <3>3, <3>5, Fields DEF Serves
  <2>8. Planned(a, Now)
    <3>1. Planned(o, Now) /\ o.servers = {} BY <1>0, <2>1 DEF Shape
    <3>2. ~Withdrawing(a) BY <1>0, <1>2, <1>5, Calmly DEF Withdrawing, WellFormed
    <3>3. a.todo = {} BY <1>2, <1>5, <3>1 DEF Planned
    <3>4. Promises(a) => \A w \in a.pending : OnTarget(w.row.inbound, a, Now)
      <4>1. Promises(a) = Promises(o) /\ ~Idle(o) BY <1>2, <1>5 DEF Promises, Idle
      <4>2. Promises(o) => \A w \in o.pending : OnTarget(w.row.inbound, o, Now)
        BY <3>1, <4>1 DEF Planned
      <4>3. \A i : OnTarget(i, o, Now) => OnTarget(i, a, Now)
        BY <1>2, <3>1 DEF OnTarget, TargetsIn
      <4> QED BY <1>5, <4>1, <4>2, <4>3
    <3> QED BY <1>2, <1>5, <2>3, <3>2, <3>3, <3>4 DEF Planned
  <2> QED BY <2>2, <2>4, <2>5, <2>6, <2>7, <2>8
<1> QED BY <1>0, <1>3, <1>5, <1>6, <1>7, CalmCarries

LEMMA PatchedFields ==
    ASSUME Rows, NEW as \in SUBSET DOMAIN access, NEW patch, NEW w \in Patched(as, patch)
    PROVE  /\ w.id \in as /\ w.row.user = access[w.id].user
           /\ \/ w.row.inbound = access[w.id].inbound
              \/ patch.to # None /\ w.row.inbound = patch.to
<1>1. PICK a \in as : w = [id |-> a, row |-> PatchedAccess(access[a], patch)] BY DEF Patched
<1>2. access[a] \in AccessRow BY RowOfTable DEF Rows
<1>3. w.id = a /\ w.row = PatchedAccess(access[a], patch) BY <1>1
<1> HIDE <1>1
<1>4. /\ PatchedAccess(access[a], patch).user = access[a].user
      /\ PatchedAccess(access[a], patch).inbound = Or(patch.to, access[a].inbound)
  BY <1>2 DEF PatchedAccess, AccessRow
<1> QED BY <1>3, <1>4 DEF Or

(* What an access leads to is not lost when it is read unpatched. *)
LEMMA ReadInto ==
    ASSUME Rows, NEW as \in SUBSET DOMAIN access, NEW x \in as
    PROVE  \E w \in Patched(as, NoPatch) : w.row.inbound = access[x].inbound
<1> DEFINE w == [id |-> x, row |-> PatchedAccess(access[x], NoPatch)]
<1>1. access[x] \in AccessRow BY RowOfTable DEF Rows
<1>2. PatchedAccess(access[x], NoPatch).inbound = access[x].inbound
  BY <1>1 DEF PatchedAccess, AccessRow, NoPatch, Or
<1>3. w \in Patched(as, NoPatch) BY DEF Patched
<1> QED BY <1>2, <1>3

(* A bulk request that looks on has changed nothing yet. *)
LEMMA SurveyCarries ==
    ASSUME HInv, UInv', IdsUsed', NEW p \in Procs, op[p].pc \in {"read", "impact"}, Now' = Now,
           NEW pc \in {"impact", "rows"}, NEW todo, NEW pending, NEW servers,
           NEW a, a = Replan(op[p], pc, todo, pending, servers), Go(p, a),
           Calm(op[p]) => Surveyed(a, Now)
    PROVE  HInv'
<1> DEFINE o == op[p]
<1>1. o \in Op /\ o.req.kind \in Kinds BY Calmly
<1>2. /\ a.pc = pc /\ a.req = o.req /\ a.alone = o.alone /\ a.failed = o.failed
      /\ a.stale = o.stale /\ a.dated = o.dated
  BY <1>1, ReplanFields
<1>3. ASSUME Calm(o)
      PROVE  Shape(a) /\ AtHand(a, Now) /\ Drafts(a, Now) /\ Marks(a, Now) /\ Serves(a, Now)
  <2>1. Shape(o) /\ Drafts(o, Now) /\ Marks(o, Now) BY <1>3, Calmly
  <2>2. o.req.kind \in {"bulkUsers", "bulkAccess"}
    BY <1>1, <2>1 DEF Shape, StepsOf, Kinds, ProvisionPcs
  <2>3. Shape(a) BY <1>2, <2>2 DEF Shape, StepsOf
  <2>4. AtHand(a, Now) BY <1>2, <2>2 DEF AtHand, Writing
  <2>5. Drafts(a, Now)
    <3>1. Owed(o, Now) = {} BY <2>1, <2>2 DEF Owed, TargetsIn, Shape
    <3>2. Owed(a, Now) = {} BY <1>2 DEF Owed
    <3> QED BY <1>2, <2>1, <3>1, <3>2 DEF Drafts, Promises
  <2>6. Marks(a, Now) BY <1>2, <2>1, <2>2 DEF Marks, ToMark
  <2>7. Serves(a, Now) BY <1>2, <2>2 DEF Serves
  <2> QED BY <2>3, <2>4, <2>5, <2>6, <2>7
<1> QED BY <1>2, <1>3, CalmCarries

LEMMA ReadBulkHealthy ==
    ASSUME HInv, UInv', IdsUsed', NEW p \in Procs, ReadBulk(p) PROVE HInv'
<1> DEFINE o == op[p]
           as == o.req.accesses \cap DOMAIN access
           todo == UserRows(o.req.users)
           pending == Patched(as, NoPatch)
           a == Replan(o, "impact", todo, pending, o.servers)
<1>0. o.pc = "read" BY DEF ReadBulk, At
<1>1. o \in Op /\ Rows BY <1>0, Calmly
<1>2. Now' = Now BY NowSame DEF ReadBulk, rows
<1>3. Go(p, a)
  <2>1. [o EXCEPT !.pc = "impact", !.todo = todo, !.pending = pending] = a
    BY <1>1 DEF Op, Replan
  <2> QED BY <2>1 DEF ReadBulk
<1>4. a.req = o.req /\ a.pc = "impact" /\ a.todo = todo /\ a.pending = pending
      /\ a.servers = o.servers
  BY <1>1, ReplanFields
<1>5. Surveyed(a, Now)
  <2>1. ASSUME NEW x \in DOMAIN access, x \in o.req.accesses
        PROVE  Counted(access[x].inbound, a, Now)
    <3>1. \E w \in pending : w.row.inbound = access[x].inbound
      BY <1>1, <2>1, ReadInto
    <3> QED BY <1>4, <3>1 DEF Counted
  <2>2. ASSUME NEW x \in DOMAIN access, access[x].user \in o.req.users \cap DOMAIN users
        PROVE  \E t \in a.todo : t.id = access[x].user
    <3>1. [id |-> access[x].user, row |-> users[access[x].user]] \in todo BY <2>2 DEF UserRows
    <3> QED BY <1>4, <3>1
  <2> QED BY <1>4, <2>1, <2>2, Fields DEF Surveyed
<1> HIDE DEF todo, pending
<1> QED BY <1>0, <1>2, <1>3, <1>5, SurveyCarries

LEMMA CollectHealthy ==
    ASSUME HInv, UInv', IdsUsed', NEW p \in Procs, Collect(p) PROVE HInv'
<1> DEFINE o == op[p]
           concerned(x) == x \in o.req.accesses \/ access[x].user \in o.req.users \cap DOMAIN users
<1>0. o.pc = "impact" BY DEF Collect, At
<1>1. o \in Op /\ Rows BY <1>0, Calmly
<1>2. Now' = Now BY NowSame DEF Collect, rows
<1>3. Calm(o) => \A x \in DOMAIN access : concerned(x)
                   => \/ Counted(access[x].inbound, o, Now)
                      \/ \E t \in o.todo : t.id = access[x].user
  BY <1>0, Calmly, Fields DEF Surveyed
<1>4. CASE \E w \in o.pending : Go(p, [o EXCEPT !.pending = @ \ {w},
                                              !.servers = @ \cup ServersOf(w.row.inbound)])
  <2>1. PICK w \in o.pending : Go(p, [o EXCEPT !.pending = @ \ {w},
                                              !.servers = @ \cup ServersOf(w.row.inbound)])
    BY <1>4
  <2> DEFINE rest == o.pending \ {w}
             more == o.servers \cup ServersOf(w.row.inbound)
             a == Replan(o, "impact", o.todo, rest, more)
  <2>2. Go(p, a)
    <3>1. [o EXCEPT !.pending = @ \ {w}, !.servers = @ \cup ServersOf(w.row.inbound)] = a
      BY <1>0, <1>1 DEF Op, Replan
    <3> QED BY <2>1, <3>1
  <2>3. a.req = o.req /\ a.pc = "impact" /\ a.todo = o.todo /\ a.pending = rest /\ a.servers = more
    BY <1>1, ReplanFields
  <2>4. ASSUME NEW i, Counted(i, o, Now) PROVE Counted(i, a, Now)
    <3>1. ASSUME i \in DOMAIN inbounds, i = w.row.inbound PROVE inbounds[i].server \in more
      BY <3>1 DEF ServersOf
    <3> QED BY <2>3, <2>4, <3>1, Fields DEF Counted
  <2>5. Calm(o) => Surveyed(a, Now) BY <1>3, <2>3, <2>4, Fields DEF Surveyed
  <2> HIDE DEF rest, more
  <2> QED BY <1>0, <1>2, <2>2, <2>5, SurveyCarries
<1>5. CASE /\ o.pending = {}
           /\ \E t \in o.todo : Go(p, [o EXCEPT !.todo = @ \ {t},
                                               !.pending = Patched(AccessesOf(t.id), NoPatch)])
  <2>1. PICK t \in o.todo : Go(p, [o EXCEPT !.todo = @ \ {t},
                                           !.pending = Patched(AccessesOf(t.id), NoPatch)])
    BY <1>5
  <2> DEFINE rest == o.todo \ {t}
             found == Patched(AccessesOf(t.id), NoPatch)
             a == Replan(o, "impact", rest, found, o.servers)
  <2>2. Go(p, a)
    <3>1. [o EXCEPT !.todo = @ \ {t}, !.pending = found] = a
      BY <1>0, <1>1 DEF Op, Replan
    <3> QED BY <2>1, <3>1
  <2>3. a.req = o.req /\ a.pc = "impact" /\ a.todo = rest /\ a.pending = found
        /\ a.servers = o.servers
    BY <1>1, ReplanFields
  <2>4. ASSUME NEW i, Counted(i, o, Now) PROVE Counted(i, a, Now)
    BY <1>5, <2>3, <2>4 DEF Counted
  <2>5. ASSUME NEW x \in DOMAIN access, access[x].user = t.id
        PROVE  Counted(access[x].inbound, a, Now)
    <3>1. x \in AccessesOf(t.id) /\ AccessesOf(t.id) \in SUBSET DOMAIN access
      BY <2>5 DEF AccessesOf
    <3>2. \E w \in found : w.row.inbound = access[x].inbound BY <1>1, <3>1, ReadInto
    <3> QED BY <2>3, <3>2 DEF Counted
  <2>6. ASSUME Calm(o), NEW x \in DOMAIN access, concerned(x)
        PROVE  \/ Counted(access[x].inbound, a, Now)
               \/ \E s \in a.todo : s.id = access[x].user
    BY <1>3, <2>3, <2>4, <2>5, <2>6
  <2>7. Calm(o) => Surveyed(a, Now) BY <2>3, <2>6, Fields DEF Surveyed
  <2> HIDE DEF rest, found
  <2> QED BY <1>0, <1>2, <2>2, <2>7, SurveyCarries
<1>6. CASE /\ o.pending = {} /\ o.todo = {}
           /\ Go(p, [o EXCEPT !.pc = "rows", !.servers = @ \cup ServersOf(o.req.patch.to)])
  <2> DEFINE more == o.servers \cup ServersOf(o.req.patch.to)
             a == Replan(o, "rows", o.todo, o.pending, more)
  <2>1. Go(p, a)
    <3>1. [o EXCEPT !.pc = "rows", !.servers = @ \cup ServersOf(o.req.patch.to)] = a
      BY <1>1 DEF Op, Replan
    <3> QED BY <1>6, <3>1
  <2>2. a.req = o.req /\ a.pc = "rows" /\ a.todo = {} /\ a.pending = {} /\ a.servers = more
    BY <1>1, <1>6, ReplanFields
  <2>3. ASSUME NEW i, Counted(i, o, Now) PROVE Counted(i, a, Now)
    BY <1>6, <2>2, <2>3 DEF Counted
  <2>4. o.req.patch.to \in DOMAIN inbounds => inbounds[o.req.patch.to].server \in more
    BY DEF ServersOf
  <2>5. Calm(o) => Surveyed(a, Now) BY <1>3, <1>6, <2>2, <2>3, <2>4, Fields DEF Surveyed
  <2> HIDE DEF more
  <2> QED BY <1>0, <1>2, <2>1, <2>5, SurveyCarries
<1> QED BY <1>4, <1>5, <1>6 DEF Collect

(* The servers that were collected are those of all that is to be written. *)
LEMMA ReadRowsHealthy ==
    ASSUME HInv, UInv', IdsUsed', NEW p \in Procs, ReadRows(p) PROVE HInv'
<1> DEFINE o == op[p]
           patch == o.req.patch
           ss == IF ChangesRuntime(patch) THEN o.servers ELSE {}
           as == o.req.accesses \cap DOMAIN access
           concerned(x) == x \in o.req.accesses \/ access[x].user \in o.req.users \cap DOMAIN users
           b == Reread(o)
<1>0. o.pc = "rows" BY DEF ReadRows, At
<1>1. o \in OpOK /\ o \in Op /\ WellFormed(o.req) /\ Tables /\ Rows /\ ~Free(p) BY <1>0, Calmly
<1>2. Now' = Now BY NowSame DEF ReadRows, rows
<1>3. PICK a \in Advance(b) : Go(p, a) BY <1>1, RowsRead
<1>5. /\ b \in OpOK /\ SameButPlan(o, b) /\ b.servers = ss
      /\ b.todo = UserRows(o.req.users) /\ b.pending = Patched(as, patch)
  BY <1>0, <1>1, RereadOK
<1>6. ASSUME Calm(o), ChangesRuntime(patch)
      PROVE  /\ \A i \in DOMAIN inbounds : i = patch.to => inbounds[i].server \in ss
             /\ \A x \in DOMAIN access : concerned(x) /\ access[x].inbound \in DOMAIN inbounds
                   => inbounds[access[x].inbound].server \in ss
  <2>1. Surveyed(o, Now) /\ ss = o.servers BY <1>0, <1>6, Calmly
  <2> QED BY <1>0, <2>1, Fields DEF Surveyed, Counted
<1> HIDE DEF b, ss
<1>7. ASSUME Calm(b) PROVE Ready(b, Now)
  <2>0. Calm(o) BY <1>5, <1>7 DEF SameButPlan, Calm
  <2>1. Drafts(o, Now) /\ Marks(o, Now) /\ Shape(o) BY <1>0, <2>0, Calmly
  <2>2. o.req.kind \in {"bulkUsers", "bulkAccess"}
    <3>1. o.req.kind \in Kinds BY <1>0, Calmly
    <3> QED BY <1>0, <2>1, <3>1 DEF Shape, StepsOf, Kinds, ProvisionPcs
  <2>3. b.req = o.req /\ b.stale = o.stale /\ b.dated = o.dated BY <1>5 DEF SameButPlan
  <2>4. TargetsIn(b, Now) = ss BY <1>5, <2>2, <2>3 DEF TargetsIn
  <2>5. \A i : OnTarget(i, b, Now) <=> (i \in DOMAIN inbounds => inbounds[i].server \in ss)
    BY <2>4, Fields DEF OnTarget
  <2>6. Promises(b) = Promises(o) /\ Idle(b) = Idle(o) /\ Withdrawing(b) = Withdrawing(o)
    BY <2>3 DEF Promises, Idle, Withdrawing
  <2>7. Promises(o) /\ ~Idle(o) => ChangesRuntime(patch) BY <2>2 DEF Promises, Idle
  <2>8. ASSUME NEW w \in b.pending
        PROVE  /\ w.id \in as /\ w.row.user = access[w.id].user
               /\ \/ w.row.inbound = access[w.id].inbound
                  \/ patch.to # None /\ w.row.inbound = patch.to
    <3>1. w \in Patched(as, patch) /\ as \in SUBSET DOMAIN access BY <1>5
    <3> HIDE DEF as
    <3> QED BY <1>1, <3>1, PatchedFields
  <2>9. Planned(b, Now)
    <3>1. o.req.kind # "bulkUsers" => b.todo = {} BY <1>1, <1>5, <2>2 DEF WellFormed, UserRows
    <3>2. o.req.kind = "bulkUsers" => b.pending = {} BY <1>1, <1>5 DEF WellFormed, Patched
    <3>3. ASSUME Withdrawing(o), NEW w \in b.pending PROVE AsRead(w, b, Now)
      <4>1. Promises(o) => OnTarget(access[w.id].inbound, b, Now)
        BY <1>6, <2>0, <2>5, <2>7, <2>8, <3>2, <3>3 DEF Idle
      <4> QED BY <2>6, <2>8, <4>1, Fields DEF AsRead
    <3>4. ASSUME Promises(o), ~Idle(o), NEW w \in b.pending
          PROVE  OnTarget(w.row.inbound, b, Now)
      BY <1>6, <2>0, <2>5, <2>7, <2>8, <3>4
    <3>5. ASSUME Promises(o), ~Idle(o), o.req.kind = "bulkUsers"
          PROVE  /\ patch.to # None => OnTarget(patch.to, b, Now)
                 /\ \A x \in DOMAIN access : access[x].user \in o.req.users \cap DOMAIN users
                                             => OnTarget(access[x].inbound, b, Now)
      BY <1>6, <2>0, <2>5, <2>7, <3>5
    <3>6. ASSUME NEW t \in b.todo
          PROVE  Named(t.id, b, Now) /\ t.row = users[t.id]
      <4>1. PICK u \in o.req.users \cap DOMAIN users : t = [id |-> u, row |-> users[u]] BY <1>5 DEF UserRows
      <4> QED BY <2>3, <4>1, Fields DEF Named
    <3>7. o.req.kind = "bulkUsers" =>
            /\ \A t \in b.todo : Named(t.id, b, Now)
            /\ \A w \in b.pending : Named(w.row.user, b, Now)
      BY <3>2, <3>6
    <3>8. Idle(b) => b.pending = {} /\ \A t \in b.todo : t.row = Now.us[t.id]
      BY <2>6, <3>2, <3>6, Fields DEF Idle
    <3> QED BY <2>2, <2>3, <2>6, <3>1, <3>2, <3>3, <3>4, <3>5, <3>7, <3>8, Fields DEF Planned
  <2>10. Promises(b) => Now.stale \subseteq b.stale \cup TargetsIn(b, Now)
    <3>1. Owed(o, Now) = {} BY <1>0 DEF Owed
    <3> QED BY <2>1, <2>3, <2>6, <3>1 DEF Drafts
  <2>11. Now.dated \subseteq b.dated BY <1>0, <2>1, <2>2, <2>3 DEF Marks, ToMark
  <2> QED BY <2>2, <2>3, <2>9, <2>10, <2>11 DEF Ready
<1>8. Targets(b) = TargetsIn(b, Now) BY TargetsAre, Fields
<1> QED BY <1>0, <1>1, <1>2, <1>3, <1>5, <1>7, <1>8, AdvanceCarries DEF SameButPlan

LEMMA ListAccessesHealthy ==
    ASSUME HInv, UInv', IdsUsed', NEW p \in Procs, ListAccesses(p) PROVE HInv'
<1> DEFINE o == op[p]
           patch == o.req.patch
           b == Listed(o)
<1>0. o.pc = "list" BY DEF ListAccesses, At
<1>1. o \in OpOK /\ o \in Op /\ WellFormed(o.req) /\ Tables /\ Rows /\ ~Free(p) BY <1>0, Calmly
<1>2. Now' = Now BY NowSame DEF ListAccesses, rows
<1>3. PICK a \in Advance(b) : Go(p, a) BY DEF ListAccesses, GoTo, Listed, ToPatch, Move
<1>4. /\ b \in OpOK /\ SameButPlan(o, b) /\ b.servers = o.servers /\ b.todo = o.todo
      /\ b.pending = Patched(ToPatch(o), Move(o))
  BY <1>0, <1>1, ListedOK
<1>5. Move(o).to = patch.to BY DEF Move, NoPatch
<1> HIDE DEF b
<1>6. ASSUME Calm(b) PROVE Ready(b, Now)
  <2>0. Calm(o) BY <1>4, <1>6 DEF SameButPlan, Calm
  <2>1. /\ Drafts(o, Now) /\ Marks(o, Now) /\ Shape(o) /\ Planned(o, Now) /\ AtHand(o, Now)
    BY <1>0, <2>0, Calmly
  <2>2. o.req.kind = "bulkUsers" /\ ~patch.hard
    <3>1. o.req.kind \in Kinds BY <1>0, Calmly
    <3> QED BY <1>0, <2>1, <3>1 DEF Shape, StepsOf, Kinds, ProvisionPcs
  <2>3. b.req = o.req /\ b.stale = o.stale /\ b.dated = o.dated BY <1>4 DEF SameButPlan
  <2>4. TargetsIn(b, Now) = TargetsIn(o, Now) BY <1>4, <2>3 DEF TargetsIn
  <2>5. \A i : OnTarget(i, b, Now) <=> OnTarget(i, o, Now) BY <2>4 DEF OnTarget
  <2>6. Promises(b) = Promises(o) /\ Idle(b) = Idle(o) /\ ~Withdrawing(b)
    BY <2>2, <2>3 DEF Promises, Idle, Withdrawing
  <2>7. \A u : Named(u, b, Now) <=> Named(u, o, Now) BY <2>3 DEF Named
  <2>8. o.user \in o.req.users \cap DOMAIN users /\ Named(o.user, o, Now)
    BY <1>0, <2>1, <2>2, Fields DEF AtHand, Named
  <2>9. ASSUME NEW w \in b.pending
        PROVE  /\ w.id \in DOMAIN access /\ access[w.id].user = o.user /\ w.row.user = o.user
               /\ \/ w.row.inbound = access[w.id].inbound
                  \/ patch.to # None /\ w.row.inbound = patch.to
    <3>1. ToPatch(o) \in SUBSET DOMAIN access BY DEF ToPatch, AccessesOf
    <3>2. w.id \in ToPatch(o) /\ w.row.user = access[w.id].user
          /\ \/ w.row.inbound = access[w.id].inbound
             \/ patch.to # None /\ w.row.inbound = patch.to
      BY <1>1, <1>4, <1>5, <3>1, PatchedFields
    <3> QED BY <3>2 DEF ToPatch, AccessesOf
  <2>10. Planned(b, Now)
    <3>1. ASSUME Promises(o), ~Idle(o), NEW w \in b.pending
          PROVE  OnTarget(w.row.inbound, b, Now)
      <4>1. /\ patch.to # None => OnTarget(patch.to, o, Now)
            /\ OnTarget(access[w.id].inbound, o, Now)
        BY <2>1, <2>2, <2>8, <2>9, <3>1, Fields DEF Planned
      <4> QED BY <2>5, <2>9, <4>1
    <3>2. ASSUME Promises(o), ~Idle(o)
          PROVE  /\ patch.to # None => OnTarget(patch.to, b, Now)
                 /\ \A x \in DOMAIN Now.acc : Now.acc[x].user \in o.req.users \cap DOMAIN Now.us
                                             => OnTarget(Now.acc[x].inbound, b, Now)
      BY <2>1, <2>2, <2>5, <3>2 DEF Planned
    <3>3. /\ \A t \in b.todo : Named(t.id, b, Now)
          /\ \A w \in b.pending : Named(w.row.user, b, Now)
      BY <1>4, <2>1, <2>2, <2>7, <2>8, <2>9 DEF Planned
    <3>4. Idle(b) => b.pending = {} /\ \A t \in b.todo : t.row = Now.us[t.id]
      <4>1. Idle(o) => ToPatch(o) = {} BY DEF Idle, ChangesRuntime, ToPatch
      <4>2. Idle(o) => b.pending = {} BY <1>4, <4>1 DEF Patched
      <4> QED BY <1>4, <2>1, <2>6, <4>2 DEF Planned
    <3> QED BY <2>2, <2>3, <2>6, <3>1, <3>2, <3>3, <3>4 DEF Planned
  <2>11. Promises(b) => Now.stale \subseteq b.stale \cup TargetsIn(b, Now)
    <3>1. Owed(o, Now) = TargetsIn(o, Now) BY <1>0 DEF Owed
    <3> QED BY <2>1, <2>3, <2>4, <2>6, <3>1 DEF Drafts
  <2>12. Now.dated \subseteq b.dated BY <1>0, <2>1, <2>2, <2>3 DEF Marks, ToMark
  <2> QED BY <2>2, <2>3, <2>10, <2>11, <2>12 DEF Ready
<1>7. Targets(b) = TargetsIn(b, Now) BY TargetsAre, Fields
<1> QED BY <1>0, <1>1, <1>2, <1>3, <1>4, <1>6, <1>7, AdvanceCarries DEF SameButPlan

-----------------------------------------------------------------------------
(***************************************************************************)
(* Users.                                                                  *)
(***************************************************************************)
(* Most of what is said of a request depends on the rows alone. *)
LEMMA SameRows ==
    ASSUME NEW o, NEW v, NEW w, w.ins = v.ins, w.us = v.us, w.acc = v.acc
    PROVE  /\ TargetsIn(o, w) = TargetsIn(o, v)
           /\ Planned(o, w) <=> Planned(o, v)
           /\ Ensured(o, w) <=> Ensured(o, v)
           /\ \A u, x : Held(u, x, w) <=> Held(u, x, v)
<1>1. TargetsIn(o, w) = TargetsIn(o, v) BY DEF TargetsIn
<1>2. \A i : OnTarget(i, o, w) <=> OnTarget(i, o, v) BY <1>1 DEF OnTarget
<1>3. \A x : AsRead(x, o, w) <=> AsRead(x, o, v) BY <1>2 DEF AsRead
<1>4. \A u : Named(u, o, w) <=> Named(u, o, v) BY DEF Named
<1>5. Planned(o, w) <=> Planned(o, v) BY <1>2, <1>3, <1>4 DEF Planned
<1> QED BY <1>1, <1>5 DEF Ensured, Held, Serving

LEMMA MarkUserHealthy ==
    ASSUME HInv, UInv', IdsUsed', NEW p \in Procs, MarkUser(p) PROVE HInv'
<1> DEFINE o == op[p]
<1>0. o.pc = "mark" BY DEF MarkUser, At
<1>1. o \in OpOK /\ o \in Op /\ WellFormed(o.req) /\ Tables /\ Rows /\ ~Free(p)
      /\ o.req.kind \in Kinds /\ Provisioning(o, DOMAIN users, DOMAIN inbounds, access)
  BY <1>0, Calmly
<1>2. /\ UNCHANGED <<inbounds, users, access, drafted>>
      /\ fresh' = Without(fresh, {o.user})
  BY DEF MarkUser, rows
<1>3. /\ Now'.ins = Now.ins /\ Now'.us = Now.us /\ Now'.acc = Now.acc
      /\ Now'.stale = Now.stale
  BY <1>2, StaleSame, Fields
<1>4. Now'.dated \subseteq Now.dated \ {o.user}
  <2>1. ASSUME NEW u \in Dated' PROVE u \in Dated /\ u # o.user
    <3>1. u \in DOMAIN fresh' \cap DOMAIN users' /\ fresh'[u] # DocumentOf(u)' BY DEF Dated
    <3>2. u \in DOMAIN fresh /\ u # o.user /\ fresh'[u] = fresh[u]
      BY <1>2, <3>1 DEF Without, Restrict
    <3>3. DocumentOf(u)' = DocumentOf(u) BY <1>2 DEF DocumentOf
    <3> QED BY <1>2, <3>1, <3>2, <3>3 DEF Dated
  <2> QED BY <2>1, Fields
<1>5. PICK a \in Marked(o) : Go(p, a) BY DEF MarkUser, GoTo
<1>6. Calm(o) => /\ Shape(o) /\ AtHand(o, Now) /\ Drafts(o, Now) /\ Marks(o, Now)
                 /\ Serves(o, Now) /\ Planned(o, Now)
  BY <1>0, Calmly
<1>7. Planned(o, Now') <=> Planned(o, Now) BY <1>3, SameRows
<1>8. TargetsIn(o, Now') = TargetsIn(o, Now) BY <1>3, SameRows
<1>9. Calm(o) => /\ Promises(o) => Now'.stale \subseteq o.stale \cup TargetsIn(o, Now')
                 /\ o.req.kind \notin {"deleteInbound", "bulkEnable"} => Now'.dated \subseteq o.dated
  <2>1. Owed(o, Now) = TargetsIn(o, Now) /\ ToMark(o, Now) = {o.user}
    BY <1>0 DEF Owed, ToMark
  <2> QED BY <1>0, <1>3, <1>4, <1>6, <1>8, <2>1 DEF Drafts, Marks
<1>10. Calm(o) => o.req.kind \notin {"render", "bulkDelete", "bulkEnable"}
  BY <1>0, <1>1, <1>6 DEF Shape, StepsOf
<1>11. CASE o.req.kind = "bulkUsers" /\ o.write = None
  <2> DEFINE b == [o EXCEPT !.pc = "list"]
  <2>1. Go(p, b) BY <1>5, <1>11 DEF Marked
  <2>2. /\ b.pc = "list" /\ b.req = o.req /\ b.alone = o.alone /\ b.failed = o.failed
        /\ b.stale = o.stale /\ b.dated = o.dated /\ b.servers = o.servers
        /\ b.pending = o.pending /\ b.todo = o.todo /\ b.user = o.user
    BY <1>1 DEF Op
  <2> HIDE DEF b
  <2>3. ASSUME Calm(o)
        PROVE  Shape(b) /\ AtHand(b, Now') /\ Drafts(b, Now') /\ Marks(b, Now')
               /\ Serves(b, Now') /\ Planned(b, Now')
    <3>1. ~o.req.patch.hard BY <1>0, <1>6, <1>11, <2>3 DEF Shape
    <3>2. Shape(b) BY <1>11, <2>2, <3>1 DEF Shape, StepsOf
    <3>3. AtHand(b, Now')
      <4>1. Named(o.user, o, Now) BY <1>0, <1>6, <1>11, <2>3 DEF AtHand
      <4>2. Named(b.user, b, Now') BY <1>3, <2>2, <4>1 DEF Named
      <4> QED BY <1>11, <2>2, <4>2 DEF AtHand, Writing
    <3>4. Drafts(b, Now')
      <4>1. Owed(b, Now') = TargetsIn(o, Now') BY <2>2 DEF Owed, TargetsIn
      <4> QED BY <1>9, <2>2, <2>3, <4>1 DEF Drafts, Promises
    <3>5. Marks(b, Now') BY <1>9, <1>11, <2>2, <2>3 DEF Marks, ToMark
    <3>6. Serves(b, Now') BY <1>11, <2>2 DEF Serves
    <3>7. Planned(b, Now') BY <1>6, <1>7, <2>2, <2>3, PlanKept
    <3> QED BY <3>2, <3>3, <3>4, <3>5, <3>6, <3>7
  <2> QED BY <1>0, <2>1, <2>2, <2>3, CalmCarries
<1>12. CASE ~(o.req.kind = "bulkUsers" /\ o.write = None)
  <2>1. a \in Advance(o) BY <1>5, <1>12 DEF Marked
  <2>2. ASSUME Calm(o), o.req.kind = "provision" PROVE ProvisionReady(o, Now')
    <3>1. Serves(o, Now) /\ o.alone BY <1>6, <2>2 DEF Calm
    <3>2. o.user \in DOMAIN users /\ \A w \in o.pending : w.row.user = o.user
      BY <1>0, <1>1, <2>2, <3>1 DEF Provisioning, ForUser
    <3>3. /\ o.servers = {DefaultServer} /\ Ensured(o, Now) /\ Now.us[o.user].active
          /\ \A w \in o.pending : w.row.enabled
          /\ \A x \in Protocols : o.default[x] # None /\ Awaited(o, x, Now)
      BY <1>0, <2>2, <3>1 DEF Serves
    <3>4. /\ Ensured(o, Now') <=> Ensured(o, Now)
          /\ \A u, x : Held(u, x, Now') <=> Held(u, x, Now)
      BY <1>3, SameRows
    <3>5. \A x \in Protocols : (\E w \in o.pending : w.row.inbound = o.default[x])
                               \/ Held(o.user, x, Now)
      BY <1>0, <3>3 DEF Awaited
    <3> QED BY <1>3, <3>2, <3>3, <3>4, <3>5, Fields DEF ProvisionReady
  <2>3. Calm(o) => Ready(o, Now') BY <1>6, <1>7, <1>9, <1>10, <2>2 DEF Ready
  <2>4. Targets(o) = TargetsIn(o, Now') BY <1>8, TargetsAre, Fields
  <2> QED BY <1>0, <1>1, <1>5, <2>1, <2>3, <2>4, AdvanceCarries
<1> QED BY <1>11, <1>12

(* Deletion of users: no document of another user is concerned, and no server on *)
(* which they have no access.                                                      *)
LEMMA UsersGone ==
    ASSUME NEW us, NEW fk, RemoveUsers(us, fk), UNCHANGED <<inbounds, drafted>>, NEW T,
           \A a \in DOMAIN access :
              access[a].user \in us /\ access[a].inbound \in DOMAIN inbounds
              => inbounds[access[a].inbound].server \in T
    PROVE  Dated' \subseteq Dated /\ Stale' \subseteq Stale \cup T
<1>1. /\ DOMAIN users' = DOMAIN users \ us
      /\ \A u \in DOMAIN users' : users'[u] = users[u]
  BY DEF RemoveUsers, Without, Restrict
<1>2. ASSUME NEW a \in DOMAIN access, access[a].user \notin us
      PROVE  a \in DOMAIN access'
  BY <1>2 DEF RemoveUsers, Without, Restrict
<1>3. ASSUME NEW a \in DOMAIN access'
      PROVE  a \in DOMAIN access /\ access'[a] = access[a]
  BY DEF RemoveUsers, Without, Restrict
<1>4. ASSUME NEW u \in DOMAIN fresh' PROVE u \in DOMAIN fresh /\ fresh'[u] = fresh[u]
  BY DEF RemoveUsers, Without, Restrict
<1>5. ASSUME NEW u \in DOMAIN users' PROVE DocumentOf(u)' = DocumentOf(u)
  <2>1. u \notin us /\ users'[u] = users[u] BY <1>1
  <2>2. Read(u)' = Read(u) BY <1>2, <1>3, <2>1 DEF Read
  <2>3. ASSUME NEW a \in Read(u) PROVE access'[a] = access[a] BY <1>2, <1>3, <2>1 DEF Read
  <2> QED BY <2>1, <2>2, <2>3, DocumentKept
<1>6. Dated' \subseteq Dated \cup {}
  <2>1. \A u \in (DOMAIN fresh' \cap DOMAIN users') \ {} :
           /\ u \in DOMAIN fresh \cap DOMAIN users
           /\ fresh'[u] = fresh[u] /\ DocumentOf(u)' = DocumentOf(u)
    BY <1>1, <1>4, <1>5
  <2> QED BY <2>1, DatedKept
<1>7. ASSUME NEW s \in Servers \ T PROVE Config(s)' = Config(s)
  <2>1. ASSUME NEW a \in On(s) PROVE access[a].user \notin us /\ a \in DOMAIN access' /\ access'[a] = access[a]
    BY <1>2, <1>3, <1>7 DEF On
  <2>2. On(s)' = On(s) BY <1>3, <2>1 DEF On
  <2>3. ASSUME NEW a \in On(s)
        PROVE  /\ access[a].user \in DOMAIN users <=> access[a].user \in DOMAIN users'
               /\ access[a].user \in DOMAIN users => users'[access[a].user] = users[access[a].user]
    BY <1>1, <2>1
  <2> QED BY <2>1, <2>2, <2>3, ConfigKept
<1> QED BY <1>6, <1>7, StaleKept

LEMMA RemoveUserHealthy ==
    ASSUME HInv, UInv', IdsUsed', NEW p \in Procs, RemoveUser(p) PROVE HInv'
<1> DEFINE o == op[p]
<1>0. o.pc = "remove" BY DEF RemoveUser, At
<1>1. o \in OpOK /\ o \in Op /\ WellFormed(o.req) /\ Tables /\ ~Free(p) /\ o.req.kind \in Kinds
  BY <1>0, Calmly
<1>2. o.req.kind # "provision" BY <1>0, <1>1 DEF OpOK, ProvisionPcs
<1>3. CASE o.user \in DOMAIN users
  <2>1. PICK fk \in ForeignKeys : RemoveUsers({o.user}, fk) BY <1>3 DEF RemoveUser
  <2>2. PICK a \in Advance(o) : Go(p, a) BY <1>3 DEF RemoveUser, GoTo
  <2>3. UNCHANGED <<inbounds, drafted>> BY DEF RemoveUser
  <2>4. /\ DOMAIN users' \subseteq DOMAIN users
        /\ \A x \in DOMAIN access' : x \in DOMAIN access /\ access'[x] = access[x]
    BY <2>1 DEF RemoveUsers, Without, Restrict
  <2>5. Now'.ins = Now.ins BY <2>3, Fields
  <2>6. TargetsIn(o, Now') = TargetsIn(o, Now) BY <2>5 DEF TargetsIn
  <2>7. ASSUME Calm(o) PROVE Ready(o, Now')
    <3>1. /\ Shape(o) /\ AtHand(o, Now) /\ Drafts(o, Now) /\ Marks(o, Now) /\ Planned(o, Now)
      BY <1>0, <2>7, Calmly
    <3>2. o.req.kind \in {"deleteUser", "bulkUsers"}
      BY <1>0, <1>1, <3>1 DEF Shape, StepsOf, Kinds, ProvisionPcs
    <3>3. o.req.kind = "bulkUsers" => o.req.patch.hard BY <1>0, <3>1 DEF Shape
    <3>4. o.pending = {} /\ ~Idle(o) BY <3>1, <3>2, <3>3 DEF Planned, Idle, ChangesRuntime
    <3>5. Promises(o) BY <1>1, <3>2, <3>3 DEF Promises, ChangesRuntime, WellFormed
    <3>6. ASSUME NEW x \in DOMAIN access, access[x].user \in {o.user},
                 access[x].inbound \in DOMAIN inbounds
          PROVE  inbounds[access[x].inbound].server \in TargetsIn(o, Now)
      <4>1. CASE o.req.kind = "deleteUser"
        <5>1. inbounds[access[x].inbound] \in InboundRow
          BY <1>1, <3>6, RowOfTable DEF Tables, Rows
        <5> QED BY <4>1, <5>1 DEF TargetsIn, InboundRow
      <4>2. CASE o.req.kind = "bulkUsers"
        <5>1. o.user \in o.req.users BY <1>0, <3>1, <4>2 DEF AtHand, Named
        <5>2. OnTarget(access[x].inbound, o, Now)
          BY <1>3, <3>1, <3>4, <3>5, <3>6, <4>2, <5>1, Fields DEF Planned
        <5> QED BY <3>6, <5>2, Fields DEF OnTarget
      <4> QED BY <3>2, <4>1, <4>2
    <3>7. Dated' \subseteq Dated /\ Stale' \subseteq Stale \cup TargetsIn(o, Now)
      BY <2>1, <2>3, <3>6, UsersGone
    <3>8. Now'.stale \subseteq o.stale \cup TargetsIn(o, Now')
      <4>1. Stale \subseteq o.stale \cup TargetsIn(o, Now)
        BY <1>0, <3>1, <3>5, Fields DEF Drafts, Owed
      <4> QED BY <2>6, <3>7, <4>1, Fields
    <3>9. Now'.dated \subseteq o.dated
      <4>1. Dated \subseteq o.dated BY <1>0, <3>1, <3>2, Fields DEF Marks, ToMark
      <4> QED BY <3>7, <4>1, Fields
    <3>10. Planned(o, Now')
      <4>1. \A i : OnTarget(i, o, Now') <=> OnTarget(i, o, Now) BY <2>5, <2>6 DEF OnTarget
      <4>2. o.req.kind = "bulkUsers" =>
              /\ o.req.patch.to # None => OnTarget(o.req.patch.to, o, Now')
              /\ \A x \in DOMAIN access' : access'[x].user \in o.req.users \cap DOMAIN users'
                                           => OnTarget(access'[x].inbound, o, Now')
        BY <2>4, <3>1, <3>4, <3>5, <4>1, Fields DEF Planned
      <4>3. o.req.kind = "bulkUsers" => \A t \in o.todo : Named(t.id, o, Now')
        BY <3>1, <3>3 DEF Planned, Named
      <4>4. o.req.kind # "bulkUsers" => o.todo = {} BY <3>1 DEF Planned
      <4> QED BY <3>4, <4>2, <4>3, <4>4, Fields DEF Planned
    <3> QED BY <3>2, <3>8, <3>9, <3>10 DEF Ready
  <2>8. Targets(o) = TargetsIn(o, Now') BY <2>6, TargetsAre, Fields
  <2> QED BY <1>0, <1>1, <2>2, <2>7, <2>8, AdvanceCarries
<1>4. CASE o.user \notin DOMAIN users
  <2>1. Go(p, Answer(o, "error")) BY <1>4 DEF RemoveUser
  <2> QED BY <1>0, <1>2, <2>1, ErrorCarries
<1> QED BY <1>3, <1>4

LEMMA OkCarries ==
    ASSUME HInv, UInv', IdsUsed', NEW p \in Procs, op[p].pc \notin {"idle", "done"},
           op[p].req.kind # "provision", Go(p, Answer(op[p], "ok")),
           Calm(op[p]) =>
              /\ Promises(op[p]) => Stale' \subseteq op[p].stale
              /\ op[p].req.kind \notin {"deleteInbound", "bulkEnable"} => Dated' \subseteq op[p].dated
    PROVE  HInv'
<1> DEFINE o == op[p]
           a == Answer(o, "ok")
<1>1. o \in Op /\ o.req \in Requests /\ o.req.kind \in Kinds BY Calmly
<1>2. /\ a.req = o.req /\ a.pc = "done" /\ a.result = "ok" /\ a.alone = o.alone
      /\ a.failed = o.failed /\ a.stale = o.stale /\ a.dated = o.dated
  BY <1>1, AnswerFields DEF Results
<1>3. Go(p, a) OBVIOUS
<1> HIDE DEF a
<1>4. Shape(a) BY <1>1, <1>2, DoneShape
<1>5. AtHand(a, Now') BY <1>2 DEF AtHand, Writing
<1>6. Calm(o) => Drafts(a, Now') BY <1>2, Fields DEF Drafts, Owed, Promises
<1>7. Calm(o) => Marks(a, Now') BY <1>2, Fields DEF Marks
<1>8. Serves(a, Now') BY <1>2 DEF Serves
<1> QED BY <1>2, <1>3, <1>4, <1>5, <1>6, <1>7, <1>8, CalmCarries

LEMMA BatchHealthy ==
    ASSUME HInv, UInv', IdsUsed', NEW p \in Procs, Batch(p) PROVE HInv'
<1> DEFINE o == op[p]
<1>0. o.pc = "batch" BY DEF Batch, At
<1>1. o \in OpOK /\ o.req.kind \in Kinds /\ Tables BY <1>0, Calmly
<1>2. o.req.kind # "provision" BY <1>0, <1>1 DEF OpOK, ProvisionPcs
<1>3. Go(p, Answer(o, "ok")) /\ UNCHANGED <<inbounds, drafted>> BY DEF Batch
<1>4. ASSUME Calm(o)
      PROVE  /\ ~Promises(o)
             /\ o.req.kind \notin {"deleteInbound", "bulkEnable"} => Dated' \subseteq o.dated
  <2>1. Shape(o) /\ Marks(o, Now) BY <1>0, <1>4, Calmly
  <2>2. o.req.kind \in {"bulkDelete", "bulkEnable"}
    BY <1>0, <1>1, <2>1 DEF Shape, StepsOf, Kinds, ProvisionPcs
  <2>3. CASE o.req.kind = "bulkDelete"
    <3>1. PICK fk \in ForeignKeys : RemoveUsers(o.req.users \cap DOMAIN users, fk)
      BY <2>3 DEF Batch
    <3>2. ASSUME NEW a \in DOMAIN access, access[a].inbound \in DOMAIN inbounds
          PROVE  inbounds[access[a].inbound].server \in Servers
      <4>1. inbounds[access[a].inbound] \in InboundRow
        BY <1>1, <3>2, RowOfTable DEF Tables, Rows
      <4> QED BY <4>1 DEF InboundRow
    <3>3. Dated' \subseteq Dated BY <1>3, <3>1, <3>2, UsersGone
    <3>4. Dated \subseteq o.dated BY <1>0, <2>1, <2>3, Fields DEF Marks, ToMark
    <3> QED BY <2>2, <3>3, <3>4 DEF Promises
  <2> QED BY <2>2, <2>3 DEF Promises
<1> QED BY <1>0, <1>2, <1>3, <1>4, OkCarries

LEMMA RollBackHealthy ==
    ASSUME HInv, UInv', IdsUsed', NEW p \in Procs, RollBack(p) PROVE HInv'
<1>0. op[p].pc = "rollback" /\ Go(p, Answer(op[p], "error")) BY DEF RollBack, At
<1>1. ~(Calm(op[p]) /\ op[p].req.kind = "provision") BY <1>0, Calmly DEF Serves
<1> QED BY <1>0, <1>1, ErrorCarries

LEMMA RenderDocumentHealthy ==
    ASSUME HInv, UInv', IdsUsed', NEW p \in Procs, RenderDocument(p) PROVE HInv'
<1> DEFINE o == op[p]
<1>0. o.pc = "render" BY DEF RenderDocument, At
<1>1. o \in OpOK /\ o.req.kind \in Kinds /\ Tables BY <1>0, Calmly
<1>2. o.req.kind # "provision" BY <1>0, <1>1 DEF OpOK, ProvisionPcs
<1>3. UNCHANGED <<inbounds, users, access, drafted>> BY DEF RenderDocument, rows
<1>4. CASE o.user \in DOMAIN users
  <2>1. fresh' = Put(fresh, o.user, DocumentOf(o.user)) /\ Go(p, Answer(o, "ok"))
    BY <1>4 DEF RenderDocument
  <2>2. Stale' = Stale BY <1>3, StaleSame
  <2>3. Dated' \subseteq Dated
    <3>1. ASSUME NEW u \in Dated' PROVE u \in Dated
      <4>1. u \in DOMAIN fresh' \cap DOMAIN users' /\ fresh'[u] # DocumentOf(u)' BY DEF Dated
      <4>2. DocumentOf(u)' = DocumentOf(u) BY <1>3 DEF DocumentOf
      <4>3. u # o.user
        <5>1. fresh'[o.user] = DocumentOf(o.user) BY <2>1 DEF Put
        <5> QED BY <4>1, <4>2, <5>1
      <4>4. u \in DOMAIN fresh /\ fresh'[u] = fresh[u] BY <2>1, <4>1, <4>3 DEF Put
      <4> QED BY <1>3, <4>1, <4>2, <4>4 DEF Dated
    <3> QED BY <3>1
  <2>4. ASSUME Calm(o) PROVE (Promises(o) => Stale \subseteq o.stale) /\ Dated \subseteq o.dated
    <3>1. Shape(o) /\ Drafts(o, Now) /\ Marks(o, Now) BY <1>0, <2>4, Calmly
    <3>2. o.req.kind = "render"
      BY <1>0, <1>1, <3>1 DEF Shape, StepsOf, Kinds, ProvisionPcs
    <3>3. Owed(o, Now) = {} BY <1>0, <3>1, <3>2 DEF Owed, TargetsIn, Shape
    <3> QED BY <1>0, <3>1, <3>2, <3>3, Fields DEF Drafts, Marks, ToMark
  <2> QED BY <1>0, <1>2, <2>1, <2>2, <2>3, <2>4, OkCarries
<1>5. CASE o.user \notin DOMAIN users
  <2>1. Go(p, Answer(o, "error")) BY <1>5 DEF RenderDocument
  <2> QED BY <1>0, <1>2, <2>1, ErrorCarries
<1> QED BY <1>4, <1>5

LEMMA UserWritten ==
    ASSUME NEW u, NEW row, users' = Put(users, u, row), NEW T,
           UNCHANGED <<inbounds, access, drafted, fresh>>,
           \A a \in DOMAIN access : access[a].user = u /\ access[a].inbound \in DOMAIN inbounds
                                    => inbounds[access[a].inbound].server \in T
    PROVE  Dated' \subseteq Dated \cup {u} /\ Stale' \subseteq Stale \cup T
<1>1. /\ DOMAIN users' = DOMAIN users \cup {u} /\ users'[u] = row
      /\ \A v \in DOMAIN users : v # u => users'[v] = users[v]
  BY DEF Put
<1>2. ASSUME NEW v \in (DOMAIN fresh' \cap DOMAIN users') \ {u}
      PROVE  /\ v \in DOMAIN fresh \cap DOMAIN users
             /\ fresh'[v] = fresh[v] /\ DocumentOf(v)' = DocumentOf(v)
  <2>1. v \in DOMAIN users /\ users'[v] = users[v] BY <1>1
  <2>2. Read(v)' = Read(v) BY DEF Read
  <2>3. DocumentOf(v)' = DocumentOf(v) BY <2>1, <2>2, DocumentKept
  <2> QED BY <2>1, <2>3
<1>3. ASSUME NEW s \in Servers \ T PROVE Config(s)' = Config(s)
  <2>1. On(s)' = On(s) BY DEF On
  <2>2. ASSUME NEW a \in On(s) PROVE access[a].user # u BY DEF On
  <2>3. ASSUME NEW a \in On(s)
        PROVE  /\ access[a].user \in DOMAIN users <=> access[a].user \in DOMAIN users'
               /\ access[a].user \in DOMAIN users => users'[access[a].user] = users[access[a].user]
    BY <1>1, <2>2
  <2> QED BY <2>1, <2>3, ConfigKept
<1> QED BY <1>2, <1>3, DatedKept, StaleKept

LEMMA SameUsers ==
    ASSUME Rows, NEW u \in DOMAIN users PROVE Put(users, u, users[u]) = users
<1>1. users = [v \in DOMAIN users |-> users[v]] BY DEF Rows, IsTable
<1> QED BY <1>1 DEF Put

LEMMA WriteUserHealthy ==
    ASSUME HInv, UInv', IdsUsed', NEW p \in Procs, WriteUser(p) PROVE HInv'
<1> DEFINE o == op[p]
           row == o.userRow
<1>0. o.pc = "user" BY DEF WriteUser, At
<1>1. o \in OpOK /\ o \in Op /\ WellFormed(o.req) /\ Tables /\ Rows /\ o.req.kind \in Kinds
      /\ Provisioning(o, DOMAIN users, DOMAIN inbounds, access)
  BY <1>0, Calmly
<1>2. UNCHANGED <<inbounds, access, drafted, fresh>> BY DEF WriteUser
<1>3. PICK u \in (IF o.user = None THEN Users \ usedIds ELSE {o.user}) :
        IF NameTaken(u, row.name)
        THEN Go(p, Answer(o, "error")) /\ UNCHANGED <<users, usedIds>>
        ELSE /\ users' = Put(users, u, row)
             /\ Go(p, [o EXCEPT !.pc = "userBack", !.user = u,
                                !.pending = IF o.req.kind = "provision"
                                            THEN Provisioned(o, u) ELSE {}])
  BY DEF WriteUser
<1>4. Calm(o) => Shape(o) /\ AtHand(o, Now) /\ Drafts(o, Now) /\ Marks(o, Now) /\ Serves(o, Now)
                 /\ Planned(o, Now)
  BY <1>0, Calmly
<1>5. CASE NameTaken(u, row.name)
  <2>1. Go(p, Answer(o, "error")) /\ users' = users BY <1>3, <1>5
  <2>2. ASSUME Calm(o), o.req.kind = "provision" PROVE Cause(o, Now')
    <3>1. row.name = o.req.patch.name BY <1>0, <1>4, <2>2 DEF Serves
    <3>2. \E v \in DOMAIN users : users[v].name = o.req.patch.name
      BY <1>5, <3>1 DEF NameTaken
    <3> QED BY <2>1, <3>2, Fields DEF Cause
  <2> QED BY <1>0, <2>1, <2>2, ErrorCarries
<1>6. CASE ~NameTaken(u, row.name)
  <2> DEFINE ws == IF o.req.kind = "provision" THEN Provisioned(o, u) ELSE {}
             b == [o EXCEPT !.pc = "userBack", !.user = u, !.pending = ws]
  <2>1. users' = Put(users, u, row) /\ Go(p, b) BY <1>3, <1>6
  <2>2. o.req.kind # "provision" => ws = {} OBVIOUS
  <2>3. o.req.kind = "provision" => ws = Provisioned(o, u) OBVIOUS
  <2> HIDE DEF ws
  <2>4. /\ b.pc = "userBack" /\ b.req = o.req /\ b.alone = o.alone /\ b.failed = o.failed
        /\ b.stale = o.stale /\ b.dated = o.dated /\ b.servers = o.servers
        /\ b.pending = ws /\ b.todo = o.todo /\ b.user = u /\ b.default = o.default
    BY <1>1 DEF Op
  <2> HIDE DEF b
  <2>5. /\ DOMAIN users' = DOMAIN users \cup {u} /\ users'[u] = row
        /\ \A v \in DOMAIN users : v # u => users'[v] = users[v]
    BY <2>1 DEF Put
  <2>6. /\ TargetsIn(b, Now') = TargetsIn(o, Now)
        /\ \A i : OnTarget(i, b, Now') <=> OnTarget(i, o, Now)
        /\ Promises(b) = Promises(o) /\ Idle(b) = Idle(o) /\ Withdrawing(b) = Withdrawing(o)
    BY <1>2, <2>4, Fields DEF TargetsIn, OnTarget, Promises, Idle, Withdrawing
  <2>7. ASSUME Calm(o)
        PROVE  Shape(b) /\ AtHand(b, Now') /\ Drafts(b, Now') /\ Marks(b, Now') /\ Serves(b, Now')
               /\ Planned(b, Now')
    <3>1. /\ Shape(o) /\ AtHand(o, Now) /\ Drafts(o, Now) /\ Marks(o, Now) /\ Serves(o, Now)
          /\ Planned(o, Now)
      BY <1>4, <2>7
    <3>2. o.req.kind \in {"provision", "create", "update", "bulkUsers"} /\ ~o.req.patch.hard
      BY <1>0, <1>1, <3>1 DEF Shape, StepsOf, Kinds
    <3>3. ~Withdrawing(o) BY <3>2 DEF Withdrawing
    <3>4. o.req.kind = "bulkUsers" => o.user \in o.req.users /\ o.user \in DOMAIN users /\ u = o.user
      <4>1. o.req.kind = "bulkUsers" => o.user \in o.req.users /\ o.user \in DOMAIN users
        BY <1>0, <3>1, <3>2, Fields DEF AtHand, Named
      <4>2. o.user \in DOMAIN users => o.user # None BY <1>1, NoneIsApart DEF Rows, IsTable
      <4> QED BY <1>3, <4>1, <4>2
    <3>5. o.req.kind = "provision" => u \notin usedIds
      <4>1. o.req.kind = "provision" => o.user = None BY <1>0, <1>1, <2>7 DEF Provisioning, Calm
      <4> QED BY <1>3, <4>1
    <3>6. Idle(o) => users' = users
      <4>1. Idle(o) => row = users[o.user] BY <1>0, <3>1, Fields DEF AtHand
      <4> QED BY <1>1, <2>1, <3>4, <4>1, SameUsers DEF Idle
    <3>7. Dated' \subseteq Dated \cup {u}
      <4>1. \A a \in DOMAIN access : access[a].user = u /\ access[a].inbound \in DOMAIN inbounds
               => inbounds[access[a].inbound].server
                  \in {inbounds[access[x].inbound].server : x \in DOMAIN access}
        OBVIOUS
      <4> QED BY <1>2, <2>1, <4>1, UserWritten
    <3>8. ASSUME Promises(o) PROVE Stale' \subseteq o.stale \cup TargetsIn(o, Now)
      <4>1. Stale \subseteq o.stale \cup TargetsIn(o, Now)
        BY <1>0, <3>1, <3>8, Fields DEF Drafts, Owed
      <4>2. CASE Idle(o)
        <5>1. Stale' = Stale BY <1>2, <3>6, <4>2, StaleSame
        <5> QED BY <4>1, <5>1
      <4>3. CASE o.req.kind \in {"create", "update"}
        <5>1. TargetsIn(o, Now) = Servers BY <4>3 DEF TargetsIn
        <5>2. Stale' \subseteq Servers BY NextTyped, Fields
        <5> QED BY <5>1, <5>2
      <4>4. CASE o.req.kind = "provision"
        <5>1. \A a \in DOMAIN access : access[a].user # u BY <3>5, <4>4 DEF HInv, IdsUsed
        <5>2. Stale' \subseteq Stale \cup {} BY <1>2, <2>1, <5>1, UserWritten
        <5> QED BY <4>1, <5>2
      <4>5. CASE o.req.kind = "bulkUsers" /\ ~Idle(o)
        <5>1. ASSUME NEW a \in DOMAIN access, access[a].user = u,
                     access[a].inbound \in DOMAIN inbounds
              PROVE  inbounds[access[a].inbound].server \in TargetsIn(o, Now)
          <6>1. access[a].user \in o.req.users \cap DOMAIN users BY <3>4, <4>5, <5>1
          <6>2. OnTarget(access[a].inbound, o, Now) BY <3>1, <3>8, <4>5, <6>1, Fields DEF Planned
          <6> QED BY <5>1, <6>2, Fields DEF OnTarget
        <5>2. Stale' \subseteq Stale \cup TargetsIn(o, Now) BY <1>2, <2>1, <5>1, UserWritten
        <5> QED BY <4>1, <5>2
      <4> QED BY <3>2, <4>2, <4>3, <4>4, <4>5
    <3>9. Shape(b) BY <2>4, <3>2 DEF Shape, StepsOf, ProvisionPcs
    <3>10. AtHand(b, Now')
      <4>1. o.req.kind = "bulkUsers" => Named(u, b, Now') BY <2>4, <2>5, <3>4, Fields DEF Named
      <4> QED BY <2>4, <4>1 DEF AtHand, Writing
    <3>11. Drafts(b, Now')
      <4>1. Owed(b, Now') = TargetsIn(o, Now) BY <2>4, <2>6 DEF Owed
      <4> QED BY <2>4, <2>6, <3>8, <4>1, Fields DEF Drafts
    <3>12. Marks(b, Now')
      <4>1. Dated \subseteq o.dated BY <1>0, <3>1, <3>2, Fields DEF Marks, ToMark
      <4>2. ToMark(b, Now') = {u} BY <2>4 DEF ToMark
      <4> QED BY <2>4, <3>7, <4>1, <4>2, Fields DEF Marks
    <3>13. ASSUME o.req.kind = "provision"
           PROVE  /\ o.servers = {DefaultServer} /\ Ensured(b, Now')
                  /\ row.active
                  /\ \A x \in Protocols : o.default[x] # None
                  /\ \A w \in ws : w.row.enabled /\ \E x \in Protocols : w.row.inbound = o.default[x]
                  /\ \A x \in Protocols : \E w \in ws : w.row.inbound = o.default[x]
      <4>1. o.servers = {DefaultServer} /\ Ensured(o, Now) /\ row.active
        BY <1>0, <3>1, <3>13 DEF Serves
      <4>2. Ensured(b, Now') BY <1>2, <2>4, <4>1, Fields DEF Ensured
      <4>3. \A x \in Protocols : o.default[x] # None
        BY <1>0, <1>1, <3>13, NoneIsApart DEF OpOK
      <4> DEFINE new(x) == [id |-> None, row |-> [user |-> u, inbound |-> o.default[x],
                              enabled |-> TRUE, vless |-> 0, hysteria2 |-> 0]]
      <4>4. ws = {new(x) : x \in Protocols} BY <2>3, <3>13 DEF Provisioned
      <4>5. \A x : new(x).row.enabled /\ new(x).row.inbound = o.default[x] OBVIOUS
      <4> HIDE DEF new
      <4> QED BY <4>1, <4>2, <4>3, <4>4, <4>5
    <3>14. Serves(b, Now')
      <4> SUFFICES ASSUME o.req.kind = "provision" PROVE Serves(b, Now') BY <2>4 DEF Serves
      <4>1. \A x \in Protocols : Awaited(b, x, Now') BY <2>4, <3>13 DEF Awaited
      <4> QED BY <2>4, <2>5, <3>13, <4>1, Fields DEF Serves
    <3>15. Planned(b, Now')
      <4>1. \A w \in ws : OnTarget(w.row.inbound, b, Now')
        <5> SUFFICES ASSUME NEW w \in ws PROVE OnTarget(w.row.inbound, b, Now') OBVIOUS
        <5>1. o.req.kind = "provision" BY <2>2
        <5>2. PICK x \in Protocols : w.row.inbound = o.default[x] /\ o.default[x] # None
          BY <3>13, <5>1
        <5>3. Now'.ins[w.row.inbound].server = DefaultServer
          BY <2>4, <3>13, <5>1, <5>2 DEF Ensured
        <5> QED BY <2>4, <3>13, <5>1, <5>3 DEF OnTarget, TargetsIn
      <4>2. o.req.kind = "bulkUsers" => DOMAIN users' = DOMAIN users BY <2>5, <3>4
      <4>3. Promises(o) /\ ~Idle(o) /\ o.req.kind = "bulkUsers" =>
              /\ o.req.patch.to # None => OnTarget(o.req.patch.to, b, Now')
              /\ \A a \in DOMAIN access : access[a].user \in o.req.users \cap DOMAIN users'
                                          => OnTarget(access[a].inbound, b, Now')
        BY <2>6, <3>1, <4>2, Fields DEF Planned
      <4>4. o.req.kind = "bulkUsers" => \A t \in o.todo : Named(t.id, b, Now')
        BY <2>4, <3>1, <4>2, Fields DEF Planned, Named
      <4>5. Idle(o) => \A t \in o.todo : t.row = users'[t.id]
        BY <3>1, <3>6, Fields DEF Planned
      <4>6. o.req.kind # "bulkUsers" => o.todo = {} BY <3>1 DEF Planned
      <4>7. o.req.kind # "provision" => b.pending = {} BY <2>2, <2>4
      <4>8. Idle(o) => o.req.kind # "provision" BY DEF Idle
      <4> QED BY <1>2, <2>4, <2>6, <3>3, <4>1, <4>3, <4>4, <4>5, <4>6, <4>7, <4>8, Fields DEF Planned
    <3> QED BY <3>9, <3>10, <3>11, <3>12, <3>14, <3>15
  <2> QED BY <1>0, <2>1, <2>4, <2>7, CalmCarries
<1> QED BY <1>5, <1>6


(* A row that is read back as it was written: its mark is what comes next. *)
LEMMA ReadBackCarries ==
    ASSUME HInv, UInv', IdsUsed', NEW p \in Procs,
           op[p].pc \in {"userBack", "accessBack", "inboundBack"}, Now' = Now,
           NEW pc, pc = (IF op[p].pc = "inboundBack" THEN "markServer" ELSE "mark"),
           Go(p, [op[p] EXCEPT !.pc = pc])
    PROVE  HInv'
<1> DEFINE o == op[p]
           b == [o EXCEPT !.pc = pc]
<1>1. o \in Op /\ o.req.kind \in Kinds BY Calmly
<1>2. /\ b.pc = pc /\ b.req = o.req /\ b.alone = o.alone /\ b.failed = o.failed
      /\ b.stale = o.stale /\ b.dated = o.dated /\ b.servers = o.servers
      /\ b.pending = o.pending /\ b.todo = o.todo /\ b.user = o.user
      /\ b.default = o.default /\ b.userRow = o.userRow
  BY <1>1 DEF Op
<1>3. Go(p, b) OBVIOUS
<1> HIDE DEF b
<1>4. ASSUME Calm(o)
      PROVE  Shape(b) /\ AtHand(b, Now) /\ Drafts(b, Now) /\ Marks(b, Now) /\ Serves(b, Now)
             /\ Planned(b, Now)
  <2>1. /\ Shape(o) /\ AtHand(o, Now) /\ Drafts(o, Now) /\ Marks(o, Now) /\ Serves(o, Now)
        /\ Planned(o, Now)
    BY <1>4, Calmly
  <2>2. /\ o.pc = "userBack" => o.req.kind \in {"provision", "create", "update", "bulkUsers"}
        /\ o.pc = "accessBack" => o.req.kind \in {"provision", "grant", "bulkUsers", "bulkAccess"}
        /\ o.pc = "inboundBack" => o.req.kind \in {"provision", "updateInbound"}
        /\ o.pc # "inboundBack" => ~o.req.patch.hard
    BY <1>1, <2>1 DEF Shape, StepsOf, Kinds
  <2>3. Shape(b) BY <1>2, <2>2 DEF Shape, StepsOf, ProvisionPcs
  <2>4. AtHand(b, Now)
    <3>1. o.req.kind = "bulkUsers" => Named(b.user, b, Now) BY <1>2, <2>1 DEF AtHand, Named
    <3> QED BY <1>2, <3>1 DEF AtHand, Writing
  <2>5. Drafts(b, Now) /\ Marks(b, Now) BY <1>2, <2>1, ReadsBack
  <2>6. Serves(b, Now)
    <3> SUFFICES ASSUME o.req.kind = "provision" PROVE Serves(b, Now) BY <1>2 DEF Serves
    <3>1. Ensured(b, Now) /\ o.servers = {DefaultServer}
      BY <1>2, <2>1 DEF Serves, Ensured
    <3>2. CASE o.pc = "inboundBack" BY <1>2, <2>1, <3>1, <3>2 DEF Serves
    <3>3. CASE o.pc # "inboundBack"
      <4>1. \A x \in Protocols : Awaited(b, x, Now) BY <1>2, <2>1, <3>3 DEF Serves, Awaited
      <4> QED BY <1>2, <2>1, <3>1, <3>3, <4>1 DEF Serves
    <3> QED BY <3>2, <3>3
  <2>7. Planned(b, Now) BY <1>2, <2>1, PlanKept
  <2> QED BY <2>3, <2>4, <2>5, <2>6, <2>7
<1> QED BY <1>2, <1>3, <1>4, CalmCarries

LEMMA ReadUserBackHealthy ==
    ASSUME HInv, UInv', IdsUsed', NEW p \in Procs, ReadUserBack(p) PROVE HInv'
<1> DEFINE o == op[p]
<1>0. o.pc = "userBack" BY DEF ReadUserBack, At
<1>1. Now' = Now BY NowSame DEF ReadUserBack, rows
<1>2. CASE o.user \in DOMAIN users
  <2>1. Go(p, [o EXCEPT !.pc = "mark"]) BY <1>2 DEF ReadUserBack
  <2> QED BY <1>0, <1>1, <2>1, ReadBackCarries
<1>3. CASE o.user \notin DOMAIN users
  <2>1. Go(p, Answer(o, "error")) BY <1>3 DEF ReadUserBack
  <2>2. ~(Calm(o) /\ o.req.kind = "provision")
    BY <1>0, <1>3, Calmly DEF Calm, Provisioning
  <2> QED BY <1>0, <2>1, <2>2, ErrorCarries
<1> QED BY <1>2, <1>3
-----------------------------------------------------------------------------
(***************************************************************************)
(* Accesses.                                                               *)
(***************************************************************************)
(* Changes of the accesses of one user concern its document and their servers. *)
LEMMA AccessChanged ==
    ASSUME UNCHANGED <<inbounds, users, drafted, fresh>>, NEW u, NEW T,
           \A a \in DOMAIN access \cup DOMAIN access' :
              \/ /\ a \in DOMAIN access /\ a \in DOMAIN access'
                 /\ access'[a] = access[a]
              \/ /\ a \in DOMAIN access =>
                       /\ access[a].user = u
                       /\ access[a].inbound \in DOMAIN inbounds =>
                             inbounds[access[a].inbound].server \in T
                 /\ a \in DOMAIN access' =>
                       /\ access'[a].user = u
                       /\ access'[a].inbound \in DOMAIN inbounds =>
                             inbounds[access'[a].inbound].server \in T
    PROVE  Dated' \subseteq Dated \cup {u} /\ Stale' \subseteq Stale \cup T
<1>1. ASSUME NEW v \in (DOMAIN fresh' \cap DOMAIN users') \ {u}
      PROVE  /\ v \in DOMAIN fresh \cap DOMAIN users
             /\ fresh'[v] = fresh[v] /\ DocumentOf(v)' = DocumentOf(v)
  <2>1. Read(v)' = Read(v) BY DEF Read
  <2>2. \A a \in Read(v) : access'[a] = access[a] BY DEF Read
  <2>3. DocumentOf(v)' = DocumentOf(v) BY <2>1, <2>2, DocumentKept
  <2> QED BY <2>3
<1>2. ASSUME NEW s \in Servers \ T PROVE Config(s)' = Config(s)
  <2>1. ASSUME NEW a \in On(s) PROVE a \in DOMAIN access' /\ access'[a] = access[a] BY <1>2 DEF On
  <2>2. ASSUME NEW a \in On(s)' PROVE a \in DOMAIN access /\ access'[a] = access[a] BY <1>2 DEF On
  <2>3. On(s)' = On(s) BY <2>1, <2>2 DEF On
  <2> QED BY <2>1, <2>3, ConfigKept
<1> QED BY <1>1, <1>2, DatedKept, StaleKept

LEMMA RefusalCarries ==
    ASSUME HInv, UInv', IdsUsed', NEW p \in Procs, op[p].pc \in {"prepare", "store", "accessBack"},
           Go(p, Refused(op[p])), Calm(op[p]) => op[p].req.kind # "provision"
    PROVE  HInv'
<1> DEFINE o == op[p]
           a == Refused(o)
<1>1. o \in OpOK /\ o \in Op BY Calmly
<1>2. CASE o.req.kind # "provision"
  <2>1. Refused(o) = Answer(o, "error") BY <1>2 DEF Refused
  <2> QED BY <1>2, <2>1, ErrorCarries
<1>3. CASE o.req.kind = "provision"
  <2>1. Keeps(o, a) BY <1>1, RefusedOK
  <2>2. ~Calm(o) BY <1>3
  <2>3. Go(p, a) OBVIOUS
  <2> HIDE DEF a
  <2> QED BY <2>1, <2>2, <2>3, CalmCarries DEF Keeps
<1> QED BY <1>2, <1>3

LEMMA PrepareAccessHealthy ==
    ASSUME HInv, UInv', IdsUsed', NEW p \in Procs, PrepareAccess(p) PROVE HInv'
<1> DEFINE o == op[p]
           w == o.write
           x == inbounds[w.row.inbound].protocol
           row == IF o.req.patch.rotate THEN Emptied(w.row, x) ELSE w.row
           kept == Kept(row, x)
           secret == IF row[x] # 0 THEN row[x]
                     ELSE IF kept # {} THEN CHOOSE k \in kept : TRUE ELSE secrets + 1
           new == Credited(row, x, secret)
<1>0. o.pc = "prepare" BY DEF PrepareAccess, At
<1>1. /\ o \in OpOK /\ o \in Op /\ WellFormed(o.req) /\ Tables /\ Rows /\ o.req.kind \in Kinds
      /\ Provisioning(o, DOMAIN users, DOMAIN inbounds, access)
  BY <1>0, Calmly
<1>2. w \in Write /\ w.row \in AccessRow BY <1>0, <1>1 DEF OpOK, Write
<1>3. Now' = Now
  <2>1. UNCHANGED <<inbounds, users, access, drafted, fresh>> BY DEF PrepareAccess
  <2> QED BY <2>1, NowSame
<1>4. CASE w.row.inbound \in DOMAIN inbounds /\ w.row.user \in DOMAIN users
  <2>1. Go(p, [o EXCEPT !.pc = "store", !.write.row = new])
    BY <1>4 DEF PrepareAccess, Credited
  <2>2. x \in Protocols
    <3>1. inbounds[w.row.inbound] \in InboundRow BY <1>1, <1>4, RowOfTable DEF Rows
    <3> QED BY <3>1 DEF InboundRow
  <2>3. x = Now.ins[w.row.inbound].protocol BY Fields
  <2> HIDE DEF x
  <2>4. row \in AccessRow /\ row.user = w.row.user /\ row.inbound = w.row.inbound
        /\ row.enabled = w.row.enabled
    <3>1. Emptied(w.row, x) \in AccessRow /\ Emptied(w.row, x).user = w.row.user
          /\ Emptied(w.row, x).inbound = w.row.inbound
      BY <1>2, <2>2, CredentialTyped
    <3>2. Emptied(w.row, x).enabled = w.row.enabled
      BY <1>2, <2>2 DEF Emptied, AccessRow, Protocols
    <3> QED BY <1>2, <3>1, <3>2
  <2>5. secret # 0
    <3>1. 0 \notin kept BY DEF Kept
    <3>2. secrets + 1 # 0 BY <1>1 DEF Tables
    <3> DEFINE pick == CHOOSE k \in kept : TRUE
               old == row[x]
    <3>3. kept # {} => pick \in kept OBVIOUS
    <3>4. secret = IF old # 0 THEN old ELSE IF kept # {} THEN pick ELSE secrets + 1 OBVIOUS
    <3> HIDE DEF pick, old, kept, secret
    <3> QED BY <3>1, <3>2, <3>3, <3>4
  <2> HIDE DEF row, kept, secret
  <2>6. new.user = w.row.user /\ new.inbound = w.row.inbound /\ new.enabled = w.row.enabled
        /\ new[x] = secret
    <3>1. CASE x = "vless" BY <2>4, <3>1 DEF Credited, AccessRow, Other
    <3>2. CASE x = "hysteria2" BY <2>4, <3>2 DEF Credited, AccessRow, Other
    <3> QED BY <2>2, <3>1, <3>2 DEF Protocols
  <2> HIDE DEF new
  <2> DEFINE b == [o EXCEPT !.pc = "store", !.write.row = new]
  <2>7. /\ b.pc = "store" /\ b.req = o.req /\ b.alone = o.alone /\ b.failed = o.failed
        /\ b.stale = o.stale /\ b.dated = o.dated /\ b.servers = o.servers
        /\ b.pending = o.pending /\ b.todo = o.todo /\ b.user = o.user
        /\ b.default = o.default /\ b.write.row = new
    BY <1>1, <1>2 DEF Op, Write
  <2> HIDE DEF b
  <2>8. ASSUME Calm(o)
        PROVE  Shape(b) /\ AtHand(b, Now) /\ Drafts(b, Now) /\ Marks(b, Now) /\ Serves(b, Now)
               /\ Planned(b, Now)
    <3>1. /\ Shape(o) /\ AtHand(o, Now) /\ Drafts(o, Now) /\ Marks(o, Now) /\ Serves(o, Now)
          /\ Planned(o, Now)
      BY <1>0, <2>8, Calmly
    <3>2. o.req.kind \in {"provision", "grant", "bulkUsers", "bulkAccess"} /\ ~o.req.patch.hard
      BY <1>0, <1>1, <3>1 DEF Shape, StepsOf, Kinds
    <3>3. Shape(b) BY <2>7, <3>2 DEF Shape, StepsOf, ProvisionPcs
    <3>4. AtHand(b, Now)
      <4>1. \A i : OnTarget(i, b, Now) <=> OnTarget(i, o, Now)
        BY <2>7 DEF OnTarget, TargetsIn
      <4>2. Promises(b) = Promises(o) /\ Idle(b) = Idle(o) BY <2>7 DEF Promises, Idle
      <4>3. /\ o.user = w.row.user
            /\ o.req.kind = "grant" => w.row.inbound = o.req.inbound
            /\ Promises(o) => ~Idle(o) /\ OnTarget(w.row.inbound, o, Now)
            /\ o.req.kind = "bulkUsers" => Named(o.user, o, Now)
        BY <1>0, <3>1 DEF AtHand, Writing
      <4>4. o.req.kind = "bulkUsers" => Named(b.user, b, Now) BY <2>7, <4>3 DEF Named
      <4> QED BY <2>6, <2>7, <4>1, <4>2, <4>3, <4>4 DEF AtHand
    <3>5. Drafts(b, Now) /\ Marks(b, Now) BY <1>0, <2>7, <3>1, MovesOn
    <3>6. Serves(b, Now)
      <4> SUFFICES ASSUME o.req.kind = "provision" PROVE Serves(b, Now) BY <2>7 DEF Serves
      <4>1. /\ o.servers = {DefaultServer} /\ Ensured(o, Now) /\ Now.us[o.user].active
            /\ \A v \in o.pending : v.row.enabled
            /\ \A y \in Protocols : o.default[y] # None /\ Awaited(o, y, Now)
            /\ w.row.enabled
        BY <1>0, <3>1 DEF Serves
      <4>2. Ensured(b, Now) BY <2>7, <4>1 DEF Ensured
      <4>3. \A y \in Protocols : Awaited(b, y, Now) BY <1>0, <2>6, <2>7, <4>1 DEF Awaited
      <4>4. b.write.row[Now.ins[b.write.row.inbound].protocol] # 0 BY <2>3, <2>5, <2>6, <2>7
      <4> QED BY <2>6, <2>7, <4>1, <4>2, <4>3, <4>4 DEF Serves
    <3>7. Planned(b, Now) BY <2>7, <3>1, PlanKept
    <3> QED BY <3>3, <3>4, <3>5, <3>6, <3>7
  <2> QED BY <1>0, <1>3, <2>1, <2>7, <2>8, CalmCarries DEF b
<1>5. CASE ~(w.row.inbound \in DOMAIN inbounds /\ w.row.user \in DOMAIN users)
  <2>1. Go(p, Refused(o)) BY <1>5 DEF PrepareAccess
  <2>2. Calm(o) => o.req.kind # "provision"
    BY <1>0, <1>1, <1>5 DEF Calm, Provisioning, ForUser
  <2> QED BY <1>0, <2>1, <2>2, RefusalCarries
<1> QED BY <1>4, <1>5

(* The access at hand is written: what has become of the rows. *)
LEMMA StoredHealthy ==
    ASSUME HInv, UInv', IdsUsed', NEW p \in Procs, op[p].pc = "store",
           Go(p, [op[p] EXCEPT !.pc = "accessBack"]),
           UNCHANGED <<inbounds, users, drafted, fresh>>,
           DOMAIN access \subseteq DOMAIN access',
           \E a \in DOMAIN access' : access'[a] = op[p].write.row,
           \A a \in DOMAIN access' :
              \/ a \in DOMAIN access /\ access'[a] = access[a]
              \/ /\ access'[a] = op[p].write.row
                 /\ a \in DOMAIN access => /\ access[a].user = op[p].write.row.user
                                           /\ access[a].inbound = op[p].write.row.inbound
    PROVE  HInv'
<1> DEFINE o == op[p]
           w == o.write
           b == [o EXCEPT !.pc = "accessBack"]
<1>1. /\ o \in OpOK /\ o \in Op /\ WellFormed(o.req) /\ Tables /\ Rows /\ o.req.kind \in Kinds
      /\ Provisioning(o, DOMAIN users, DOMAIN inbounds, access)
  BY Calmly
<1>2. /\ b.pc = "accessBack" /\ b.req = o.req /\ b.alone = o.alone /\ b.failed = o.failed
      /\ b.stale = o.stale /\ b.dated = o.dated /\ b.servers = o.servers
      /\ b.pending = o.pending /\ b.todo = o.todo /\ b.user = o.user
      /\ b.default = o.default /\ b.write = w
  BY <1>1 DEF Op
<1>3. Go(p, b) OBVIOUS
<1> HIDE DEF b
<1>4. /\ TargetsIn(b, Now') = TargetsIn(o, Now)
      /\ \A i : OnTarget(i, b, Now') <=> OnTarget(i, o, Now)
      /\ Promises(b) = Promises(o) /\ Idle(b) = Idle(o) /\ Withdrawing(b) = Withdrawing(o)
  BY <1>2, Fields DEF TargetsIn, OnTarget, Promises, Idle, Withdrawing
<1>5. ASSUME NEW T, w.row.inbound \in DOMAIN inbounds => inbounds[w.row.inbound].server \in T
      PROVE  Dated' \subseteq Dated \cup {w.row.user} /\ Stale' \subseteq Stale \cup T
  <2>1. \A a \in DOMAIN access \cup DOMAIN access' :
              \/ /\ a \in DOMAIN access /\ a \in DOMAIN access'
                 /\ access'[a] = access[a]
              \/ /\ a \in DOMAIN access =>
                       /\ access[a].user = w.row.user
                       /\ access[a].inbound \in DOMAIN inbounds =>
                             inbounds[access[a].inbound].server \in T
                 /\ a \in DOMAIN access' =>
                       /\ access'[a].user = w.row.user
                       /\ access'[a].inbound \in DOMAIN inbounds =>
                             inbounds[access'[a].inbound].server \in T
    BY <1>5
  <2> QED BY <2>1, AccessChanged
<1>6. ASSUME Calm(o)
      PROVE  Shape(b) /\ AtHand(b, Now') /\ Drafts(b, Now') /\ Marks(b, Now') /\ Serves(b, Now')
             /\ Planned(b, Now')
  <2>1. /\ Shape(o) /\ AtHand(o, Now) /\ Drafts(o, Now) /\ Marks(o, Now) /\ Serves(o, Now)
        /\ Planned(o, Now)
    BY <1>6, Calmly
  <2>2. o.req.kind \in {"provision", "grant", "bulkUsers", "bulkAccess"} /\ ~o.req.patch.hard
    BY <1>1, <2>1 DEF Shape, StepsOf, Kinds
  <2>3. ~Withdrawing(o) BY <2>2 DEF Withdrawing
  <2>4. /\ o.user = w.row.user
        /\ o.req.kind = "grant" => w.row.inbound = o.req.inbound
        /\ Promises(o) => ~Idle(o) /\ OnTarget(w.row.inbound, o, Now)
        /\ o.req.kind = "bulkUsers" => Named(o.user, o, Now)
    BY <2>1 DEF AtHand, Writing
  <2>5. Shape(b) BY <1>2, <2>2 DEF Shape, StepsOf, ProvisionPcs
  <2>6. AtHand(b, Now')
    <3>1. o.req.kind = "bulkUsers" => Named(b.user, b, Now') BY <1>2, <2>4, Fields DEF Named
    <3> QED BY <1>2, <1>4, <2>4, <3>1 DEF AtHand
  <2>7. Drafts(b, Now')
    <3> SUFFICES ASSUME Promises(o) PROVE Drafts(b, Now') BY <1>4 DEF Drafts
    <3>1. w.row.inbound \in DOMAIN inbounds => inbounds[w.row.inbound].server \in TargetsIn(o, Now)
      BY <2>4, Fields DEF OnTarget
    <3>2. Stale' \subseteq Stale \cup TargetsIn(o, Now) BY <1>5, <3>1
    <3>3. Stale \subseteq o.stale \cup TargetsIn(o, Now) BY <2>1, Fields DEF Drafts, Owed
    <3>4. Owed(b, Now') = TargetsIn(o, Now) BY <1>2, <1>4 DEF Owed
    <3> QED BY <1>2, <3>2, <3>3, <3>4, Fields DEF Drafts
  <2>8. Marks(b, Now')
    <3>1. Dated' \subseteq Dated \cup {w.row.user}
      <4>1. w.row.inbound \in DOMAIN inbounds =>
              inbounds[w.row.inbound].server \in {inbounds[i].server : i \in DOMAIN inbounds}
        OBVIOUS
      <4> QED BY <1>5, <4>1
    <3>2. Dated \subseteq o.dated BY <2>1, <2>2, Fields DEF Marks, ToMark
    <3>3. ToMark(b, Now') = {w.row.user} BY <1>2, <2>4 DEF ToMark
    <3> QED BY <1>2, <3>1, <3>2, <3>3, Fields DEF Marks
  <2>9. Serves(b, Now')
    <3> SUFFICES ASSUME o.req.kind = "provision" PROVE Serves(b, Now') BY <1>2 DEF Serves
    <3>1. /\ o.servers = {DefaultServer} /\ Ensured(o, Now) /\ Now.us[o.user].active
          /\ \A v \in o.pending : v.row.enabled
          /\ \A x \in Protocols : o.default[x] # None /\ Awaited(o, x, Now)
          /\ w.row.enabled /\ w.row[Now.ins[w.row.inbound].protocol] # 0
      BY <2>1 DEF Serves
    <3>2. Ensured(b, Now') BY <1>2, <3>1, Fields DEF Ensured
    <3>3. ASSUME NEW x \in Protocols PROVE Awaited(b, x, Now')
      <4>1. CASE \E v \in o.pending : v.row.inbound = o.default[x] BY <1>2, <4>1 DEF Awaited
      <4>2. CASE w.row.inbound = o.default[x]
        <5>1. PICK a \in DOMAIN access' : access'[a] = w.row OBVIOUS
        <5>2. /\ o.default[x] \in DOMAIN inbounds
              /\ inbounds[o.default[x]].server = DefaultServer
              /\ inbounds[o.default[x]].protocol = x
          BY <3>1, Fields DEF Ensured
        <5>3. Serving(a, o.user, x, Now') /\ Now'.acc[a].enabled
          BY <2>4, <3>1, <4>2, <5>1, <5>2, Fields DEF Serving
        <5> QED BY <1>2, <5>1, <5>3, Fields DEF Awaited, Held
      <4>3. CASE Held(o.user, x, Now)
        <5>1. PICK a \in DOMAIN access : Serving(a, o.user, x, Now) /\ access[a].enabled
          BY <4>3, Fields DEF Held
        <5>2. a \in DOMAIN access' OBVIOUS
        <5>3. CASE access'[a] = access[a]
          <6>1. Serving(a, o.user, x, Now') /\ Now'.acc[a].enabled
            BY <5>1, <5>3, Fields DEF Serving
          <6> QED BY <1>2, <5>2, <6>1, Fields DEF Awaited, Held
        <5>4. CASE access'[a] = w.row /\ access[a].user = w.row.user
                   /\ access[a].inbound = w.row.inbound
          <6>1. Serving(a, o.user, x, Now') /\ Now'.acc[a].enabled
            BY <3>1, <5>1, <5>4, Fields DEF Serving
          <6> QED BY <1>2, <5>2, <6>1, Fields DEF Awaited, Held
        <5> QED BY <5>2, <5>3, <5>4
      <4> QED BY <3>1, <4>1, <4>2, <4>3 DEF Awaited
    <3> QED BY <1>2, <3>1, <3>2, <3>3, Fields DEF Serves
  <2>10. Planned(b, Now')
    <3>1. Promises(o) /\ ~Idle(o) /\ o.req.kind = "bulkUsers" =>
            /\ o.req.patch.to # None => OnTarget(o.req.patch.to, b, Now')
            /\ \A a \in DOMAIN access' : access'[a].user \in o.req.users \cap DOMAIN users
                                         => OnTarget(access'[a].inbound, b, Now')
      <4> SUFFICES ASSUME Promises(o), ~Idle(o), o.req.kind = "bulkUsers"
                   PROVE  /\ o.req.patch.to # None => OnTarget(o.req.patch.to, o, Now)
                          /\ \A a \in DOMAIN access' :
                               access'[a].user \in o.req.users \cap DOMAIN users
                               => OnTarget(access'[a].inbound, o, Now)
        BY <1>4
      <4>1. /\ o.req.patch.to # None => OnTarget(o.req.patch.to, o, Now)
            /\ \A a \in DOMAIN access : access[a].user \in o.req.users \cap DOMAIN users
                                        => OnTarget(access[a].inbound, o, Now)
        BY <2>1, Fields DEF Planned
      <4> QED BY <2>4, <4>1
    <3>2. o.req.kind = "bulkUsers" => /\ \A t \in o.todo : Named(t.id, b, Now')
                                      /\ \A v \in o.pending : Named(v.row.user, b, Now')
      BY <1>2, <2>1, Fields DEF Planned, Named
    <3>3. Promises(o) /\ ~Idle(o) => \A v \in o.pending : OnTarget(v.row.inbound, b, Now')
      BY <1>4, <2>1 DEF Planned
    <3>4. /\ o.req.kind \notin {"provision", "bulkUsers", "bulkAccess"} => o.pending = {}
          /\ o.req.kind # "bulkUsers" => o.todo = {}
          /\ Idle(o) => o.pending = {} /\ \A t \in o.todo : t.row = users[t.id]
      BY <2>1, Fields DEF Planned
    <3> QED BY <1>2, <1>4, <2>2, <2>3, <3>1, <3>2, <3>3, <3>4, Fields DEF Planned
  <2> QED BY <2>5, <2>6, <2>7, <2>8, <2>9, <2>10
<1> QED BY <1>2, <1>3, <1>6, CalmCarries

LEMMA StoreAccessHealthy ==
    ASSUME HInv, UInv', IdsUsed', NEW p \in Procs, StoreAccess(p) PROVE HInv'
<1> DEFINE o == op[p]
           w == o.write
           pair == PairOf(w.row)
<1>0. o.pc = "store" BY DEF StoreAccess, At
<1>1. o \in OpOK /\ Tables /\ Provisioning(o, DOMAIN users, DOMAIN inbounds, access)
  BY <1>0, Calmly
<1>2. UNCHANGED <<inbounds, users, drafted, fresh>> BY DEF StoreAccess
<1>4. CASE /\ pair # {}
           /\ access' = [a \in DOMAIN access |-> IF a \in pair THEN w.row ELSE access[a]]
           /\ Go(p, [o EXCEPT !.pc = "accessBack"])
  <2>1. \A a \in pair : /\ a \in DOMAIN access /\ access[a].user = w.row.user
                        /\ access[a].inbound = w.row.inbound
    BY DEF PairOf
  <2>2. DOMAIN access' = DOMAIN access /\ \E a \in DOMAIN access' : access'[a] = w.row
    BY <1>4, <2>1
  <2>3. \A a \in DOMAIN access' :
              \/ a \in DOMAIN access /\ access'[a] = access[a]
              \/ /\ access'[a] = w.row
                 /\ a \in DOMAIN access => /\ access[a].user = w.row.user
                                           /\ access[a].inbound = w.row.inbound
    BY <1>4, <2>1
  <2> QED BY <1>0, <1>2, <1>4, <2>2, <2>3, StoredHealthy
<1>5. CASE \E a \in (IF w.id = None THEN Accesses \ usedIds ELSE {w.id}), fk \in ForeignKeys :
              IF a \in DOMAIN access \/ (fk /\ ~Referred(w.row))
              THEN Go(p, Refused(o)) /\ UNCHANGED <<access, usedIds>>
              ELSE /\ access' = Put(access, a, w.row)
                   /\ usedIds' = usedIds \cup {a}
                   /\ Go(p, [o EXCEPT !.pc = "accessBack"])
  <2>1. PICK a \in (IF w.id = None THEN Accesses \ usedIds ELSE {w.id}), fk \in ForeignKeys :
           IF a \in DOMAIN access \/ (fk /\ ~Referred(w.row))
           THEN Go(p, Refused(o)) /\ UNCHANGED <<access, usedIds>>
           ELSE /\ access' = Put(access, a, w.row)
                /\ usedIds' = usedIds \cup {a}
                /\ Go(p, [o EXCEPT !.pc = "accessBack"])
    BY <1>5
  <2>2. CASE a \in DOMAIN access \/ (fk /\ ~Referred(w.row))
    <3>1. Go(p, Refused(o)) BY <2>1, <2>2
    <3>2. Calm(o) => o.req.kind # "provision"
      <4> SUFFICES ASSUME Calm(o), o.req.kind = "provision" PROVE FALSE OBVIOUS
      <4>1. ForUser(w, o.user, DOMAIN inbounds) /\ o.user \in DOMAIN users
        BY <1>0, <1>1 DEF Calm, Provisioning
      <4>2. a \notin DOMAIN access BY <1>1, <2>1, <4>1 DEF ForUser, Tables
      <4> QED BY <2>2, <4>1, <4>2 DEF ForUser, Referred
    <3> QED BY <1>0, <3>1, <3>2, RefusalCarries
  <2>3. CASE ~(a \in DOMAIN access \/ (fk /\ ~Referred(w.row)))
    <3>1. access' = Put(access, a, w.row) /\ Go(p, [o EXCEPT !.pc = "accessBack"]) BY <2>1, <2>3
    <3>2. /\ DOMAIN access' = DOMAIN access \cup {a} /\ access'[a] = w.row
          /\ \A c \in DOMAIN access : c # a => access'[c] = access[c]
      BY <3>1 DEF Put
    <3>3. \A c \in DOMAIN access' :
              \/ c \in DOMAIN access /\ access'[c] = access[c]
              \/ access'[c] = w.row /\ c \notin DOMAIN access
      BY <2>3, <3>2
    <3> QED BY <1>0, <1>2, <3>1, <3>2, <3>3, StoredHealthy
  <2> QED BY <2>2, <2>3
<1> QED BY <1>4, <1>5 DEF StoreAccess

LEMMA ReadAccessBackHealthy ==
    ASSUME HInv, UInv', IdsUsed', NEW p \in Procs, ReadAccessBack(p) PROVE HInv'
<1> DEFINE o == op[p]
<1>0. o.pc = "accessBack" BY DEF ReadAccessBack, At
<1>1. Now' = Now BY NowSame DEF ReadAccessBack, rows
<1>2. CASE PairOf(o.write.row) # {}
  <2>1. Go(p, [o EXCEPT !.pc = "mark"]) BY <1>2 DEF ReadAccessBack
  <2> QED BY <1>0, <1>1, <2>1, ReadBackCarries
<1>3. CASE PairOf(o.write.row) = {}
  <2>1. Go(p, Refused(o)) BY <1>3 DEF ReadAccessBack
  <2>2. ~StoredIn(o.write.row, access) BY <1>3 DEF PairOf, StoredIn
  <2>3. Calm(o) => o.req.kind # "provision" BY <1>0, <2>2, Calmly DEF Calm, Provisioning
  <2> QED BY <1>0, <2>1, <2>3, RefusalCarries
<1> QED BY <1>2, <1>3

LEMMA WithdrawAccessHealthy ==
    ASSUME HInv, UInv', IdsUsed', NEW p \in Procs, WithdrawAccess(p) PROVE HInv'
<1> DEFINE o == op[p]
           w == o.write
           b == [o EXCEPT !.pc = "mark"]
<1>0. o.pc = "withdraw" BY DEF WithdrawAccess, At
<1>1. o \in OpOK /\ o \in Op /\ WellFormed(o.req) /\ Tables /\ o.req.kind \in Kinds
  BY <1>0, Calmly
<1>2. o.req.kind # "provision" BY <1>0, <1>1 DEF OpOK, ProvisionPcs
<1>3. UNCHANGED <<inbounds, users, drafted, fresh>> BY DEF WithdrawAccess
<1>4. CASE w.id \in DOMAIN access
  <2>1. access' = Without(access, {w.id}) /\ Go(p, b) BY <1>4 DEF WithdrawAccess
  <2>2. /\ DOMAIN access' = DOMAIN access \ {w.id}
        /\ \A a \in DOMAIN access' : access'[a] = access[a]
    BY <2>1 DEF Without, Restrict
  <2>3. /\ b.pc = "mark" /\ b.req = o.req /\ b.alone = o.alone /\ b.failed = o.failed
        /\ b.stale = o.stale /\ b.dated = o.dated /\ b.servers = o.servers
        /\ b.pending = o.pending /\ b.todo = o.todo /\ b.user = o.user
    BY <1>1 DEF Op
  <2> HIDE DEF b
  <2>4. /\ TargetsIn(b, Now') = TargetsIn(o, Now)
        /\ \A i : OnTarget(i, b, Now') <=> OnTarget(i, o, Now)
        /\ Promises(b) = Promises(o) /\ Idle(b) = Idle(o) /\ Withdrawing(b) = Withdrawing(o)
    BY <1>3, <2>3, Fields DEF TargetsIn, OnTarget, Promises, Idle, Withdrawing
  <2> DEFINE u == access[w.id].user
             i == access[w.id].inbound
  <2>9. access[w.id].user = u /\ access[w.id].inbound = i OBVIOUS
  <2> HIDE DEF u, i
  <2>5. ASSUME NEW T, i \in DOMAIN inbounds => inbounds[i].server \in T
        PROVE  Dated' \subseteq Dated \cup {u} /\ Stale' \subseteq Stale \cup T
    <3>1. \A a \in DOMAIN access \cup DOMAIN access' :
              \/ /\ a \in DOMAIN access /\ a \in DOMAIN access'
                 /\ access'[a] = access[a]
              \/ /\ a \in DOMAIN access =>
                       /\ access[a].user = u
                       /\ access[a].inbound \in DOMAIN inbounds =>
                             inbounds[access[a].inbound].server \in T
                 /\ a \in DOMAIN access' =>
                       /\ access'[a].user = u
                       /\ access'[a].inbound \in DOMAIN inbounds =>
                             inbounds[access'[a].inbound].server \in T
      BY <2>2, <2>5, <2>9
    <3> QED BY <1>3, <3>1, AccessChanged
  <2>6. ASSUME Calm(o)
        PROVE  Shape(b) /\ AtHand(b, Now') /\ Drafts(b, Now') /\ Marks(b, Now') /\ Serves(b, Now')
               /\ Planned(b, Now')
    <3>1. /\ Shape(o) /\ AtHand(o, Now) /\ Drafts(o, Now) /\ Marks(o, Now) /\ Planned(o, Now)
      BY <1>0, <2>6, Calmly
    <3>2. o.req.kind \in {"withdraw", "bulkAccess"}
      BY <1>0, <1>1, <3>1 DEF Shape, StepsOf, Kinds, ProvisionPcs
    <3>3. o.user = w.row.user /\ AsRead(w, o, Now) BY <1>0, <3>1 DEF AtHand, Writing
    <3>4. u = o.user /\ (Promises(o) => OnTarget(i, o, Now))
      BY <1>4, <2>9, <3>3, Fields DEF AsRead
    <3>5. Shape(b) BY <2>3, <3>2 DEF Shape, StepsOf
    <3>6. AtHand(b, Now') BY <2>3, <3>2 DEF AtHand, Writing, Idle
    <3>7. Drafts(b, Now')
      <4> SUFFICES ASSUME Promises(o) PROVE Drafts(b, Now') BY <2>4 DEF Drafts
      <4>1. i \in DOMAIN inbounds => inbounds[i].server \in TargetsIn(o, Now)
        BY <3>4, Fields DEF OnTarget
      <4>2. Stale' \subseteq Stale \cup TargetsIn(o, Now) BY <2>5, <4>1
      <4>3. Stale \subseteq o.stale \cup TargetsIn(o, Now)
        BY <1>0, <3>1, Fields DEF Drafts, Owed
      <4>4. Owed(b, Now') = TargetsIn(o, Now) BY <2>3, <2>4 DEF Owed
      <4> QED BY <2>3, <4>2, <4>3, <4>4, Fields DEF Drafts
    <3>8. Marks(b, Now')
      <4>1. Dated' \subseteq Dated \cup {o.user}
        <5>1. i \in DOMAIN inbounds => inbounds[i].server \in {inbounds[j].server : j \in DOMAIN inbounds}
          OBVIOUS
        <5> QED BY <2>5, <3>4, <5>1
      <4>2. Dated \subseteq o.dated BY <1>0, <3>1, <3>2, Fields DEF Marks, ToMark
      <4>3. ToMark(b, Now') = {o.user} BY <2>3 DEF ToMark
      <4> QED BY <2>3, <4>1, <4>2, <4>3, Fields DEF Marks
    <3>9. Serves(b, Now') BY <1>2, <2>3 DEF Serves
    <3>10. Planned(b, Now')
      <4>1. o.todo = {} BY <3>1, <3>2 DEF Planned
      <4>2. ASSUME Withdrawing(o), NEW v \in o.pending PROVE AsRead(v, b, Now')
        <5>1. AsRead(v, o, Now) BY <3>1, <4>2 DEF Planned
        <5> QED BY <2>2, <2>4, <5>1, Fields DEF AsRead
      <4>3. Promises(o) /\ ~Idle(o) => \A v \in o.pending : OnTarget(v.row.inbound, b, Now')
        BY <2>4, <3>1 DEF Planned
      <4>4. o.req.kind = "withdraw" => o.pending = {} BY <3>1 DEF Planned
      <4>5. ~Idle(o) /\ o.req.kind # "bulkUsers" BY <3>2 DEF Idle
      <4> QED BY <2>3, <2>4, <3>2, <4>1, <4>2, <4>3, <4>4, <4>5 DEF Planned
    <3> QED BY <3>5, <3>6, <3>7, <3>8, <3>9, <3>10
  <2> QED BY <1>0, <2>1, <2>3, <2>6, CalmCarries
<1>5. CASE w.id \notin DOMAIN access
  <2>1. Go(p, Answer(o, "error")) BY <1>5 DEF WithdrawAccess
  <2> QED BY <1>0, <1>2, <2>1, ErrorCarries
<1> QED BY <1>4, <1>5

-----------------------------------------------------------------------------
(***************************************************************************)
(* Inbounds.                                                               *)
(***************************************************************************)

\* Of the inbounds, only i is changed.
OnlyInbound(i) ==
    \A j \in DOMAIN inbounds \cup DOMAIN inbounds' :
       j # i => /\ j \in DOMAIN inbounds /\ j \in DOMAIN inbounds'
                /\ inbounds'[j] = inbounds[j]

(* The change of an inbound concerns its server, and the users that have access to it. *)
LEMMA InboundStale ==
    ASSUME UNCHANGED <<users, drafted>>, NEW i, NEW T, OnlyInbound(i),
           i \in DOMAIN inbounds => inbounds[i].server \in T,
           i \in DOMAIN inbounds' => inbounds'[i].server \in T,
           \A a \in DOMAIN access' : a \in DOMAIN access /\ access'[a] = access[a],
           \A a \in DOMAIN access : a \in DOMAIN access' \/ access[a].inbound = i
    PROVE  Stale' \subseteq Stale \cup T
<1>1. ASSUME NEW s \in Servers \ T PROVE Config(s)' = Config(s)
  <2>1. ASSUME NEW a \in On(s)
        PROVE  a \in On(s)' /\ access'[a] = access[a]
               /\ inbounds'[access[a].inbound] = inbounds[access[a].inbound]
    <3>1. access[a].inbound # i BY <1>1 DEF On
    <3> QED BY <3>1 DEF On, OnlyInbound
  <2>2. ASSUME NEW a \in On(s)' PROVE a \in On(s)
    <3>1. a \in DOMAIN access /\ access'[a] = access[a] BY DEF On
    <3>2. access[a].inbound # i BY <1>1, <3>1 DEF On
    <3> QED BY <3>1, <3>2 DEF On, OnlyInbound
  <2>3. On(s)' = On(s) BY <2>1, <2>2
  <2> QED BY <2>1, <2>3, ConfigKept
<1> QED BY <1>1, StaleKept

LEMMA InboundDated ==
    ASSUME UNCHANGED <<users, access, fresh>>, NEW i, OnlyInbound(i)
    PROVE  Dated' \subseteq Dated \cup
              {access[a].user : a \in {b \in DOMAIN access : access[b].inbound = i}}
<1> DEFINE U == {access[a].user : a \in {b \in DOMAIN access : access[b].inbound = i}}
<1>1. ASSUME NEW u \in (DOMAIN fresh' \cap DOMAIN users') \ U
      PROVE  /\ u \in DOMAIN fresh \cap DOMAIN users
             /\ fresh'[u] = fresh[u] /\ DocumentOf(u)' = DocumentOf(u)
  <2>1. ASSUME NEW a \in DOMAIN access, access[a].user = u PROVE access[a].inbound # i
    BY <1>1, <2>1
  <2>2. Read(u)' = Read(u) BY <2>1 DEF Read, OnlyInbound
  <2>3. \A a \in Read(u) : inbounds'[access[a].inbound] = inbounds[access[a].inbound]
    BY <2>1 DEF Read, OnlyInbound
  <2>4. DocumentOf(u)' = DocumentOf(u) BY <2>2, <2>3, DocumentKept
  <2> QED BY <2>4
<1> HIDE DEF U
<1>2. Dated' \subseteq Dated \cup U BY <1>1, DatedKept
<1> QED BY <1>2 DEF U

(* The inbound of a request is written: what it owes are marks and drafts of its server. *)
LEMMA InboundWritten ==
    ASSUME NEW o, NEW b, b.req = o.req, b.pc = "inboundBack", b.servers = o.servers,
           b.stale = o.stale, b.dated = o.dated,
           o.req.kind \in {"provision", "updateInbound"}, o.pc \in {"inbound", "provide"},
           Drafts(o, Now), Marks(o, Now),
           UNCHANGED <<users, access, drafted, fresh>>, NEW i, NEW row,
           inbounds' = Put(inbounds, i, row), row.server \in o.servers,
           i \in DOMAIN inbounds => inbounds[i].server \in o.servers
    PROVE  Drafts(b, Now') /\ Marks(b, Now')
<1>1. OnlyInbound(i) /\ i \in DOMAIN inbounds' /\ inbounds'[i] = row BY DEF Put, OnlyInbound
<1> DEFINE U == {access[a].user : a \in {c \in DOMAIN access : access[c].inbound = i}}
<1>2. Stale' \subseteq Stale \cup o.servers BY <1>1, InboundStale
<1>3. Dated' \subseteq Dated \cup U BY <1>1, InboundDated
<1>4. U \subseteq ToMark(b, Now')
  <2>1. ToMark(b, Now') = {access'[a].user : a \in {c \in DOMAIN access' :
                /\ access'[c].inbound \in DOMAIN inbounds'
                /\ inbounds'[access'[c].inbound].server \in o.servers}}
    BY Fields DEF ToMark
  <2> QED BY <1>1, <2>1
<1> HIDE DEF U
<1>5. Drafts(b, Now')
  <2>1. Promises(b) = Promises(o) BY DEF Promises
  <2>2. Owed(b, Now') = o.servers /\ Owed(o, Now) = o.servers BY DEF Owed, TargetsIn
  <2> QED BY <1>2, <2>1, <2>2, Fields DEF Drafts
<1>6. Marks(b, Now')
  <2>1. Dated \subseteq o.dated BY Fields DEF Marks, ToMark
  <2> QED BY <1>3, <1>4, <2>1, Fields DEF Marks
<1> QED BY <1>5, <1>6

LEMMA WriteInboundHealthy ==
    ASSUME HInv, UInv', IdsUsed', NEW p \in Procs, WriteInbound(p) PROVE HInv'
<1> DEFINE o == op[p]
           i == o.req.inbound
           row == o.inboundRow
           b == [o EXCEPT !.pc = "inboundBack"]
<1>0. o.pc = "inbound" BY DEF WriteInbound, At
<1>1. o \in OpOK /\ o \in Op /\ o.req.kind \in Kinds BY <1>0, Calmly
<1>2. o.req.kind # "provision" BY <1>0, <1>1 DEF OpOK, ProvisionPcs
<1>3. CASE TagTaken(i, row)
  <2>1. Go(p, Answer(o, "error")) BY <1>3 DEF WriteInbound
  <2> QED BY <1>0, <1>2, <2>1, ErrorCarries
<1>4. CASE ~TagTaken(i, row)
  <2>1. /\ inbounds' = Put(inbounds, i, row) /\ Go(p, b)
        /\ UNCHANGED <<users, access, drafted, fresh>>
    BY <1>4 DEF WriteInbound
  <2>2. /\ b.pc = "inboundBack" /\ b.req = o.req /\ b.alone = o.alone /\ b.failed = o.failed
        /\ b.stale = o.stale /\ b.dated = o.dated /\ b.servers = o.servers
        /\ b.pending = o.pending /\ b.todo = o.todo
    BY <1>1 DEF Op
  <2> HIDE DEF b
  <2>3. ASSUME Calm(o)
        PROVE  Shape(b) /\ AtHand(b, Now') /\ Drafts(b, Now') /\ Marks(b, Now') /\ Serves(b, Now')
               /\ Planned(b, Now')
    <3>1. /\ Shape(o) /\ AtHand(o, Now) /\ Drafts(o, Now) /\ Marks(o, Now) /\ Planned(o, Now)
      BY <1>0, <2>3, Calmly
    <3>2. o.req.kind = "updateInbound"
      BY <1>0, <1>1, <3>1 DEF Shape, StepsOf, Kinds, ProvisionPcs
    <3>3. row.server \in o.servers /\ (i \in DOMAIN inbounds => inbounds[i].server \in o.servers)
      BY <1>0, <3>1, <3>2, Fields DEF AtHand, OnTarget, TargetsIn
    <3>4. Drafts(b, Now') /\ Marks(b, Now') BY <1>0, <2>1, <2>2, <3>1, <3>2, <3>3, InboundWritten
    <3>5. Shape(b) BY <2>2, <3>2 DEF Shape, StepsOf
    <3>6. AtHand(b, Now') BY <2>2, <3>2 DEF AtHand, Writing, Idle
    <3>7. Serves(b, Now') BY <1>2, <2>2 DEF Serves
    <3>8. b.pending = {} /\ b.todo = {} BY <2>2, <3>1, <3>2 DEF Planned
    <3>9. Planned(b, Now') BY <2>2, <3>2, <3>8 DEF Planned, Idle
    <3> QED BY <3>4, <3>5, <3>6, <3>7, <3>9
  <2> QED BY <1>0, <2>1, <2>2, <2>3, CalmCarries
<1> QED BY <1>3, <1>4

LEMMA ReadInboundBackHealthy ==
    ASSUME HInv, UInv', IdsUsed', NEW p \in Procs, ReadInboundBack(p) PROVE HInv'
<1> DEFINE o == op[p]
<1>0. o.pc = "inboundBack" BY DEF ReadInboundBack, At
<1>1. Now' = Now BY NowSame DEF ReadInboundBack, rows
<1>2. CASE WrittenInbound(o) \in DOMAIN inbounds
  <2>1. Go(p, [o EXCEPT !.pc = "markServer"]) BY <1>2 DEF ReadInboundBack
  <2> QED BY <1>0, <1>1, <2>1, ReadBackCarries
<1>3. CASE WrittenInbound(o) \notin DOMAIN inbounds
  <2>1. Go(p, Answer(o, "error")) BY <1>3 DEF ReadInboundBack
  <2>2. ~(Calm(o) /\ o.req.kind = "provision") BY <1>0, <1>3, Calmly, Fields DEF Serves
  <2> QED BY <1>0, <2>1, <2>2, ErrorCarries
<1> QED BY <1>2, <1>3

LEMMA DropInboundHealthy ==
    ASSUME HInv, UInv', IdsUsed', NEW p \in Procs, DropInbound(p) PROVE HInv'
<1> DEFINE o == op[p]
           i == o.req.inbound
           b == [o EXCEPT !.pc = "markServer"]
<1>0. o.pc = "drop" BY DEF DropInbound, At
<1>1. o \in OpOK /\ o \in Op /\ o.req.kind \in Kinds BY <1>0, Calmly
<1>2. o.req.kind # "provision" BY <1>0, <1>1 DEF OpOK, ProvisionPcs
<1>3. CASE i \notin DOMAIN inbounds
  <2>1. Go(p, Answer(o, "error")) BY <1>3 DEF DropInbound
  <2> QED BY <1>0, <1>2, <2>1, ErrorCarries
<1>4. CASE i \in DOMAIN inbounds
  <2>1. /\ inbounds' = Without(inbounds, {i}) /\ Go(p, b)
        /\ UNCHANGED <<users, drafted>>
        /\ \/ access' = access
           \/ access' = Without(access, {a \in DOMAIN access : access[a].inbound = i})
    BY <1>4 DEF DropInbound
  <2>2. /\ b.pc = "markServer" /\ b.req = o.req /\ b.alone = o.alone /\ b.failed = o.failed
        /\ b.stale = o.stale /\ b.dated = o.dated /\ b.servers = o.servers
        /\ b.pending = o.pending /\ b.todo = o.todo
    BY <1>1 DEF Op
  <2> HIDE DEF b
  <2>3. OnlyInbound(i) /\ i \notin DOMAIN inbounds'
    BY <2>1 DEF Without, Restrict, OnlyInbound
  <2>4. /\ \A a \in DOMAIN access' : a \in DOMAIN access /\ access'[a] = access[a]
        /\ \A a \in DOMAIN access : a \in DOMAIN access' \/ access[a].inbound = i
    BY <2>1 DEF Without, Restrict
  <2>5. ASSUME Calm(o)
        PROVE  Shape(b) /\ AtHand(b, Now') /\ Drafts(b, Now') /\ Marks(b, Now') /\ Serves(b, Now')
               /\ Planned(b, Now')
    <3>1. /\ Shape(o) /\ AtHand(o, Now) /\ Drafts(o, Now) /\ Marks(o, Now) /\ Planned(o, Now)
      BY <1>0, <2>5, Calmly
    <3>2. o.req.kind = "deleteInbound"
      BY <1>0, <1>1, <3>1 DEF Shape, StepsOf, Kinds, ProvisionPcs
    <3>3. inbounds[i].server \in o.servers
      BY <1>0, <1>4, <3>1, <3>2, Fields DEF AtHand, OnTarget, TargetsIn
    <3>4. Drafts(b, Now')
      <4>1. Stale' \subseteq Stale \cup o.servers BY <2>1, <2>3, <2>4, <3>3, InboundStale
      <4>2. Promises(b) = Promises(o) BY <2>2 DEF Promises
      <4>3. Owed(b, Now') = o.servers /\ Owed(o, Now) = o.servers
        BY <1>0, <2>2, <3>2 DEF Owed, TargetsIn
      <4> QED BY <2>2, <3>1, <4>1, <4>2, <4>3, Fields DEF Drafts
    <3>5. Shape(b) BY <2>2, <3>2 DEF Shape, StepsOf
    <3>6. AtHand(b, Now') BY <2>2, <3>2 DEF AtHand, Writing, Idle
    <3>7. Marks(b, Now') BY <2>2, <3>2 DEF Marks
    <3>8. Serves(b, Now') BY <1>2, <2>2 DEF Serves
    <3>9. b.pending = {} /\ b.todo = {} BY <2>2, <3>1, <3>2 DEF Planned
    <3>10. Planned(b, Now') BY <2>2, <3>2, <3>9 DEF Planned, Idle
    <3> QED BY <3>4, <3>5, <3>6, <3>7, <3>8, <3>10
  <2> QED BY <1>0, <2>1, <2>2, <2>5, CalmCarries
<1> QED BY <1>3, <1>4

LEMMA MarkServerHealthy ==
    ASSUME HInv, UInv', IdsUsed', NEW p \in Procs, MarkServer(p) PROVE HInv'
<1> DEFINE o == op[p]
<1>0. o.pc = "markServer" BY DEF MarkServer, At
<1>1. o \in OpOK /\ o \in Op /\ o.req.kind \in Kinds /\ ~Free(p) /\ WellFormed(o.req)
  BY <1>0, Calmly
<1>2. /\ UNCHANGED <<inbounds, users, access, drafted>> /\ Go(p, AfterServerMark(o))
      /\ fresh' = Without(fresh, ToMark(o, Now))
  BY <1>0, Fields DEF MarkServer, rows, ToMark
<1>3. /\ Now'.ins = Now.ins /\ Now'.us = Now.us /\ Now'.acc = Now.acc
      /\ Now'.stale = Now.stale
  BY <1>2, StaleSame, Fields
<1>4. Now'.dated \subseteq Now.dated \ ToMark(o, Now)
  <2>1. ASSUME NEW u \in Dated' PROVE u \in Dated /\ u \notin ToMark(o, Now)
    <3>1. u \in DOMAIN fresh' \cap DOMAIN users' /\ fresh'[u] # DocumentOf(u)' BY DEF Dated
    <3>2. u \in DOMAIN fresh /\ u \notin ToMark(o, Now) /\ fresh'[u] = fresh[u]
      BY <1>2, <3>1 DEF Without, Restrict
    <3>3. DocumentOf(u)' = DocumentOf(u) BY <1>2 DEF DocumentOf
    <3> QED BY <1>2, <3>1, <3>2, <3>3 DEF Dated
  <2> QED BY <2>1, Fields
<1>5. ASSUME Calm(o)
      PROVE  /\ Shape(o) /\ Serves(o, Now) /\ Planned(o, Now')
             /\ o.req.kind \in {"provision", "updateInbound", "deleteInbound"}
             /\ Promises(o) => Now'.stale \subseteq o.stale \cup o.servers
             /\ o.req.kind # "deleteInbound" => Now'.dated \subseteq o.dated
  <2>1. /\ Shape(o) /\ Drafts(o, Now) /\ Marks(o, Now) /\ Serves(o, Now) /\ Planned(o, Now)
    BY <1>0, <1>5, Calmly
  <2>2. o.req.kind \in {"provision", "updateInbound", "deleteInbound"}
    BY <1>0, <1>1, <2>1 DEF Shape, StepsOf, Kinds
  <2>3. Owed(o, Now) = o.servers BY <1>0, <2>2 DEF Owed, TargetsIn
  <2>4. Planned(o, Now') BY <1>3, <2>1, SameRows
  <2> QED BY <1>0, <1>3, <1>4, <2>1, <2>2, <2>3, <2>4 DEF Drafts, Marks
<1>6. CASE o.req.kind = "provision"
  <2> DEFINE b == [o EXCEPT !.pc = "provide"]
  <2>1. Go(p, b) BY <1>2, <1>6 DEF AfterServerMark
  <2>2. /\ b.pc = "provide" /\ b.req = o.req /\ b.alone = o.alone /\ b.failed = o.failed
        /\ b.stale = o.stale /\ b.dated = o.dated /\ b.servers = o.servers
        /\ b.pending = o.pending /\ b.todo = o.todo /\ b.default = o.default
        /\ b.userRow = o.userRow
    BY <1>1 DEF Op
  <2> HIDE DEF b
  <2>3. ASSUME Calm(o)
        PROVE  Shape(b) /\ AtHand(b, Now') /\ Drafts(b, Now') /\ Marks(b, Now') /\ Serves(b, Now')
               /\ Planned(b, Now')
    <3>1. Shape(b) BY <1>6, <2>2 DEF Shape, StepsOf, ProvisionPcs
    <3>2. AtHand(b, Now') BY <1>6, <2>2 DEF AtHand, Writing, Idle
    <3>3. Drafts(b, Now')
      <4>1. Owed(b, Now') = o.servers BY <1>6, <2>2 DEF Owed, TargetsIn
      <4> QED BY <1>5, <2>2, <2>3, <4>1 DEF Drafts, Promises
    <3>4. Marks(b, Now') BY <1>5, <1>6, <2>2, <2>3 DEF Marks
    <3>5. Serves(b, Now') BY <1>0, <1>3, <1>5, <1>6, <2>2, <2>3 DEF Serves, Ensured
    <3>6. Planned(b, Now') BY <1>5, <2>2, <2>3, PlanKept
    <3> QED BY <3>1, <3>2, <3>3, <3>4, <3>5, <3>6
  <2> QED BY <1>0, <2>1, <2>2, <2>3, CalmCarries
<1>7. CASE o.req.kind # "provision"
  <2> DEFINE a == Drafting(o, o.servers)
  <2>1. Go(p, a) BY <1>2, <1>7 DEF AfterServerMark
  <2>2. o.servers \in SUBSET Servers BY <1>1 DEF Op
  <2>3. Keeps(o, a) BY <1>0, <1>1, <2>2, DraftingOK
  <2>4. Calm(o) => Healthy(a, Now') BY <1>0, <1>1, <1>5, <1>7, <2>2, DraftingHealthy
  <2> HIDE DEF a
  <2>5. Calm(a) => Calm(o) BY <1>0, <2>3 DEF Calm, Keeps
  <2> QED BY <1>1, <2>1, <2>3, <2>4, <2>5, Carries DEF Healthy, Keeps
<1> QED BY <1>6, <1>7

LEMMA ProvideInboundHealthy ==
    ASSUME HInv, UInv', IdsUsed', NEW p \in Procs, ProvideInbound(p) PROVE HInv'
<1> DEFINE o == op[p]
           x == IF "vless" \in Missing(o) THEN "vless" ELSE "hysteria2"
<1>0. o.pc = "provide" BY DEF ProvideInbound, At
<1>1. o \in OpOK /\ o \in Op /\ WellFormed(o.req) BY <1>0, Calmly
<1>2. o.req.kind = "provision" BY <1>0, <1>1 DEF OpOK
<1>3. UNCHANGED <<users, access, drafted, fresh>> BY DEF ProvideInbound
<1>4. ASSUME Calm(o)
      PROVE  /\ Shape(o) /\ Drafts(o, Now) /\ Marks(o, Now) /\ Planned(o, Now)
             /\ o.userRow = [name |-> o.req.patch.name, active |-> TRUE]
             /\ o.servers = {DefaultServer} /\ Ensured(o, Now)
             /\ \A y \in Protocols, j \in DOMAIN inbounds :
                   o.default[y] = None => inbounds[j].server # DefaultServer
                                          \/ inbounds[j].protocol # y
  BY <1>0, <1>2, <1>4, Calmly, Fields DEF Serves
<1>5. CASE Missing(o) = {}
  <2> DEFINE b == [o EXCEPT !.pc = "user"]
  <2>1. Go(p, b) /\ inbounds' = inbounds BY <1>5 DEF ProvideInbound
  <2>2. Now' = Now BY <1>3, <2>1, NowSame
  <2>3. /\ b.pc = "user" /\ b.req = o.req /\ b.alone = o.alone /\ b.failed = o.failed
        /\ b.stale = o.stale /\ b.dated = o.dated /\ b.servers = o.servers
        /\ b.pending = o.pending /\ b.todo = o.todo /\ b.default = o.default
        /\ b.userRow = o.userRow
    BY <1>1 DEF Op
  <2> HIDE DEF b
  <2>4. ASSUME Calm(o)
        PROVE  Shape(b) /\ AtHand(b, Now) /\ Drafts(b, Now) /\ Marks(b, Now) /\ Serves(b, Now)
               /\ Planned(b, Now)
    <3>1. Shape(b) BY <1>1, <1>2, <2>3 DEF Shape, StepsOf, ProvisionPcs, WellFormed
    <3>2. AtHand(b, Now) BY <1>2, <2>3 DEF AtHand, Writing, Idle
    <3>3. Drafts(b, Now) /\ Marks(b, Now) BY <1>0, <1>4, <2>3, <2>4, MovesOn
    <3>4. Ensured(b, Now) BY <1>4, <2>3, <2>4 DEF Ensured
    <3>5. Serves(b, Now) BY <1>4, <2>3, <2>4, <3>4 DEF Serves
    <3>6. Planned(b, Now) BY <1>4, <2>3, <2>4, PlanKept
    <3> QED BY <3>1, <3>2, <3>3, <3>5, <3>6
  <2> QED BY <1>0, <2>1, <2>2, <2>3, <2>4, CalmCarries
<1>6. CASE Missing(o) # {}
  <2>1. x \in Protocols /\ o.default[x] = None
    <3>1. Missing(o) \subseteq {"vless", "hysteria2"} BY DEF Missing, Protocols
    <3> QED BY <1>6, <3>1 DEF Missing, Protocols
  <2>2. PICK i \in Inbounds \ usedIds :
          IF TagTaken(i, DefaultInbound(x))
          THEN Go(p, Answer(o, "error")) /\ UNCHANGED <<inbounds, usedIds>>
          ELSE /\ inbounds' = Put(inbounds, i, DefaultInbound(x))
               /\ usedIds' = usedIds \cup {i}
               /\ Go(p, [o EXCEPT !.pc = "inboundBack", !.default[x] = i,
                                  !.inboundRow = DefaultInbound(x)])
    BY <1>6 DEF ProvideInbound
  <2> HIDE DEF x
  <2>3. CASE TagTaken(i, DefaultInbound(x))
    <3>1. Go(p, Answer(o, "error")) /\ inbounds' = inbounds BY <2>2, <2>3
    <3>2. ASSUME Calm(o) PROVE Cause(o, Now')
      <4>1. PICK j \in DOMAIN inbounds : inbounds[j].server = DefaultServer /\ inbounds[j].tag = x
        BY <2>3 DEF TagTaken, DefaultInbound
      <4>2. inbounds[j].protocol # x BY <1>4, <2>1, <3>2, <4>1
      <4> QED BY <2>1, <3>1, <4>1, <4>2, Fields DEF Cause
    <3> QED BY <1>0, <3>1, <3>2, ErrorCarries
  <2>4. CASE ~TagTaken(i, DefaultInbound(x))
    <3> DEFINE row == DefaultInbound(x)
               d == [o.default EXCEPT ![x] = i]
               b == [o EXCEPT !.pc = "inboundBack", !.default = d, !.inboundRow = row]
    <3>1. inbounds' = Put(inbounds, i, row) BY <2>2, <2>4
    <3>2. [o EXCEPT !.pc = "inboundBack", !.default[x] = i, !.inboundRow = row] = b
      BY <1>1 DEF Op
    <3>3. Go(p, b) BY <2>2, <2>4, <3>2
    <3>4. d[x] = i /\ \A y \in Protocols : y # x => d[y] = o.default[y]
      BY <1>1, <2>1 DEF Op
    <3>5. row.server = DefaultServer /\ row.protocol = x BY DEF DefaultInbound
    <3> HIDE DEF d, row
    <3>6. /\ b.pc = "inboundBack" /\ b.req = o.req /\ b.alone = o.alone /\ b.failed = o.failed
          /\ b.stale = o.stale /\ b.dated = o.dated /\ b.servers = o.servers
          /\ b.pending = o.pending /\ b.todo = o.todo /\ b.default = d
          /\ b.userRow = o.userRow /\ b.inboundRow = row
      BY <1>1 DEF Op
    <3> HIDE DEF b
    <3>7. i \notin DOMAIN inbounds BY DEF HInv, IdsUsed
    <3>8. /\ DOMAIN inbounds' = DOMAIN inbounds \cup {i} /\ inbounds'[i] = row
          /\ \A j \in DOMAIN inbounds : inbounds'[j] = inbounds[j]
      BY <3>1, <3>7 DEF Put
    <3>9. ASSUME Calm(o)
          PROVE  Shape(b) /\ AtHand(b, Now') /\ Drafts(b, Now') /\ Marks(b, Now') /\ Serves(b, Now')
                 /\ Planned(b, Now')
      <4>1. Shape(b) BY <1>2, <3>6 DEF Shape, StepsOf, ProvisionPcs
      <4>2. AtHand(b, Now') BY <1>2, <3>6 DEF AtHand, Writing, Idle
      <4>3. Drafts(b, Now') /\ Marks(b, Now')
        <5>1. Drafts(o, Now) /\ Marks(o, Now) /\ row.server \in o.servers BY <1>4, <3>5, <3>9
        <5> QED BY <1>0, <1>2, <1>3, <3>1, <3>6, <3>7, <5>1, InboundWritten
      <4>4. Ensured(b, Now')
        <5> SUFFICES ASSUME NEW y \in Protocols, b.default[y] # None
                     PROVE  /\ b.default[y] \in DOMAIN inbounds'
                            /\ inbounds'[b.default[y]].server = DefaultServer
                            /\ inbounds'[b.default[y]].protocol = y
          BY Fields DEF Ensured
        <5>1. CASE y = x BY <3>4, <3>5, <3>6, <3>8, <5>1
        <5>2. CASE y # x
          <6>1. /\ b.default[y] \in DOMAIN inbounds
                /\ inbounds[b.default[y]].server = DefaultServer
                /\ inbounds[b.default[y]].protocol = y
            BY <1>4, <3>4, <3>6, <3>9, <5>2, Fields DEF Ensured
          <6> QED BY <3>8, <6>1
        <5> QED BY <5>1, <5>2
      <4>5. ASSUME NEW y \in Protocols, NEW j \in DOMAIN inbounds', b.default[y] = None
            PROVE  inbounds'[j].server # DefaultServer \/ inbounds'[j].protocol # y
        <5>1. y # x BY <2>2, <3>4, <3>6, <4>5, NoneIsApart
        <5>2. CASE j = i BY <3>5, <3>8, <5>1, <5>2
        <5>3. CASE j # i BY <1>4, <3>4, <3>6, <3>8, <3>9, <4>5, <5>1, <5>3
        <5> QED BY <5>2, <5>3
      <4>6. Serves(b, Now')
        <5>1. WrittenInbound(b) \in DOMAIN inbounds'
          BY <1>2, <3>4, <3>5, <3>6, <3>8 DEF WrittenInbound
        <5> QED BY <1>4, <3>6, <3>9, <4>4, <4>5, <5>1, Fields DEF Serves
      <4>7. Planned(b, Now')
        <5>1. ~Withdrawing(b) BY <1>1, <1>2, <3>6 DEF Withdrawing, WellFormed
        <5>2. b.todo = {} /\ ~Idle(b) BY <1>2, <1>4, <3>6, <3>9 DEF Planned, Idle
        <5>3. Promises(b) => \A w \in b.pending : OnTarget(w.row.inbound, b, Now')
          <6>1. Promises(b) = Promises(o) /\ ~Idle(o) BY <1>2, <3>6 DEF Promises, Idle
          <6>2. Promises(o) => \A w \in o.pending : OnTarget(w.row.inbound, o, Now)
            BY <1>4, <3>9, <6>1 DEF Planned
          <6>3. \A k : OnTarget(k, o, Now) => OnTarget(k, b, Now')
            BY <1>2, <1>4, <3>5, <3>6, <3>8, <3>9, Fields DEF OnTarget, TargetsIn
          <6> QED BY <3>6, <6>1, <6>2, <6>3
        <5> QED BY <1>2, <3>6, <5>1, <5>2, <5>3 DEF Planned
      <4> QED BY <4>1, <4>2, <4>3, <4>6, <4>7
    <3> QED BY <1>0, <3>3, <3>6, <3>9, CalmCarries
  <2> QED BY <2>3, <2>4
<1> QED BY <1>5, <1>6

-----------------------------------------------------------------------------
(***************************************************************************)
(* Drafts and failures.                                                    *)
(***************************************************************************)
(* The draft of a server lists the enabled accesses of an active user. *)
LEMMA HeldIsDrafted ==
    ASSUME NEW u \in DOMAIN users, users[u].active, NEW x \in Protocols, Held(u, x, Now),
           UNCHANGED <<inbounds, users, access>>, DefaultServer \in Servers,
           drafted'[DefaultServer] = Config(DefaultServer)
    PROVE  IsServed(u, x, Now')
<1>1. PICK a \in DOMAIN access : Serving(a, u, x, Now) /\ access[a].enabled BY Fields DEF Held
<1>2. /\ access[a].user = u /\ access[a].inbound \in DOMAIN inbounds
      /\ inbounds[access[a].inbound].server = DefaultServer
      /\ inbounds[access[a].inbound].protocol = x /\ access[a][x] # 0
  BY <1>1, Fields DEF Serving
<1>3. Serving(a, u, x, Now') BY <1>2, Fields DEF Serving
<1>4. ASSUME inbounds[access[a].inbound].enabled
      PROVE  EntryIn(access[a], Now') \in drafted'[DefaultServer]
  <2>1. a \in Served(DefaultServer) BY <1>1, <1>2, <1>4 DEF Served
  <2>2. EntryOf(access[a]) \in Config(DefaultServer) BY <2>1 DEF Config
  <2>3. EntryIn(access[a], Now') = EntryOf(access[a]) BY Fields DEF EntryIn, EntryOf
  <2> QED BY <2>2, <2>3
<1> QED BY <1>3, <1>4, Fields DEF IsServed

LEMMA DraftServerHealthy ==
    ASSUME HInv, UInv', IdsUsed', NEW p \in Procs, DraftServer(p) PROVE HInv'
<1> DEFINE o == op[p]
<1>0. o.pc = "draft" BY DEF DraftServer, At
<1>1. o \in OpOK /\ o \in Op /\ o.req.kind \in Kinds /\ ~Free(p) BY <1>0, Calmly
<1>2. PICK s \in o.servers : /\ drafted' = [drafted EXCEPT ![s] = Config(s)]
                             /\ Go(p, Drafting(o, o.servers \ {s}))
  BY DEF DraftServer
<1>3. UNCHANGED <<inbounds, users, access, fresh>> BY DEF DraftServer, rows
<1>4. s \in Servers /\ o.servers \subseteq Servers /\ drafted \in [Servers -> SUBSET Entry]
  BY <1>1, <1>2 DEF Op, HInv, UInv, Tables
<1>5. drafted'[s] = Config(s) /\ \A t \in Servers \ {s} : drafted'[t] = drafted[t]
  BY <1>2, <1>4
<1>6. Stale' \subseteq Stale \ {s}
  <2>1. \A t \in Servers : Config(t)' = Config(t) BY <1>3 DEF Config, Served, EntryOf
  <2> QED BY <1>4, <1>5, <2>1 DEF Stale
<1>7. Now'.stale \subseteq Now.stale \ {s} /\ Now'.dated = Now.dated
  BY <1>3, <1>6, DatedSame, Fields
<1> DEFINE T == o.servers \ {s}
           a == Drafting(o, T)
<1>8. Go(p, a) BY <1>2
<1>9. T \in SUBSET Servers BY <1>4
<1>10. ASSUME Calm(o) PROVE Healthy(a, Now')
  <2>1. Shape(o) /\ Drafts(o, Now) /\ Marks(o, Now) /\ Serves(o, Now) BY <1>0, <1>10, Calmly
  <2>2. o.req.kind \notin {"render", "bulkDelete", "bulkEnable"}
    BY <1>0, <1>1, <2>1 DEF Shape, StepsOf, Kinds
  <2>3. Promises(o) => Now'.stale \subseteq o.stale \cup T
    BY <1>0, <1>7, <2>1 DEF Drafts, Owed
  <2>4. o.req.kind # "deleteInbound" => Now'.dated \subseteq o.dated
    BY <1>0, <1>7, <2>1, <2>2 DEF Marks, ToMark
  <2>5. ASSUME o.req.kind = "provision"
        PROVE  T = {} /\ \A x \in Protocols : IsServed(o.user, x, Now')
    <3>1. /\ o.servers = {DefaultServer} /\ o.user \in DOMAIN users /\ users[o.user].active
          /\ \A x \in Protocols : Held(o.user, x, Now)
      BY <1>0, <2>1, <2>5, Fields DEF Serves
    <3>2. s = DefaultServer BY <1>2, <3>1
    <3> HIDE DEF o
    <3>3. ASSUME NEW x \in Protocols PROVE IsServed(o.user, x, Now')
      BY <1>3, <1>4, <1>5, <3>1, <3>2, HeldIsDrafted
    <3> QED BY <3>1, <3>2, <3>3
  <2> QED BY <1>0, <1>1, <1>9, <2>2, <2>3, <2>4, <2>5, DraftingHealthy
<1>11. Keeps(o, a) BY <1>0, <1>1, <1>9, DraftingOK
<1> HIDE DEF a
<1>12. Calm(a) => Calm(o) BY <1>0, <1>11 DEF Calm, Keeps
<1> QED BY <1>1, <1>8, <1>10, <1>11, <1>12, Carries DEF Healthy, Keeps

LEMMA StatementFailsHealthy ==
    ASSUME HInv, UInv', IdsUsed', NEW p \in Procs, StatementFails(p) PROVE HInv'
<1> DEFINE o == [op[p] EXCEPT !.failed = @ + 1]
<1>1. PICK a \in AfterFailure(o) : Go(p, a) BY DEF StatementFails, GoTo
<1>2. ~Free(p) /\ UInv BY DEF StatementFails, HInv
<1>3. a.alone = op[p].alone /\ a.failed = op[p].failed + 1 /\ op[p].failed \in Nat
  BY <1>1, <1>2, FailureOK
<1>4. ~Calm(a) BY <1>3 DEF Calm
<1> QED BY <1>1, <1>2, <1>3, <1>4, Carries DEF Healthy

-----------------------------------------------------------------------------
(***************************************************************************)
(* The invariant, and the theorems.                                        *)
(***************************************************************************)
LEMMA StepHealthy == ASSUME HInv, NEW p \in Procs, Step(p) PROVE HInv'
<1>0. UInv' /\ IdsUsed' BY StepKeeps, IdsUsedKeeps DEF HInv
<1>1. CASE \/ LoadUser(p) \/ LoadAccess(p) \/ LoadInbound(p) \/ ReadBulk(p) \/ Collect(p)
           \/ ReadRows(p) \/ ListAccesses(p)
  BY <1>0, <1>1, LoadUserHealthy, LoadAccessHealthy, LoadInboundHealthy, ReadBulkHealthy,
     CollectHealthy, ReadRowsHealthy, ListAccessesHealthy
<1>2. CASE WriteUser(p) \/ ReadUserBack(p) \/ MarkUser(p) \/ RemoveUser(p) \/ Batch(p)
  BY <1>0, <1>2, WriteUserHealthy, ReadUserBackHealthy, MarkUserHealthy, RemoveUserHealthy,
     BatchHealthy
<1>3. CASE PrepareAccess(p) \/ StoreAccess(p) \/ ReadAccessBack(p) \/ WithdrawAccess(p)
  BY <1>0, <1>3, PrepareAccessHealthy, StoreAccessHealthy, ReadAccessBackHealthy,
     WithdrawAccessHealthy
<1>4. CASE \/ WriteInbound(p) \/ ReadInboundBack(p) \/ DropInbound(p) \/ MarkServer(p)
           \/ EnsureInbounds(p) \/ ProvideInbound(p)
  BY <1>0, <1>4, WriteInboundHealthy, ReadInboundBackHealthy, DropInboundHealthy,
     MarkServerHealthy, EnsureInboundsHealthy, ProvideInboundHealthy
<1>5. CASE RollBack(p) \/ RenderDocument(p) \/ DraftServer(p) \/ StatementFails(p)
  BY <1>0, <1>5, RollBackHealthy, RenderDocumentHealthy, DraftServerHealthy,
     StatementFailsHealthy
<1> QED BY <1>1, <1>2, <1>3, <1>4, <1>5 DEF Step

LEMMA NextHealthy == HInv /\ [Next]_vars => HInv'
<1> SUFFICES ASSUME HInv, [Next]_vars PROVE HInv' OBVIOUS
<1>1. CASE Next
  <2>1. CASE \E p \in Procs, r \in Requests : Begin(p, r) BY <2>1, BeginHealthy
  <2>2. CASE \E p \in Procs : Step(p) BY <2>2, StepHealthy
  <2>3. CASE Crash BY <2>3, CrashHealthy
  <2> QED BY <1>1, <2>1, <2>2, <2>3 DEF Next
<1>2. CASE UNCHANGED vars
  <2>1. UNCHANGED <<inbounds, users, access, usedIds, drafted, fresh, op>>
    BY <1>2 DEF vars, rows
  <2>2. UInv' BY NextKeeps DEF HInv
  <2>3. IdsUsed' BY <2>1 DEF HInv, IdsUsed
  <2>4. Now' = Now BY <2>1, NowSame
  <2>5. \A p \in Procs : Healthy(op'[p], Now') BY <2>1, <2>4 DEF HInv
  <2> QED BY <2>2, <2>3, <2>5 DEF HInv
<1> QED BY <1>1, <1>2

LEMMA AlwaysHealthy == Spec => []HInv
BY InitHealthy, NextHealthy, PTL DEF Spec

(* What the invariant says of a request that has been answered. *)
LEMMA AnsweredCalmly ==
    ASSUME HInv, NEW p \in Procs, op[p].pc = "done", Undisturbed(p)
    PROVE  Drafts(op[p], Now) /\ Marks(op[p], Now) /\ Serves(op[p], Now)
BY DEF HInv, Healthy, Calm, Undisturbed

(* A change that is answered with success is in the latest draft of every server whose *)
(* draft was up to date when it began, whichever handler made it and whatever rows,    *)
(* connections and earlier failures there are.                                         *)
THEOREM SuccessIsDraftedAlways == Spec => []SuccessIsDrafted
<1>1. HInv => SuccessIsDrafted
  <2> SUFFICES ASSUME HInv, NEW p \in Procs, Undisturbed(p),
                      Answered(p, Kinds \ {"bulkDelete", "bulkEnable"}, "ok"),
                      op[p].req.kind = "bulkAccess" \/ op[p].req.patch.profile
                         => ChangesRuntime(op[p].req.patch)
               PROVE  Stale \subseteq op[p].stale
    BY DEF SuccessIsDrafted
  <2>1. op[p].pc = "done" /\ op[p].result = "ok" /\ Promises(op[p])
    BY DEF Answered, At, Promises
  <2>2. Drafts(op[p], Now) BY <2>1, AnsweredCalmly
  <2> QED BY <2>1, <2>2, Fields DEF Drafts, Owed
<1> QED BY <1>1, AlwaysHealthy, PTL

(* A change that is answered with success leaves no document that was current without *)
(* a mark, unless it deleted an inbound or switched users in bulk.                    *)
THEOREM SuccessIsMarkedAlways == Spec => []SuccessIsMarked
<1>1. HInv => SuccessIsMarked
  <2> SUFFICES ASSUME HInv, NEW p \in Procs, Undisturbed(p),
                      Answered(p, Kinds \ {"deleteInbound", "bulkEnable"}, "ok")
               PROVE  Dated \subseteq op[p].dated
    BY DEF SuccessIsMarked
  <2>1. /\ op[p].pc = "done" /\ op[p].result = "ok"
        /\ op[p].req.kind \notin {"deleteInbound", "bulkEnable"}
    BY DEF Answered, At
  <2>2. Marks(op[p], Now) BY <2>1, AnsweredCalmly
  <2> QED BY <2>1, <2>2, Fields DEF Marks, ToMark
<1> QED BY <1>1, AlwaysHealthy, PTL

(* A user whose provisioning is answered with success has, for each protocol, an access *)
(* with its credential on the first server, and the draft of the server lists it unless *)
(* the inbound is switched off.                                                         *)
THEOREM ProvisionedUserIsServedAlways == Spec => []ProvisionedUserIsServed
<1>1. HInv => ProvisionedUserIsServed
  <2> SUFFICES ASSUME HInv, NEW p \in Procs, Undisturbed(p), Answered(p, {"provision"}, "ok"),
                      NEW x \in Protocols
               PROVE  \E a \in DOMAIN access :
                         /\ access[a].user = op[p].user
                         /\ access[a].inbound \in DOMAIN inbounds
                         /\ inbounds[access[a].inbound].server = DefaultServer
                         /\ inbounds[access[a].inbound].protocol = x
                         /\ access[a][x] # 0
                         /\ inbounds[access[a].inbound].enabled
                            => EntryOf(access[a]) \in drafted[DefaultServer]
    BY DEF ProvisionedUserIsServed
  <2>1. /\ op[p].pc = "done" /\ op[p].result = "ok" /\ op[p].req.kind = "provision"
    BY DEF Answered, At
  <2>2. Serves(op[p], Now) BY <2>1, AnsweredCalmly
  <2>3. IsServed(op[p].user, x, Now) BY <2>1, <2>2 DEF Serves
  <2>4. PICK a \in DOMAIN access :
           /\ Serving(a, op[p].user, x, Now)
           /\ inbounds[access[a].inbound].enabled
              => EntryIn(access[a], Now) \in drafted[DefaultServer]
    BY <2>3, Fields DEF IsServed
  <2>5. EntryIn(access[a], Now) = EntryOf(access[a]) BY Fields DEF EntryIn, EntryOf
  <2> QED BY <2>4, <2>5, Fields DEF Serving
<1> QED BY <1>1, AlwaysHealthy, PTL

(* Provisioning that met neither another request nor a failure is refused only when the *)
(* name is taken or a default tag belongs to an inbound of the other protocol.          *)
THEOREM ProvisionRefusedForCauseAlways == Spec => []ProvisionRefusedForCause
<1>1. HInv => ProvisionRefusedForCause
  <2> SUFFICES ASSUME HInv, NEW p \in Procs, Undisturbed(p),
                      Answered(p, {"provision"}, "error")
               PROVE  \/ \E u \in DOMAIN users : users[u].name = op[p].req.patch.name
                      \/ \E i \in DOMAIN inbounds :
                            /\ inbounds[i].server = DefaultServer
                            /\ inbounds[i].tag \in Protocols \ {inbounds[i].protocol}
    BY DEF ProvisionRefusedForCause
  <2>1. /\ op[p].pc = "done" /\ op[p].result = "error" /\ op[p].req.kind = "provision"
    BY DEF Answered, At
  <2>2. Serves(op[p], Now) BY <2>1, AnsweredCalmly
  <2> QED BY <2>1, <2>2, Fields DEF Serves, Cause
<1> QED BY <1>1, AlwaysHealthy, PTL

=============================================================================
