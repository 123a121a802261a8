--------------------------- MODULE UserAccessProofs ---------------------------
(***************************************************************************)
(* Proofs about UserAccess, for any rows, requests and number of processes: *)
(* the types, and that provisioning takes its user back.                    *)
(*                                                                          *)
(* The latter needs to know how far a request that ran alone has come: the  *)
(* inbounds it found, the user and the access it wrote are still there, so  *)
(* only a failed statement refuses its accesses.                            *)
(***************************************************************************)
EXTENDS UserAccess, FiniteSetTheorems, TLAPS

ProvisionPcs == {"ensure", "provide", "inboundBack", "markServer", "user", "userBack", "mark",
                 "prepare", "store", "accessBack", "rollback", "draft", "done"}

\* What a request carries when it comes to a statement that needs it.
OpOK ==
    {o \in Op :
        /\ o.pc # "idle" => o.req \in Requests
        /\ o.pc = "user" => o.userRow \in UserRow
        /\ o.pc \in {"prepare", "store", "accessBack", "withdraw"} => o.write \in Write
        /\ o.pc = "inbound" => o.inboundRow \in InboundRow /\ o.req.inbound \in Inbounds
        /\ o.pc \in {"ensure", "provide"} => o.req.kind = "provision"
        /\ o.req.kind = "provision" =>
              /\ o.todo = {} /\ o.pc \in ProvisionPcs
              /\ o.pc \in {"ensure", "provide", "inboundBack", "markServer"} => o.userRow \in UserRow
              /\ o.pc = "user" => \A x \in Protocols : o.default[x] \in Inbounds}

\* A process that runs alone leaves the others idle.
Alone == \A p, q \in Procs : p # q /\ op[p].pc # "idle" /\ op[p].alone => Free(q)

\* The pair of the row has an access.
StoredIn(row, acc) ==
    \E b \in DOMAIN acc : acc[b].user = row.user /\ acc[b].inbound = row.inbound

\* The accesses of a provisioned user that are still to be written.
ForUser(w, u, ins) == w \in Write /\ w.id = None /\ w.row.user = u /\ w.row.inbound \in ins

\* Where a provisioning that runs alone is, with users us, inbounds ins and the
\* accesses acc stored.
Provisioning(o, us, ins, acc) ==
    o.pc # "idle" /\ o.req.kind = "provision" /\ o.alone =>
    /\ o.pc \in {"ensure", "provide", "inboundBack", "markServer", "user"} => o.user = None
    /\ o.pc \in {"provide", "inboundBack", "markServer"} =>
          \A x \in Protocols : o.default[x] \in ins \cup {None}
    /\ o.pc = "user" => \A x \in Protocols : o.default[x] \in ins
    /\ o.pc \in {"userBack", "mark", "prepare", "store", "accessBack"} =>
          o.user \in us /\ \A w \in o.pending : ForUser(w, o.user, ins)
    /\ o.pc \in {"prepare", "store", "accessBack"} => ForUser(o.write, o.user, ins)
    /\ o.pc = "accessBack" => StoredIn(o.write.row, acc)
    /\ o.pc = "rollback" => o.failed >= 1
    /\ o.pc = "done" /\ o.result = "error" /\ o.failed <= 1 => o.user \notin us

Provisionings ==
    \A p \in Procs : Provisioning(op[p], DOMAIN users, DOMAIN inbounds, access)

Rows ==
    /\ IsTable(inbounds, Inbounds, InboundRow)
    /\ IsTable(users, Users, UserRow)
    /\ IsTable(access, Accesses, AccessRow)

Tables ==
    /\ Rows
    /\ drafted \in [Servers -> SUBSET Entry]
    /\ IsTable(fresh, Users, Document)
    /\ usedIds \subseteq Users \cup Inbounds \cup Accesses
    /\ DOMAIN access \subseteq usedIds
    /\ secrets \in Nat /\ begun \in Nat /\ failures \in Nat

UInv == Tables /\ op \in [Procs -> OpOK] /\ Alone /\ Provisionings

-----------------------------------------------------------------------------
(***************************************************************************)
(* Tables.                                                                 *)
(***************************************************************************)
LEMMA PutTable ==
    ASSUME NEW ids, NEW Row, NEW f, IsTable(f, ids, Row), NEW k \in ids, NEW row \in Row
    PROVE  IsTable(Put(f, k, row), ids, Row)
<1> DEFINE g == [x \in DOMAIN f \cup {k} |-> IF x = k THEN row ELSE f[x]]
<1>1. g \in [DOMAIN f \cup {k} -> Row] BY DEF IsTable
<1>2. DOMAIN g = DOMAIN f \cup {k} OBVIOUS
<1> QED BY <1>1, <1>2 DEF IsTable, Put

LEMMA WithoutTable ==
    ASSUME NEW ids, NEW Row, NEW f, IsTable(f, ids, Row), NEW ks
    PROVE  IsTable(Without(f, ks), ids, Row) /\ DOMAIN Without(f, ks) = DOMAIN f \ ks
<1> DEFINE g == [x \in DOMAIN f \ ks |-> f[x]]
<1>1. g \in [DOMAIN f \ ks -> Row] BY DEF IsTable
<1>2. DOMAIN g = DOMAIN f \ ks OBVIOUS
<1> QED BY <1>1, <1>2 DEF IsTable, Without, Restrict

LEMMA RowOfTable ==
    ASSUME NEW ids, NEW Row, NEW f, IsTable(f, ids, Row), NEW k \in DOMAIN f
    PROVE  f[k] \in Row /\ k \in ids
BY DEF IsTable

LEMMA NoneIsApart ==
    /\ None \notin Users /\ None \notin Inbounds /\ None \notin Accesses
    /\ None \notin Names /\ None \notin Protocols /\ None \notin BOOLEAN
BY NamesAssumption

LEMMA RequestFacts ==
    ASSUME NEW r \in Requests
    PROVE  r \in Request /\ WellFormed(r) /\ r.kind \in Kinds /\ r.patch \in Patch
BY EnvironmentAssumption DEF Request

LEMMA EntriesTyped == ASSUME Rows, NEW s PROVE Config(s) \subseteq Entry
<1> SUFFICES ASSUME NEW a \in Served(s) PROVE EntryOf(access[a]) \in Entry BY DEF Config
<1>1. access[a] \in AccessRow BY RowOfTable DEF Rows, Served
<1>2. inbounds[access[a].inbound] \in InboundRow BY RowOfTable DEF Rows, Served
<1>3. users[access[a].user] \in UserRow BY RowOfTable DEF Rows, Served
<1> DEFINE i == inbounds[access[a].inbound]
<1>4. i.protocol \in Protocols BY <1>2 DEF InboundRow
<1>5. access[a][i.protocol] \in Nat BY <1>1, <1>4 DEF AccessRow, Protocols
<1>6. access[a].inbound \in Inbounds BY <1>1 DEF AccessRow
<1>7. users[access[a].user].name \in Names BY <1>3 DEF UserRow
<1> QED BY <1>4, <1>5, <1>6, <1>7 DEF EntryOf, Entry

LEMMA DocumentTyped ==
    ASSUME Rows, NEW u \in DOMAIN users PROVE DocumentOf(u) \in Document
<1> DEFINE as == {b \in DOMAIN access : access[b].user = u /\ access[b].inbound \in DOMAIN inbounds}
           E == {[id |-> a, row |-> access[a], inbound |-> inbounds[access[a].inbound]] : a \in as}
<1>1. users[u] \in UserRow BY RowOfTable DEF Tables, Rows
<1>2. ASSUME NEW a \in as
      PROVE  [id |-> a, row |-> access[a], inbound |-> inbounds[access[a].inbound]]
                \in [id : Accesses, row : AccessRow, inbound : InboundRow]
  <2>1. access[a] \in AccessRow /\ a \in Accesses BY RowOfTable DEF Tables, Rows
  <2>2. inbounds[access[a].inbound] \in InboundRow BY RowOfTable DEF Tables, Rows
  <2> QED BY <2>1, <2>2
<1>3. E \in SUBSET [id : Accesses, row : AccessRow, inbound : InboundRow] BY <1>2
<1> HIDE DEF E
<1>4. [user |-> users[u], entries |-> E] \in Document BY <1>1, <1>3 DEF Document
<1> QED BY <1>4 DEF DocumentOf, E

LEMMA StaleTyped == ASSUME Tables PROVE Stale \subseteq Servers /\ Dated \subseteq Users
BY DEF Stale, Dated, Tables, Rows, IsTable

-----------------------------------------------------------------------------
(***************************************************************************)
(* How a request goes on.                                                  *)
(***************************************************************************)
Keeps(o, a) == a.req = o.req /\ a.alone = o.alone /\ a.failed = o.failed

LEMMA NoOpOK == NoOp \in OpOK
<1>1. NoOp.default \in [Protocols -> Inbounds \cup {None}] BY DEF NoOp
<1>2. NoOp \in Op BY <1>1 DEF NoOp, Op, Pcs, Results
<1> QED BY <1>2 DEF NoOp, OpOK, NoRequest

LEMMA AnswerOK ==
    ASSUME NEW o \in Op, o.req \in Requests, NEW r \in Results
    PROVE  /\ Answer(o, r) \in OpOK /\ Keeps(o, Answer(o, r))
           /\ Answer(o, r).pc = "done" /\ Answer(o, r).result = r
           /\ Answer(o, r).user = o.user
<1> DEFINE a == Answer(o, r)
<1>0. NoOp \in Op /\ NoOp.todo = {} BY NoOpOK DEF OpOK, NoOp
<1>1. a.req = o.req /\ a.pc = "done" /\ a.result = r /\ a.user = o.user
      /\ a.alone = o.alone /\ a.failed = o.failed /\ a.todo = {}
  BY <1>0 DEF Answer, Op
<1>2. o.req \in Request \cup {NoRequest} /\ o.user \in Users \cup {None} /\ o.alone \in BOOLEAN
      /\ o.failed \in Nat /\ o.stale \in SUBSET Servers /\ o.dated \in SUBSET Users
      /\ "done" \in Pcs /\ r \in Results
  BY DEF Op, Pcs, Results
<1> DEFINE b == [NoOp EXCEPT !.req = o.req, !.pc = "done", !.result = r, !.user = o.user]
<1>5. b \in Op BY <1>0, <1>2, ZenonT(60) DEF Op
<1>6. a = [b EXCEPT !.alone = o.alone, !.failed = o.failed, !.stale = o.stale, !.dated = o.dated]
  BY <1>0 DEF Answer, Op
<1> HIDE DEF b
<1>3. a \in Op BY <1>2, <1>5, <1>6 DEF Op
<1> HIDE DEF a
<1>4. a \in OpOK BY <1>1, <1>3 DEF OpOK, ProvisionPcs
<1> QED BY <1>1, <1>4 DEF Keeps, a

LEMMA DraftingOK ==
    ASSUME NEW o \in OpOK, o.pc # "idle", NEW servers \in SUBSET Servers
    PROVE  /\ Drafting(o, servers) \in OpOK /\ Keeps(o, Drafting(o, servers))
           /\ \/ Drafting(o, servers).pc = "draft"
              \/ /\ Drafting(o, servers).pc = "done"
                 /\ Drafting(o, servers).result = "ok"
<1>0. o \in Op /\ o.req \in Requests BY DEF OpOK
<1>1. CASE servers = {}
  <2>1. Drafting(o, servers) = Answer(o, "ok") BY <1>1 DEF Drafting
  <2> QED BY <1>0, <2>1, AnswerOK DEF Results
<1>2. CASE servers # {}
  <2> DEFINE a == [o EXCEPT !.pc = "draft", !.servers = servers]
  <2>1. a \in Op /\ a.pc = "draft" /\ a.todo = o.todo /\ Keeps(o, a)
    BY <1>0, ZenonT(60) DEF Op, Pcs, Keeps
  <2>2. Drafting(o, servers) = a BY <1>2 DEF Drafting
  <2> HIDE DEF a
  <2>3. a \in OpOK BY <1>0, <2>1 DEF OpOK, Keeps, ProvisionPcs
  <2> QED BY <2>1, <2>2, <2>3
<1> QED BY <1>1, <1>2

LEMMA TargetsTyped ==
    ASSUME Tables, NEW o \in OpOK PROVE Targets(o) \subseteq Servers
<1>1. o.servers \subseteq Servers BY DEF OpOK, Op
<1>2. ASSUME NEW i \in DOMAIN inbounds PROVE inbounds[i].server \in Servers
  <2>1. inbounds[i] \in InboundRow BY RowOfTable DEF Tables, Rows
  <2> QED BY <2>1 DEF InboundRow
<1>3. CASE o.req.kind = "grant" BY <1>2, <1>3 DEF Targets
<1>4. CASE o.req.kind \in {"create", "update", "deleteUser"} BY <1>4 DEF Targets
<1>5. CASE o.req.kind \notin {"create", "update", "deleteUser", "grant"}
  BY <1>1, <1>5 DEF Targets
<1> QED BY <1>3, <1>4, <1>5

LEMMA PatchedUserTyped ==
    ASSUME NEW row \in UserRow, NEW patch \in Patch PROVE PatchedUser(row, patch) \in UserRow
BY DEF PatchedUser, Or, UserRow, Patch

LEMMA AdvanceOK ==
    ASSUME Tables, NEW o \in OpOK, o.pc # "idle", NEW a \in Advance(o)
    PROVE  a \in OpOK /\ Keeps(o, a)
<1>0. o \in Op /\ o.req \in Requests /\ o.req.patch \in Patch /\ o.req.kind \in Kinds
      /\ WellFormed(o.req)
  BY RequestFacts DEF OpOK
<1>1. CASE o.pending # {}
  <2>1. PICK w \in NextWrites(o) :
          a = [o EXCEPT !.write = w, !.user = w.row.user, !.pending = @ \ {w},
                        !.pc = IF o.req.patch.hard THEN "withdraw" ELSE "prepare"]
    BY <1>1 DEF Advance
  <2>2. w \in Write /\ w.row.user \in Users
    BY <1>0 DEF NextWrites, Op, Write, AccessRow
  <2>3. a.req = o.req /\ a.alone = o.alone /\ a.failed = o.failed /\ a.write = w
        /\ a.pc = (IF o.req.patch.hard THEN "withdraw" ELSE "prepare") /\ a.todo = o.todo
    BY <1>0, <2>1 DEF Op
  <2> DEFINE pc == IF o.req.patch.hard THEN "withdraw" ELSE "prepare"
             rest == o.pending \ {w}
  <2>7. pc \in Pcs /\ rest \in SUBSET Write BY <1>0 DEF Op, Pcs
  <2>8. a = [o EXCEPT !.write = w, !.user = w.row.user, !.pending = rest, !.pc = pc]
    BY <1>0, <2>1 DEF Op
  <2> HIDE DEF pc, rest
  <2>4. a \in Op BY <1>0, <2>2, <2>7, <2>8 DEF Op
  <2>5. o.req.patch.hard => o.req.kind # "provision" BY <1>0 DEF WellFormed
  <2>6. a \in OpOK BY <1>0, <2>2, <2>3, <2>4, <2>5 DEF OpOK, ProvisionPcs
  <2> QED BY <2>3, <2>6 DEF Keeps
<1>2. CASE o.pending = {} /\ o.todo # {}
  <2>1. PICK t \in o.todo :
          a = [o EXCEPT !.user = t.id, !.userRow = PatchedUser(t.row, o.req.patch),
                        !.write = None, !.todo = @ \ {t},
                        !.pc = IF o.req.patch.hard THEN "remove" ELSE "user"]
    BY <1>2 DEF Advance
  <2>2. t.id \in Users /\ t.row \in UserRow BY <1>0 DEF Op
  <2> DEFINE row == PatchedUser(t.row, o.req.patch)
  <2>3. row \in UserRow BY <1>0, <2>2, PatchedUserTyped
  <2> HIDE DEF row
  <2>4. a.req = o.req /\ a.alone = o.alone /\ a.failed = o.failed /\ a.userRow = row
        /\ a.pc = IF o.req.patch.hard THEN "remove" ELSE "user"
    BY <1>0, <2>1 DEF Op, row
  <2> DEFINE pc == IF o.req.patch.hard THEN "remove" ELSE "user"
             rest == o.todo \ {t}
  <2>8. pc \in Pcs /\ rest \in SUBSET [id : Users, row : UserRow] BY <1>0 DEF Op, Pcs
  <2>9. a = [o EXCEPT !.user = t.id, !.userRow = row, !.write = None, !.todo = rest, !.pc = pc]
    BY <1>0, <2>1 DEF Op, row
  <2> HIDE DEF pc, rest
  <2>5. a \in Op BY <1>0, <2>2, <2>3, <2>8, <2>9 DEF Op
  <2>6. o.req.kind # "provision" BY <1>2 DEF OpOK
  <2>7. a \in OpOK BY <1>0, <2>3, <2>4, <2>5, <2>6 DEF OpOK
  <2> QED BY <2>4, <2>7 DEF Keeps
<1>3. CASE o.pending = {} /\ o.todo = {}
  <2>1. a = Drafting(o, Targets(o)) BY <1>3 DEF Advance
  <2> QED BY <2>1, DraftingOK, TargetsTyped
<1> QED BY <1>1, <1>2, <1>3

LEMMA MarkedOK ==
    ASSUME Tables, NEW o \in OpOK, o.pc # "idle", NEW a \in Marked(o)
    PROVE  a \in OpOK /\ Keeps(o, a)
<1>0. o \in Op /\ o.req \in Requests BY DEF OpOK
<1>1. CASE o.req.kind = "bulkUsers" /\ o.write = None
  <2>1. a = [o EXCEPT !.pc = "list"] BY <1>1 DEF Marked
  <2>2. a \in Op /\ Keeps(o, a) /\ a.pc = "list" BY <1>0, <2>1 DEF Op, Pcs, Keeps
  <2>3. a \in OpOK BY <1>0, <1>1, <2>2 DEF OpOK, Keeps
  <2> QED BY <2>2, <2>3
<1>2. CASE ~(o.req.kind = "bulkUsers" /\ o.write = None)
  <2>1. a \in Advance(o) BY <1>2 DEF Marked
  <2> QED BY <2>1, AdvanceOK
<1> QED BY <1>1, <1>2

LEMMA RefusedOK ==
    ASSUME NEW o \in OpOK, o.pc # "idle"
    PROVE  Refused(o) \in OpOK /\ Keeps(o, Refused(o))
<1>0. o \in Op /\ o.req \in Requests BY DEF OpOK
<1>1. CASE o.req.kind = "provision" /\ o.pc \in {"prepare", "store", "accessBack"}
  <2> DEFINE a == [o EXCEPT !.pc = "rollback"]
  <2>1. a \in Op /\ Keeps(o, a) /\ a.pc = "rollback" /\ a.todo = o.todo
    BY <1>0 DEF Op, Pcs, Keeps
  <2>2. Refused(o) = a BY <1>1 DEF Refused
  <2> HIDE DEF a
  <2>3. a \in OpOK BY <1>0, <1>1, <2>1 DEF OpOK, Keeps, ProvisionPcs
  <2> QED BY <2>1, <2>2, <2>3
<1>2. CASE ~(o.req.kind = "provision" /\ o.pc \in {"prepare", "store", "accessBack"})
  <2>1. Refused(o) = Answer(o, "error") BY <1>2 DEF Refused
  <2> QED BY <1>0, <2>1, AnswerOK DEF Results
<1> QED BY <1>1, <1>2

-----------------------------------------------------------------------------
(***************************************************************************)
(* How a provisioning goes on.                                             *)
(***************************************************************************)
Provision(o) == o.req.kind = "provision" /\ o.alone

LEMMA AnswerProvisioning ==
    ASSUME NEW o \in Op, o.req \in Requests, NEW r \in Results, NEW us, NEW ins, NEW acc,
           Provision(o) /\ r = "error" /\ o.failed <= 1 => o.user \notin us
    PROVE  Provisioning(Answer(o, r), us, ins, acc)
<1> DEFINE a == Answer(o, r)
<1>1. Keeps(o, a) /\ a.pc = "done" /\ a.result = r /\ a.user = o.user BY AnswerOK
<1> HIDE DEF a
<1>2. Provisioning(a, us, ins, acc) BY <1>1 DEF Provisioning, Keeps, Provision
<1> QED BY <1>2 DEF a

LEMMA DraftingProvisioning ==
    ASSUME NEW o \in OpOK, o.pc # "idle", NEW servers \in SUBSET Servers, NEW us, NEW ins, NEW acc
    PROVE  Provisioning(Drafting(o, servers), us, ins, acc)
BY DraftingOK DEF Provisioning

LEMMA AdvanceProvisioning ==
    ASSUME Tables, NEW o \in OpOK, o.pc # "idle", NEW us, NEW ins, NEW acc,
           Provision(o) => o.user \in us /\ \A w \in o.pending : ForUser(w, o.user, ins),
           NEW a \in Advance(o)
    PROVE  Provisioning(a, us, ins, acc)
<1> SUFFICES ASSUME Provision(a) PROVE Provisioning(a, us, ins, acc)
  BY DEF Provisioning, Provision
<1>0. o \in Op /\ WellFormed(o.req) BY RequestFacts DEF OpOK
<1>1. Keeps(o, a) BY AdvanceOK
<1>2. Provision(o) BY <1>1 DEF Provision, Keeps
<1>3. o.todo = {} /\ ~o.req.patch.hard BY <1>0, <1>2 DEF Provision, OpOK, WellFormed
<1>4. CASE o.pending # {}
  <2>1. PICK w \in NextWrites(o) :
          a = [o EXCEPT !.write = w, !.user = w.row.user, !.pending = @ \ {w},
                        !.pc = IF o.req.patch.hard THEN "withdraw" ELSE "prepare"]
    BY <1>4 DEF Advance
  <2>2. w \in o.pending BY DEF NextWrites
  <2>3. a.pc = "prepare" /\ a.write = w /\ a.pending \subseteq o.pending
        /\ a.user = w.row.user
    BY <1>0, <1>3, <2>1 DEF Op
  <2>4. a.user = o.user BY <1>2, <2>2, <2>3 DEF ForUser
  <2> QED BY <1>2, <2>2, <2>3, <2>4 DEF Provisioning
<1>5. CASE o.pending = {}
  <2>1. a = Drafting(o, Targets(o)) BY <1>3, <1>5 DEF Advance
  <2> QED BY <2>1, DraftingProvisioning, TargetsTyped
<1> QED BY <1>4, <1>5

LEMMA MarkedProvisioning ==
    ASSUME Tables, NEW o \in OpOK, o.pc # "idle", NEW us, NEW ins, NEW acc,
           Provision(o) => o.user \in us /\ \A w \in o.pending : ForUser(w, o.user, ins),
           NEW a \in Marked(o)
    PROVE  Provisioning(a, us, ins, acc)
<1>1. CASE a \in Advance(o) BY <1>1, AdvanceProvisioning
<1>2. CASE a \notin Advance(o)
  <2>1. o.req.kind = "bulkUsers" BY <1>2 DEF Marked
  <2>2. a.req = o.req BY MarkedOK DEF Keeps
  <2> QED BY <2>1, <2>2 DEF Provisioning
<1> QED BY <1>1, <1>2

LEMMA RefusedProvisioning ==
    ASSUME NEW o \in OpOK, o.pc # "idle", NEW us, NEW ins, NEW acc,
           Provision(o) => IF o.pc \in {"prepare", "store", "accessBack"} THEN o.failed >= 1
                           ELSE o.failed <= 1 => o.user \notin us
    PROVE  Provisioning(Refused(o), us, ins, acc)
<1>0. o \in Op /\ o.req \in Requests BY DEF OpOK
<1>1. CASE o.req.kind = "provision" /\ o.pc \in {"prepare", "store", "accessBack"}
  <2> DEFINE a == [o EXCEPT !.pc = "rollback"]
  <2>1. a.pc = "rollback" /\ Keeps(o, a) BY <1>0 DEF Op, Keeps
  <2>2. Refused(o) = a BY <1>1 DEF Refused
  <2> HIDE DEF a
  <2>3. Provisioning(a, us, ins, acc) BY <1>1, <2>1 DEF Provisioning, Provision, Keeps
  <2> QED BY <2>2, <2>3
<1>2. CASE ~(o.req.kind = "provision" /\ o.pc \in {"prepare", "store", "accessBack"})
  <2>1. Refused(o) = Answer(o, "error") BY <1>2 DEF Refused
  <2>2. Provision(o) /\ o.failed <= 1 => o.user \notin us BY <1>2 DEF Provision
  <2> QED BY <1>0, <2>1, <2>2, AnswerProvisioning DEF Results
<1> QED BY <1>1, <1>2

(* One request goes on: the others are not concerned, or did not run alone. *)
LEMMA OneGoesOn ==
    ASSUME UInv, NEW p \in Procs, ~Free(p), NEW a \in OpOK, Go(p, a),
           a.req = op[p].req, a.alone = op[p].alone, Tables',
           Provisioning(a, DOMAIN users', DOMAIN inbounds', access')
    PROVE  UInv'
<1>1. op' = [op EXCEPT ![p] = a] /\ op \in [Procs -> OpOK] BY DEF Go, UInv
<1>2. op' \in [Procs -> OpOK] BY <1>1
<1>3. op[p].pc # "idle" BY DEF Free
<1>4. ASSUME NEW q \in Procs, q # p PROVE op[q].pc = "idle" \/ ~op[q].alone
  BY <1>4 DEF UInv, Alone
<1>5. Alone'
  <2> SUFFICES ASSUME NEW x \in Procs, NEW y \in Procs, x # y, op'[x].pc # "idle", op'[x].alone
               PROVE  Free(y)'
    BY DEF Alone
  <2>1. x = p BY <1>1, <1>4
  <2>2. Free(y) BY <1>1, <1>3, <2>1 DEF UInv, Alone
  <2> QED BY <1>1, <2>1, <2>2 DEF Free
<1>6. Provisionings'
  <2> SUFFICES ASSUME NEW q \in Procs
               PROVE  Provisioning(op'[q], DOMAIN users', DOMAIN inbounds', access')
    BY DEF Provisionings
  <2>1. CASE q = p BY <1>1, <2>1
  <2>2. CASE q # p
    <3>1. op'[q] = op[q] BY <1>1, <2>2
    <3> QED BY <1>4, <2>2, <3>1 DEF Provisioning
  <2> QED BY <2>1, <2>2
<1> QED BY <1>2, <1>5, <1>6 DEF UInv

-----------------------------------------------------------------------------
(***************************************************************************)
(* Beginnings and crashes.                                                 *)
(***************************************************************************)
LEMMA InitInv == Init => UInv
<1> SUFFICES ASSUME Init PROVE UInv OBVIOUS
<1>1. Rows BY RowsAssumption DEF Init, Rows
<1>2. drafted \in [Servers -> SUBSET Entry] BY <1>1, EntriesTyped DEF Init
<1>3. IsTable(fresh, Users, Document)
  <2>1. fresh \in [DOMAIN users -> Document] BY <1>1, DocumentTyped DEF Init
  <2>2. DOMAIN users \subseteq Users BY <1>1 DEF Rows, IsTable
  <2>3. DOMAIN fresh = DOMAIN users BY DEF Init
  <2> QED BY <2>1, <2>2, <2>3 DEF IsTable
<1>4. /\ usedIds \subseteq Users \cup Inbounds \cup Accesses
      /\ DOMAIN access \subseteq usedIds
  <2> DEFINE referred == UNION {{access[a].user, access[a].inbound} : a \in DOMAIN access}
  <2>1. ASSUME NEW a \in DOMAIN access
        PROVE  access[a].user \in Users /\ access[a].inbound \in Inbounds
    <3>1. access[a] \in AccessRow BY <1>1, RowOfTable DEF Rows
    <3> QED BY <3>1 DEF AccessRow
  <2>2. referred \subseteq Users \cup Inbounds BY <2>1
  <2>3. usedIds = DOMAIN inbounds \cup DOMAIN users \cup DOMAIN access \cup referred
    BY DEF Init
  <2> HIDE DEF referred
  <2> QED BY <1>1, <2>2, <2>3 DEF Rows, IsTable
<1>5. secrets \in Nat /\ begun \in Nat /\ failures \in Nat
  BY RowsAssumption, FS_CardinalityType DEF Init
<1>6. Tables BY <1>1, <1>2, <1>3, <1>4, <1>5 DEF Tables
<1>7. op \in [Procs -> OpOK] BY NoOpOK DEF Init
<1>8. \A p \in Procs : op[p].pc = "idle" BY DEF Init, NoOp
<1> QED BY <1>6, <1>7, <1>8 DEF UInv, Alone, Provisionings, Provisioning

LEMMA DecodedOK ==
    ASSUME NEW r \in Requests
    PROVE  /\ Decoded(r) \in OpOK /\ Decoded(r).pc \notin {"idle", "done"}
           /\ r.kind = "provision" => Decoded(r).pc = "ensure" /\ Decoded(r).user = None
           /\ Decoded(r).req = r
<1>0. r \in Request /\ WellFormed(r) /\ r.kind \in Kinds /\ r.patch \in Patch
  BY RequestFacts
<1>1. r.user \in Users \cup {None} /\ r.inbound \in Inbounds \cup {None}
      /\ r.access \in Accesses \cup {None}
  BY <1>0 DEF Request
<1> DEFINE pc == FirstPc(r.kind)
           row == IF r.kind \in {"create", "provision"}
                  THEN [name |-> r.patch.name, active |-> TRUE] ELSE None
           write == IF r.kind = "grant"
                    THEN [id |-> r.access,
                          row |-> [user |-> r.user, inbound |-> r.inbound, enabled |-> TRUE,
                                   vless |-> 0, hysteria2 |-> 0]] ELSE None
           o == [NoOp EXCEPT !.req = r, !.pc = pc, !.user = r.user, !.userRow = row,
                             !.write = write]
<1>2. pc \in Pcs /\ pc \notin {"idle", "done"} /\ (r.kind = "provision" => pc = "ensure")
      /\ (pc = "prepare" => r.kind = "grant") /\ (pc = "user" => r.kind = "create")
      /\ (pc = "ensure" => r.kind = "provision") /\ pc # "provide"
      /\ pc \notin {"store", "accessBack", "withdraw", "inbound"}
  BY <1>0 DEF FirstPc, Pcs, Kinds
<1>3. row \in UserRow \cup {None} /\ (r.kind \in {"create", "provision"} => row \in UserRow)
  BY <1>0 DEF Patch, UserRow, WellFormed
<1>4. write \in Write \cup {None} /\ (r.kind = "grant" => write \in Write)
  BY <1>0, <1>1 DEF WellFormed, Write, AccessRow
<1>5. NoOp \in Op /\ NoOp.todo = {} BY NoOpOK DEF OpOK, NoOp
<1> HIDE DEF pc, row, write
<1>6. o.req = r /\ o.pc = pc /\ o.user = r.user /\ o.userRow = row /\ o.write = write
      /\ o.todo = {}
  BY <1>5 DEF Op
<1>7. o \in Op BY <1>0, <1>1, <1>2, <1>3, <1>4, <1>5 DEF Op
<1>8. Decoded(r) = o BY DEF Decoded, pc, row, write
<1> HIDE DEF o
<1>9. o \in OpOK BY <1>2, <1>3, <1>4, <1>6, <1>7 DEF OpOK, ProvisionPcs
<1> QED BY <1>0, <1>2, <1>6, <1>8, <1>9 DEF WellFormed

LEMMA BeginKeeps ==
    ASSUME UInv, NEW p \in Procs, NEW r \in Requests, Begin(p, r)
    PROVE  UInv'
<1> DEFINE others == \A x \in Procs : Free(x)
           own == [Decoded(r) EXCEPT !.alone = others, !.stale = Stale, !.dated = Dated]
<1>1. Decoded(r) \in OpOK /\ Decoded(r) \in Op BY DecodedOK DEF OpOK
<1>2. others \in BOOLEAN /\ Stale \in SUBSET Servers /\ Dated \in SUBSET Users
  BY StaleTyped DEF UInv
<1>3. own \in Op BY <1>1, <1>2, ZenonT(60) DEF Op
<1>4. /\ own.req = r /\ own.pc = Decoded(r).pc /\ own.user = Decoded(r).user
      /\ own.alone = others
      /\ own.userRow = Decoded(r).userRow /\ own.write = Decoded(r).write
      /\ own.inboundRow = Decoded(r).inboundRow /\ own.todo = Decoded(r).todo
      /\ own.default = Decoded(r).default
  BY <1>1, DecodedOK DEF Op
<1> HIDE DEF own
<1>5. own \in OpOK BY <1>1, <1>3, <1>4, DecodedOK DEF OpOK
<1>6. Provisioning(own, DOMAIN users, DOMAIN inbounds, access)
  BY <1>4, DecodedOK DEF Provisioning
<1>7. op' = [q \in Procs |-> IF q = p THEN own
                             ELSE IF Free(q) THEN NoOp ELSE [op[q] EXCEPT !.alone = FALSE]]
  BY DEF Begin, own
<1>8. ASSUME NEW q \in Procs, q # p
      PROVE  /\ op'[q] \in OpOK
             /\ op'[q].pc = "idle" \/ (~Free(q) /\ ~op'[q].alone)
  <2>1. CASE Free(q)
    <3>1. op'[q] = NoOp BY <1>7, <1>8, <2>1
    <3>2. op'[q].pc = "idle" BY <3>1 DEF NoOp
    <3>3. op'[q] \in OpOK BY <3>1, NoOpOK
    <3> QED BY <3>2, <3>3
  <2>2. CASE ~Free(q)
    <3> DEFINE b == [op[q] EXCEPT !.alone = FALSE]
    <3>1. op[q] \in OpOK /\ op[q] \in Op BY DEF UInv, OpOK
    <3>2. b \in Op /\ ~b.alone BY <3>1 DEF Op
    <3>3. /\ b.req = op[q].req /\ b.pc = op[q].pc /\ b.userRow = op[q].userRow
          /\ b.write = op[q].write /\ b.inboundRow = op[q].inboundRow
          /\ b.todo = op[q].todo /\ b.default = op[q].default
      BY <3>1 DEF Op
    <3>4. op'[q] = b BY <1>7, <1>8, <2>2
    <3> HIDE DEF b
    <3>5. b \in OpOK BY <3>1, <3>2, <3>3 DEF OpOK
    <3> QED BY <2>2, <3>2, <3>4, <3>5
  <2> QED BY <2>1, <2>2
<1>9. op' \in [Procs -> OpOK] BY <1>5, <1>7, <1>8
<1>10. op'[p] = own BY <1>7
<1>11. ASSUME NEW q \in Procs, q # p, own.alone PROVE op'[q].pc = "idle"
  BY <1>4, <1>8, <1>11
<1>12. Alone' BY <1>8, <1>10, <1>11 DEF Alone, Free
<1>13. UNCHANGED <<rows, drafted, fresh, failures>> /\ begun' \in Nat
  <2>1. begun \in Nat BY DEF UInv, Tables
  <2>2. begun' = begun + 1 /\ UNCHANGED <<rows, drafted, fresh, failures>> BY DEF Begin
  <2> QED BY <2>1, <2>2
<1>14. Tables' BY <1>13 DEF UInv, Tables, Rows, rows
<1>15. Provisionings'
  BY <1>6, <1>8, <1>10, <1>13 DEF Provisionings, Provisioning, rows
<1> QED BY <1>9, <1>12, <1>14, <1>15 DEF UInv

LEMMA CrashKeeps == ASSUME UInv, Crash PROVE UInv'
<1>1. op' \in [Procs -> OpOK] /\ \A p \in Procs : op'[p].pc = "idle"
  BY NoOpOK DEF Crash, NoOp
<1>2. Tables' BY DEF Crash, UInv, Tables, Rows, rows
<1> QED BY <1>1, <1>2 DEF UInv, Alone, Provisionings, Provisioning

-----------------------------------------------------------------------------
(***************************************************************************)
(* Reads.                                                                  *)
(***************************************************************************)
LEMMA Going ==
    ASSUME UInv, NEW p \in Procs, op[p].pc \notin {"idle", "done"}
    PROVE  /\ op[p] \in OpOK /\ op[p] \in Op /\ op[p].req \in Requests /\ ~Free(p)
           /\ op[p].req \in Request /\ op[p].req.patch \in Patch /\ WellFormed(op[p].req)
           /\ op[p].req.kind \in Kinds
           /\ Tables /\ Provisioning(op[p], DOMAIN users, DOMAIN inbounds, access)
<1>1. op[p] \in OpOK BY DEF UInv
<1>2. op[p] \in Op /\ op[p].req \in Requests BY <1>1 DEF OpOK
<1> QED BY <1>1, <1>2, RequestFacts DEF UInv, Provisionings, Free

LEMMA NotProvisioning ==
    ASSUME NEW o, NEW us, NEW ins, NEW acc, o.req.kind # "provision" PROVE Provisioning(o, us, ins, acc)
BY DEF Provisioning

LEMMA SameTables ==
    ASSUME UInv, UNCHANGED <<rows, drafted, fresh, bounds>>
    PROVE  Tables' /\ DOMAIN users' = DOMAIN users /\ DOMAIN inbounds' = DOMAIN inbounds
BY DEF UInv, Tables, Rows, rows, bounds

(* An error answer of a request that is not a provisioning. *)
LEMMA ErrorGoesOn ==
    ASSUME UInv, NEW p \in Procs, op[p].pc \notin {"idle", "done"},
           NEW r \in Results, op[p].req.kind # "provision", Go(p, Answer(op[p], r)), Tables'
    PROVE  UInv'
<1> DEFINE a == Answer(op[p], r)
<1>1. op[p] \in Op /\ op[p].req \in Requests /\ ~Free(p) BY Going
<1>2. a \in OpOK /\ Keeps(op[p], a) BY <1>1, AnswerOK
<1> HIDE DEF a
<1>3. Provisioning(a, DOMAIN users', DOMAIN inbounds', access')
  BY <1>2, NotProvisioning DEF Keeps
<1>4. Go(p, a) BY DEF a
<1> QED BY <1>1, <1>2, <1>3, <1>4, OneGoesOn DEF Keeps

LEMMA LoadUserKeeps == ASSUME UInv, NEW p \in Procs, LoadUser(p) PROVE UInv'
<1> DEFINE o == op[p]
<1>0. op[p].pc = "load" /\ o.req.kind = "update" BY DEF LoadUser, At
<1>1. o \in OpOK /\ o \in Op /\ o.req \in Requests /\ ~Free(p) /\ o.req.patch \in Patch
  BY <1>0, Going
<1>2. Tables' BY SameTables DEF LoadUser
<1>3. CASE o.user \in DOMAIN users
  <2> DEFINE row == PatchedUser(users[o.user], o.req.patch)
             a == [o EXCEPT !.pc = "user", !.userRow = row]
  <2>1. row \in UserRow
    <3>1. users[o.user] \in UserRow BY <1>3, RowOfTable DEF UInv, Tables, Rows
    <3> QED BY <1>1, <3>1, PatchedUserTyped
  <2>2. Go(p, a) BY <1>3 DEF LoadUser
  <2> HIDE DEF row
  <2>3. a \in Op /\ a.req = o.req /\ a.alone = o.alone /\ a.pc = "user" /\ a.userRow = row
    BY <1>1, <2>1, ZenonT(60) DEF Op, Pcs
  <2> HIDE DEF a
  <2>4. a \in OpOK BY <1>0, <1>1, <2>1, <2>3 DEF OpOK
  <2>5. Provisioning(a, DOMAIN users', DOMAIN inbounds', access')
    BY <1>0, <2>3, NotProvisioning
  <2> QED BY <1>1, <1>2, <2>2, <2>3, <2>4, <2>5, OneGoesOn
<1>4. CASE o.user \notin DOMAIN users
  <2>1. Go(p, Answer(o, "error")) BY <1>4 DEF LoadUser
  <2> QED BY <1>0, <1>2, <2>1, ErrorGoesOn DEF Results
<1> QED BY <1>3, <1>4

LEMMA LoadAccessKeeps == ASSUME UInv, NEW p \in Procs, LoadAccess(p) PROVE UInv'
<1> DEFINE o == op[p]
           i == o.req.access
<1>0. op[p].pc = "load" /\ o.req.kind = "withdraw" BY DEF LoadAccess, At
<1>1. o \in OpOK /\ o \in Op /\ o.req \in Requests /\ ~Free(p) BY <1>0, Going
<1>2. Tables' BY SameTables DEF LoadAccess
<1>3. CASE i \in DOMAIN access /\ access[i].inbound \in DOMAIN inbounds
  <2> DEFINE w == [id |-> i, row |-> access[i]]
             s == inbounds[access[i].inbound].server
             a == [o EXCEPT !.pc = "withdraw", !.user = access[i].user, !.write = w,
                            !.servers = {s}]
  <2>1. access[i] \in AccessRow /\ i \in Accesses
    BY <1>3, RowOfTable DEF UInv, Tables, Rows
  <2>2. inbounds[access[i].inbound] \in InboundRow
    BY <1>3, RowOfTable DEF UInv, Tables, Rows
  <2>3. w \in Write /\ access[i].user \in Users /\ {s} \in SUBSET Servers
    BY <2>1, <2>2 DEF Write, AccessRow, InboundRow
  <2>4. Go(p, a) BY <1>3 DEF LoadAccess
  <2> HIDE DEF w, s
  <2>5. a \in Op /\ a.req = o.req /\ a.alone = o.alone /\ a.pc = "withdraw" /\ a.write = w
    BY <1>1, <2>3, ZenonT(60) DEF Op, Pcs
  <2> HIDE DEF a
  <2>6. a \in OpOK BY <1>0, <1>1, <2>3, <2>5 DEF OpOK
  <2>7. Provisioning(a, DOMAIN users', DOMAIN inbounds', access')
    BY <1>0, <2>5, NotProvisioning
  <2> QED BY <1>1, <1>2, <2>4, <2>5, <2>6, <2>7, OneGoesOn
<1>4. CASE ~(i \in DOMAIN access /\ access[i].inbound \in DOMAIN inbounds)
  <2>1. Go(p, Answer(o, "error")) BY <1>4 DEF LoadAccess
  <2> QED BY <1>0, <1>2, <2>1, ErrorGoesOn DEF Results
<1> QED BY <1>3, <1>4

LEMMA LoadInboundKeeps == ASSUME UInv, NEW p \in Procs, LoadInbound(p) PROVE UInv'
<1> DEFINE o == op[p]
           i == o.req.inbound
<1>0. op[p].pc = "load" /\ o.req.kind \in {"updateInbound", "deleteInbound"}
  BY DEF LoadInbound, At
<1>1. o \in OpOK /\ o \in Op /\ o.req \in Requests /\ ~Free(p) /\ o.req.patch \in Patch
      /\ WellFormed(o.req) /\ o.req \in Request
  BY <1>0, Going
<1>2. Tables' BY SameTables DEF LoadInbound
<1>3. CASE i \in DOMAIN inbounds
  <2> DEFINE row == PatchedInbound(inbounds[i], o.req.patch)
             pc == IF o.req.kind = "updateInbound" THEN "inbound" ELSE "drop"
             ss == {inbounds[i].server}
             a == [o EXCEPT !.pc = pc, !.inboundRow = row, !.servers = ss]
  <2>1. inbounds[i] \in InboundRow BY <1>3, RowOfTable DEF UInv, Tables, Rows
  <2>2. row \in InboundRow
    BY <1>1, <2>1 DEF PatchedInbound, InboundRow, Patch, Or
  <2>3. pc \in Pcs /\ pc \in {"inbound", "drop"} /\ ss \in SUBSET Servers
        /\ i \in Inbounds
    BY <1>0, <1>1, <2>1 DEF Pcs, InboundRow, Request, WellFormed
  <2>4. Go(p, a) BY <1>3 DEF LoadInbound
  <2> HIDE DEF row, pc, ss
  <2>5. a \in Op /\ a.req = o.req /\ a.alone = o.alone /\ a.pc = pc /\ a.inboundRow = row
    BY <1>1, <2>2, <2>3 DEF Op
  <2> HIDE DEF a
  <2>6. a \in OpOK BY <1>0, <1>1, <2>2, <2>3, <2>5 DEF OpOK
  <2>7. Provisioning(a, DOMAIN users', DOMAIN inbounds', access')
    BY <1>0, <2>5, NotProvisioning
  <2> QED BY <1>1, <1>2, <2>4, <2>5, <2>6, <2>7, OneGoesOn
<1>4. CASE i \notin DOMAIN inbounds
  <2>1. Go(p, Answer(o, "error")) BY <1>4 DEF LoadInbound
  <2> QED BY <1>0, <1>2, <2>1, ErrorGoesOn DEF Results
<1> QED BY <1>3, <1>4

LEMMA PatchedTyped ==
    ASSUME Rows, NEW as \in SUBSET DOMAIN access, NEW patch \in Patch
    PROVE  Patched(as, patch) \subseteq Write
<1> SUFFICES ASSUME NEW a \in as
             PROVE  [id |-> a, row |-> PatchedAccess(access[a], patch)] \in Write
  BY DEF Patched
<1>1. access[a] \in AccessRow /\ a \in Accesses BY RowOfTable DEF Rows
<1>2. PatchedAccess(access[a], patch) \in AccessRow
  BY <1>1 DEF PatchedAccess, AccessRow, Patch, Or
<1> QED BY <1>1, <1>2 DEF Write

LEMMA UserRowsTyped ==
    ASSUME Rows, NEW us PROVE UserRows(us) \in SUBSET [id : Users, row : UserRow]
<1> SUFFICES ASSUME NEW u \in us \cap DOMAIN users
             PROVE  [id |-> u, row |-> users[u]] \in [id : Users, row : UserRow]
  BY DEF UserRows
<1>1. users[u] \in UserRow /\ u \in Users BY RowOfTable DEF Rows
<1> QED BY <1>1

LEMMA ServersOfTyped == ASSUME Rows, NEW i PROVE ServersOf(i) \in SUBSET Servers
<1>1. ASSUME NEW j \in DOMAIN inbounds PROVE inbounds[j].server \in Servers
  <2>1. inbounds[j] \in InboundRow BY RowOfTable DEF Rows
  <2> QED BY <2>1 DEF InboundRow
<1> QED BY <1>1 DEF ServersOf

LEMMA NoPatchTyped == NoPatch \in Patch
BY DEF NoPatch, Patch

(* A bulk request goes on with other plans. *)
Replan(o, pc, todo, pending, servers) ==
    [o EXCEPT !.pc = pc, !.todo = todo, !.pending = pending, !.servers = servers]

LEMMA Replanned ==
    ASSUME NEW o \in OpOK, o.pc \in {"read", "impact", "rows"}, NEW pc \in {"impact", "rows"},
           NEW todo \in SUBSET [id : Users, row : UserRow], NEW pending \in SUBSET Write,
           NEW servers \in SUBSET Servers
    PROVE  /\ Replan(o, pc, todo, pending, servers) \in OpOK
           /\ Keeps(o, Replan(o, pc, todo, pending, servers))
           /\ Replan(o, pc, todo, pending, servers).req.kind # "provision"
           /\ Replan(o, pc, todo, pending, servers).pc = pc
<1> DEFINE b == [o EXCEPT !.pc = pc, !.todo = todo]
           a == [b EXCEPT !.pending = pending, !.servers = servers]
<1>1. o \in Op /\ o.req \in Requests /\ o.req.kind # "provision" /\ pc \in Pcs
  BY DEF OpOK, ProvisionPcs, Pcs
<1>2. b \in Op /\ Keeps(o, b) /\ b.pc = pc BY <1>1 DEF Op, Keeps
<1>3. a = Replan(o, pc, todo, pending, servers) BY <1>1 DEF Op, Replan
<1> HIDE DEF b
<1>4. a \in Op /\ Keeps(b, a) /\ a.pc = pc BY <1>2 DEF Op, Keeps
<1> HIDE DEF a
<1>5. a \in OpOK BY <1>1, <1>2, <1>4 DEF OpOK, Keeps
<1> QED BY <1>1, <1>2, <1>3, <1>4, <1>5 DEF Keeps

(* An inbound that a bulk request could not look up. *)
LEMMA LookedPast ==
    ASSUME NEW o \in OpOK, o.pc = "impact", NEW pc \in {"impact", "rows"},
           NEW rest \in SUBSET o.pending, NEW a, a = Replan(o, pc, o.todo, rest, o.servers)
    PROVE  a \in OpOK /\ Keeps(o, a) /\ a.req.kind # "provision"
<1> DEFINE todo == o.todo
           servers == o.servers
<1>1. o \in Op BY DEF OpOK
<1>2. /\ todo \in SUBSET [id : Users, row : UserRow] /\ rest \in SUBSET Write
      /\ servers \in SUBSET Servers
  BY <1>1 DEF Op
<1>3. a = Replan(o, pc, todo, rest, servers) OBVIOUS
<1> HIDE DEF todo, servers
<1> QED BY <1>2, <1>3, Replanned

LEMMA ReadBulkKeeps == ASSUME UInv, NEW p \in Procs, ReadBulk(p) PROVE UInv'
<1> DEFINE o == op[p]
           todo == UserRows(o.req.users)
           pending == Patched(o.req.accesses \cap DOMAIN access, NoPatch)
           a == Replan(o, "impact", todo, pending, o.servers)
<1>0. o.pc = "read" BY DEF ReadBulk, At
<1>1. o \in OpOK /\ o \in Op /\ ~Free(p) /\ Tables BY <1>0, Going
<1>2. todo \in SUBSET [id : Users, row : UserRow] BY <1>1, UserRowsTyped DEF Tables
<1>3. pending \in SUBSET Write BY <1>1, PatchedTyped, NoPatchTyped DEF Tables
<1>4. Go(p, a)
  <2>1. [o EXCEPT !.pc = "impact", !.todo = todo, !.pending = pending] = a
    BY <1>1 DEF Op, Replan
  <2> QED BY <2>1 DEF ReadBulk
<1> HIDE DEF todo, pending
<1>5. o.servers \in SUBSET Servers BY <1>1 DEF Op
<1>6. a \in OpOK /\ Keeps(o, a) /\ a.req.kind # "provision"
  BY <1>0, <1>1, <1>2, <1>3, <1>5, Replanned
<1> HIDE DEF a
<1>7. Tables' BY SameTables DEF ReadBulk
<1> QED BY <1>1, <1>4, <1>6, <1>7, NotProvisioning, OneGoesOn DEF Keeps

LEMMA CollectKeeps == ASSUME UInv, NEW p \in Procs, Collect(p) PROVE UInv'
<1> DEFINE o == op[p]
<1>0. o.pc = "impact" BY DEF Collect, At
<1>1. o \in OpOK /\ o \in Op /\ ~Free(p) /\ Tables BY <1>0, Going
<1>2. /\ o.servers \in SUBSET Servers /\ o.pending \in SUBSET Write
      /\ o.todo \in SUBSET [id : Users, row : UserRow]
  BY <1>1 DEF Op
<1>3. Tables' BY SameTables DEF Collect
<1>4. SUFFICES \E pc \in {"impact", "rows"}, todo \in SUBSET [id : Users, row : UserRow],
                  pending \in SUBSET Write, servers \in SUBSET Servers :
                  Go(p, Replan(o, pc, todo, pending, servers))
  <2>1. PICK pc \in {"impact", "rows"}, todo \in SUBSET [id : Users, row : UserRow],
             pending \in SUBSET Write, servers \in SUBSET Servers :
             Go(p, Replan(o, pc, todo, pending, servers))
    BY <1>4
  <2> DEFINE a == Replan(o, pc, todo, pending, servers)
  <2>2. a \in OpOK /\ Keeps(o, a) /\ a.req.kind # "provision"
    BY <1>0, <1>1, Replanned
  <2>3. Go(p, a) BY <2>1
  <2> HIDE DEF a
  <2> QED BY <1>1, <1>3, <2>2, <2>3, NotProvisioning, OneGoesOn DEF Keeps
<1>5. CASE \E w \in o.pending : Go(p, [o EXCEPT !.pending = @ \ {w},
                                              !.servers = @ \cup ServersOf(w.row.inbound)])
  <2>1. PICK w \in o.pending : Go(p, [o EXCEPT !.pending = @ \ {w},
                                              !.servers = @ \cup ServersOf(w.row.inbound)])
    BY <1>5
  <2> DEFINE rest == o.pending \ {w}
             more == o.servers \cup ServersOf(w.row.inbound)
  <2>2. rest \in SUBSET Write /\ more \in SUBSET Servers
    BY <1>1, <1>2, ServersOfTyped DEF Tables
  <2>3. Go(p, Replan(o, "impact", o.todo, rest, more))
    <3>1. [o EXCEPT !.pending = @ \ {w}, !.servers = @ \cup ServersOf(w.row.inbound)]
             = Replan(o, "impact", o.todo, rest, more)
      BY <1>0, <1>1 DEF Op, Replan
    <3> QED BY <2>1, <3>1
  <2> HIDE DEF rest, more
  <2> QED BY <1>2, <2>2, <2>3
<1>6. CASE \E t \in o.todo : Go(p, [o EXCEPT !.todo = @ \ {t},
                                           !.pending = Patched(AccessesOf(t.id), NoPatch)])
  <2>1. PICK t \in o.todo : Go(p, [o EXCEPT !.todo = @ \ {t},
                                           !.pending = Patched(AccessesOf(t.id), NoPatch)])
    BY <1>6
  <2> DEFINE rest == o.todo \ {t}
             found == Patched(AccessesOf(t.id), NoPatch)
  <2>2. found \in SUBSET Write
    <3>1. AccessesOf(t.id) \in SUBSET DOMAIN access BY DEF AccessesOf
    <3> QED BY <1>1, <3>1, PatchedTyped, NoPatchTyped DEF Tables
  <2>3. Go(p, Replan(o, "impact", rest, found, o.servers))
    <3>1. [o EXCEPT !.todo = @ \ {t}, !.pending = found] = Replan(o, "impact", rest, found, o.servers)
      BY <1>0, <1>1 DEF Op, Replan
    <3> QED BY <2>1, <3>1
  <2>4. rest \in SUBSET [id : Users, row : UserRow] BY <1>2
  <2> HIDE DEF rest, found
  <2> QED BY <1>2, <2>2, <2>3, <2>4
<1>7. CASE Go(p, [o EXCEPT !.pc = "rows", !.servers = @ \cup ServersOf(o.req.patch.to)])
  <2> DEFINE more == o.servers \cup ServersOf(o.req.patch.to)
  <2>1. more \in SUBSET Servers BY <1>1, <1>2, ServersOfTyped DEF Tables
  <2>2. Go(p, Replan(o, "rows", o.todo, o.pending, more))
    <3>1. [o EXCEPT !.pc = "rows", !.servers = @ \cup ServersOf(o.req.patch.to)]
             = Replan(o, "rows", o.todo, o.pending, more)
      BY <1>1 DEF Op, Replan
    <3> QED BY <1>7, <3>1
  <2> HIDE DEF more
  <2> QED BY <1>2, <2>1, <2>2
<1> QED BY <1>5, <1>6, <1>7 DEF Collect

LEMMA ReadRowsKeeps == ASSUME UInv, NEW p \in Procs, ReadRows(p) PROVE UInv'
<1> DEFINE o == op[p]
           servers == IF ChangesRuntime(o.req.patch) THEN o.servers ELSE {}
           todo == UserRows(o.req.users)
           pending == Patched(o.req.accesses \cap DOMAIN access, o.req.patch)
           b == Replan(o, "rows", todo, pending, servers)
<1>0. o.pc = "rows" BY DEF ReadRows, At
<1>1. o \in OpOK /\ o \in Op /\ ~Free(p) /\ Tables /\ o.req.patch \in Patch BY <1>0, Going
<1>2. todo \in SUBSET [id : Users, row : UserRow] BY <1>1, UserRowsTyped DEF Tables
<1>3. pending \in SUBSET Write BY <1>1, PatchedTyped DEF Tables
<1>4. servers \in SUBSET Servers BY <1>1 DEF Op
<1>5. PICK a \in Advance(b) : Go(p, a)
  <2>1. [o EXCEPT !.servers = IF ChangesRuntime(o.req.patch) THEN @ ELSE {},
                  !.todo = UserRows(o.req.users),
                  !.pending = Patched(o.req.accesses \cap DOMAIN access, o.req.patch)] = b
    BY <1>0, <1>1 DEF Op, Replan
  <2> QED BY <2>1 DEF ReadRows, GoTo
<1> HIDE DEF todo, pending, servers
<1>6. b \in OpOK /\ Keeps(o, b) /\ b.req.kind # "provision" /\ b.pc = "rows"
  BY <1>0, <1>1, <1>2, <1>3, <1>4, Replanned
<1> HIDE DEF b
<1>7. a \in OpOK /\ Keeps(b, a) BY <1>1, <1>5, <1>6, AdvanceOK
<1>8. Tables' BY SameTables DEF ReadRows
<1> QED BY <1>1, <1>5, <1>6, <1>7, <1>8, NotProvisioning, OneGoesOn DEF Keeps

LEMMA ListAccessesKeeps == ASSUME UInv, NEW p \in Procs, ListAccesses(p) PROVE UInv'
<1> DEFINE o == op[p]
           as == {a \in AccessesOf(o.user) :
                    o.req.patch.profile \/ o.req.patch.to \notin {None, access[a].inbound}}
           patch == [NoPatch EXCEPT !.to = o.req.patch.to]
           pending == Patched(as, patch)
           b == [o EXCEPT !.pending = pending]
<1>0. o.pc = "list" BY DEF ListAccesses, At
<1>1. o \in OpOK /\ o \in Op /\ ~Free(p) /\ Tables /\ o.req.patch \in Patch
      /\ o.req \in Requests
  BY <1>0, Going
<1>2. patch \in Patch BY <1>1 DEF Patch, NoPatch
<1> HIDE DEF patch
<1>3. pending \in SUBSET Write BY <1>1, <1>2, PatchedTyped DEF Tables, AccessesOf
<1>4. PICK a \in Advance(b) : Go(p, a) BY DEF ListAccesses, GoTo, patch
<1> HIDE DEF pending
<1>5. b \in Op /\ Keeps(o, b) /\ b.pc = "list" BY <1>0, <1>1, <1>3 DEF Op, Keeps
<1>6. o.req.kind # "provision" BY <1>0, <1>1 DEF OpOK, ProvisionPcs
<1> HIDE DEF b
<1>7. b \in OpOK BY <1>1, <1>5, <1>6 DEF OpOK, Keeps
<1>8. a \in OpOK /\ Keeps(b, a) BY <1>1, <1>4, <1>5, <1>7, AdvanceOK
<1>9. Tables' BY SameTables DEF ListAccesses
<1> QED BY <1>1, <1>4, <1>5, <1>6, <1>8, <1>9, NotProvisioning, OneGoesOn DEF Keeps

-----------------------------------------------------------------------------
(***************************************************************************)
(* Users.                                                                  *)
(***************************************************************************)
LEMMA RemoveUsersKeeps ==
    ASSUME Tables, NEW us, NEW fk \in BOOLEAN, RemoveUsers(us, fk),
           UNCHANGED <<inbounds, usedIds, secrets, drafted, begun, failures>>
    PROVE  Tables' /\ DOMAIN users' = DOMAIN users \ us
<1> DEFINE gone == {a \in DOMAIN access : access[a].user \in us}
<1>1. users' = Without(users, us) /\ access' \in {Without(access, gone), access}
      /\ fresh' \in {Without(fresh, us), fresh}
  BY DEF RemoveUsers
<1>2. IsTable(users', Users, UserRow) /\ DOMAIN users' = DOMAIN users \ us
  <2>1. IsTable(users, Users, UserRow) BY DEF Tables, Rows
  <2>2. /\ IsTable(Without(users, us), Users, UserRow)
        /\ DOMAIN Without(users, us) = DOMAIN users \ us
    BY <2>1, WithoutTable
  <2> QED BY <1>1, <2>2
<1> HIDE DEF gone
<1>3. IsTable(access', Accesses, AccessRow) /\ DOMAIN access' \subseteq DOMAIN access
  <2>1. IsTable(access, Accesses, AccessRow) BY DEF Tables, Rows
  <2>2. /\ IsTable(Without(access, gone), Accesses, AccessRow)
        /\ DOMAIN Without(access, gone) = DOMAIN access \ gone
    BY <2>1, WithoutTable
  <2> QED BY <1>1, <2>1, <2>2
<1>4. IsTable(fresh', Users, Document)
  <2>1. IsTable(fresh, Users, Document) BY DEF Tables
  <2>2. IsTable(Without(fresh, us), Users, Document) BY <2>1, WithoutTable
  <2> QED BY <1>1, <2>1, <2>2
<1> QED BY <1>2, <1>3, <1>4 DEF Tables, Rows

LEMMA WriteUserKeeps == ASSUME UInv, NEW p \in Procs, WriteUser(p) PROVE UInv'
<1> DEFINE o == op[p]
<1>0. o.pc = "user" BY DEF WriteUser, At
<1>1. o \in OpOK /\ o \in Op /\ ~Free(p) /\ Tables /\ o.req \in Requests
      /\ o.userRow \in UserRow
      /\ Provisioning(o, DOMAIN users, DOMAIN inbounds, access)
  BY <1>0, Going DEF OpOK
<1>2. PICK u \in IF o.user = None THEN Users \ usedIds ELSE {o.user} :
         IF NameTaken(u, o.userRow.name)
         THEN Go(p, Answer(o, "error")) /\ UNCHANGED <<users, usedIds>>
         ELSE /\ users' = Put(users, u, o.userRow)
              /\ usedIds' = usedIds \cup {u}
              /\ Go(p, [o EXCEPT !.pc = "userBack", !.user = u,
                                 !.pending = IF o.req.kind = "provision"
                                             THEN Provisioned(o, u) ELSE {}])
  BY DEF WriteUser
<1>3. u \in Users BY <1>1 DEF Op
<1>4. UNCHANGED <<inbounds, access, secrets, drafted, fresh, begun, failures>>
  BY DEF WriteUser, bounds
<1>5. CASE NameTaken(u, o.userRow.name)
  <2> DEFINE a == Answer(o, "error")
  <2>1. a \in OpOK /\ Keeps(o, a) BY <1>1, AnswerOK DEF Results
  <2>2. Go(p, a) /\ UNCHANGED <<users, usedIds>> BY <1>2, <1>5
  <2>3. Tables' BY <1>1, <1>4, <2>2 DEF Tables, Rows
  <2>4. Provision(o) => o.user = None BY <1>0, <1>1 DEF Provision, Provisioning
  <2>5. Provisioning(a, DOMAIN users', DOMAIN inbounds', access')
    <3>1. None \notin DOMAIN users' BY <1>1, <2>2, NoneIsApart DEF Tables, Rows, IsTable
    <3> QED BY <1>1, <2>4, <3>1, AnswerProvisioning DEF Results
  <2> HIDE DEF a
  <2> QED BY <1>1, <2>1, <2>2, <2>3, <2>5, OneGoesOn DEF Keeps
<1>6. CASE ~NameTaken(u, o.userRow.name)
  <2> DEFINE pending == IF o.req.kind = "provision" THEN Provisioned(o, u) ELSE {}
             a == [o EXCEPT !.pc = "userBack", !.user = u, !.pending = pending]
  <2>1. users' = Put(users, u, o.userRow) /\ usedIds' = usedIds \cup {u} /\ Go(p, a)
    BY <1>2, <1>6
  <2>2. IsTable(users', Users, UserRow) /\ DOMAIN users' = DOMAIN users \cup {u}
    <3>1. IsTable(users, Users, UserRow) BY <1>1 DEF Tables, Rows
    <3> DEFINE row == o.userRow
    <3>2. row \in UserRow BY <1>1
    <3> HIDE DEF row
    <3>3. u \in Users BY <1>3
    <3>4. IsTable(Put(users, u, row), Users, UserRow) BY <3>1, <3>2, <3>3, PutTable, ZenonT(60)
    <3>5. DOMAIN Put(users, u, row) = DOMAIN users \cup {u} BY DEF Put
    <3> QED BY <2>1, <3>4, <3>5 DEF row
  <2>3. Tables' BY <1>1, <1>3, <1>4, <2>1, <2>2 DEF Tables, Rows
  <2>4. ASSUME o.req.kind = "provision", NEW w \in Provisioned(o, u)
        PROVE  w \in Write /\ w.id = None /\ w.row.user = u
               /\ \E x \in Protocols : w.row.inbound = o.default[x]
    <3>1. PICK x \in Protocols :
            w = [id |-> None, row |-> [user |-> u, inbound |-> o.default[x], enabled |-> TRUE,
                                       vless |-> 0, hysteria2 |-> 0]]
      BY DEF Provisioned
    <3>2. o.default[x] \in Inbounds BY <1>0, <1>1, <2>4 DEF OpOK
    <3> QED BY <1>3, <3>1, <3>2 DEF Write, AccessRow
  <2>5. pending \in SUBSET Write BY <2>4
  <2>6. Provision(o) => \A w \in pending : ForUser(w, u, DOMAIN inbounds)
    BY <1>0, <1>1, <2>4 DEF ForUser, Provision, Provisioning
  <2> HIDE DEF pending
  <2>7. a \in Op /\ a.req = o.req /\ a.alone = o.alone /\ a.pc = "userBack" /\ a.user = u
        /\ a.pending = pending /\ a.todo = o.todo
    BY <1>1, <1>3, <2>5, ZenonT(60) DEF Op, Pcs
  <2> HIDE DEF a
  <2>8. a \in OpOK BY <1>1, <2>7 DEF OpOK, ProvisionPcs
  <2>9. Provisioning(a, DOMAIN users', DOMAIN inbounds', access')
    BY <1>4, <2>2, <2>6, <2>7 DEF Provisioning, Provision
  <2> QED BY <1>1, <2>1, <2>3, <2>7, <2>8, <2>9, OneGoesOn
<1> QED BY <1>5, <1>6

LEMMA ReadUserBackKeeps == ASSUME UInv, NEW p \in Procs, ReadUserBack(p) PROVE UInv'
<1> DEFINE o == op[p]
           a == [o EXCEPT !.pc = "mark"]
           e == Answer(o, "error")
<1>0. o.pc = "userBack" BY DEF ReadUserBack, At
<1>1. o \in OpOK /\ o \in Op /\ ~Free(p) /\ o.req \in Requests
      /\ Provisioning(o, DOMAIN users, DOMAIN inbounds, access)
  BY <1>0, Going
<1>2. Tables' /\ users' = users /\ inbounds' = inbounds /\ access' = access
  BY SameTables DEF ReadUserBack, rows
<1>3. CASE o.user \in DOMAIN users
  <2>1. Go(p, a) BY <1>3 DEF ReadUserBack
  <2>2. a \in Op /\ a.req = o.req /\ a.alone = o.alone /\ a.pc = "mark" /\ a.user = o.user
        /\ a.pending = o.pending /\ a.todo = o.todo
    BY <1>1 DEF Op, Pcs
  <2> HIDE DEF a
  <2>3. a \in OpOK BY <1>1, <2>2 DEF OpOK, ProvisionPcs
  <2>4. Provisioning(a, DOMAIN users', DOMAIN inbounds', access')
    BY <1>0, <1>1, <1>2, <2>2 DEF Provisioning
  <2> QED BY <1>1, <1>2, <2>1, <2>2, <2>3, <2>4, OneGoesOn
<1>4. CASE o.user \notin DOMAIN users
  <2>1. Go(p, e) BY <1>4 DEF ReadUserBack
  <2>2. e \in OpOK /\ Keeps(o, e) BY <1>1, AnswerOK DEF Results
  <2>3. Provisioning(e, DOMAIN users', DOMAIN inbounds', access')
    BY <1>1, <1>2, <1>4, AnswerProvisioning DEF Results
  <2> HIDE DEF e
  <2> QED BY <1>1, <1>2, <2>1, <2>2, <2>3, OneGoesOn DEF Keeps
<1> QED BY <1>3, <1>4

LEMMA MarkUserKeeps == ASSUME UInv, NEW p \in Procs, MarkUser(p) PROVE UInv'
<1> DEFINE o == op[p]
<1>0. o.pc = "mark" BY DEF MarkUser, At
<1>1. o \in OpOK /\ ~Free(p) /\ Tables /\ Provisioning(o, DOMAIN users, DOMAIN inbounds, access)
  BY <1>0, Going
<1>2. PICK a \in Marked(o) : Go(p, a) BY DEF MarkUser, GoTo
<1>3. a \in OpOK /\ Keeps(o, a) BY <1>0, <1>1, MarkedOK
<1>4. Provisioning(a, DOMAIN users, DOMAIN inbounds, access)
  <2>1. Provision(o) => /\ o.user \in DOMAIN users
                        /\ \A w \in o.pending : ForUser(w, o.user, DOMAIN inbounds)
    BY <1>0, <1>1 DEF Provisioning, Provision
  <2> QED BY <1>0, <1>1, <1>2, <2>1, MarkedProvisioning
<1>5. UNCHANGED <<rows, drafted, bounds>> /\ fresh' = Without(fresh, {o.user}) BY DEF MarkUser
<1>6. IsTable(fresh', Users, Document) BY <1>1, <1>5, WithoutTable DEF Tables
<1>7. Tables' /\ users' = users /\ inbounds' = inbounds /\ access' = access
  BY <1>1, <1>5, <1>6 DEF Tables, Rows, rows, bounds
<1> QED BY <1>1, <1>2, <1>3, <1>4, <1>7, OneGoesOn DEF Keeps

LEMMA RemoveUserKeeps == ASSUME UInv, NEW p \in Procs, RemoveUser(p) PROVE UInv'
<1> DEFINE o == op[p]
<1>0. o.pc = "remove" BY DEF RemoveUser, At
<1>1. o \in OpOK /\ ~Free(p) /\ Tables /\ o.req.kind # "provision"
  BY <1>0, Going DEF OpOK, ProvisionPcs
<1>2. UNCHANGED <<inbounds, usedIds, secrets, drafted, begun, failures>>
  BY DEF RemoveUser, bounds
<1>3. CASE o.user \in DOMAIN users
  <2>1. PICK fk \in ForeignKeys : RemoveUsers({o.user}, fk) BY <1>3 DEF RemoveUser
  <2>2. fk \in BOOLEAN BY EnvironmentAssumption
  <2>3. Tables' BY <1>1, <1>2, <2>1, <2>2, RemoveUsersKeeps
  <2>4. PICK a \in Advance(o) : Go(p, a) BY <1>3 DEF RemoveUser, GoTo
  <2>5. a \in OpOK /\ Keeps(o, a) BY <1>0, <1>1, <2>4, AdvanceOK
  <2> QED BY <1>1, <2>3, <2>4, <2>5, NotProvisioning, OneGoesOn DEF Keeps
<1>4. CASE o.user \notin DOMAIN users
  <2>1. Go(p, Answer(o, "error")) /\ UNCHANGED <<users, access, fresh>>
    BY <1>4 DEF RemoveUser
  <2>2. Tables' BY <1>1, <1>2, <2>1 DEF Tables, Rows
  <2> QED BY <1>0, <1>1, <2>1, <2>2, ErrorGoesOn DEF Results
<1> QED BY <1>3, <1>4

LEMMA BatchKeeps == ASSUME UInv, NEW p \in Procs, Batch(p) PROVE UInv'
<1> DEFINE o == op[p]
           us == o.req.users \cap DOMAIN users
<1>0. o.pc = "batch" /\ Go(p, Answer(o, "ok")) BY DEF Batch, At
<1>1. o \in OpOK /\ Tables /\ o.req.kind # "provision" /\ o.req.patch \in Patch
  BY <1>0, Going DEF OpOK, ProvisionPcs
<1>2. UNCHANGED <<inbounds, usedIds, secrets, drafted, begun, failures>>
  BY DEF Batch, bounds
<1>3. Tables'
  <2>1. CASE o.req.kind = "bulkDelete"
    <3>1. PICK fk \in ForeignKeys : RemoveUsers(us, fk) BY <2>1 DEF Batch
    <3>2. fk \in BOOLEAN BY EnvironmentAssumption
    <3> QED BY <1>1, <1>2, <3>1, <3>2, RemoveUsersKeeps
  <2>2. CASE o.req.kind # "bulkDelete"
    <3>1. /\ users' = [u \in DOMAIN users |->
                         IF u \in us THEN PatchedUser(users[u], o.req.patch) ELSE users[u]]
          /\ UNCHANGED <<access, fresh>>
      BY <2>2 DEF Batch
    <3>2. ASSUME NEW u \in DOMAIN users
          PROVE  users[u] \in UserRow /\ PatchedUser(users[u], o.req.patch) \in UserRow
      <4>1. users[u] \in UserRow BY <1>1, RowOfTable DEF Tables, Rows
      <4> QED BY <1>1, <4>1, PatchedUserTyped
    <3>3. IsTable(users', Users, UserRow) BY <1>1, <3>1, <3>2 DEF Tables, Rows, IsTable
    <3> QED BY <1>1, <1>2, <3>1, <3>3 DEF Tables, Rows
  <2> QED BY <2>1, <2>2
<1> QED BY <1>0, <1>1, <1>3, ErrorGoesOn DEF Results

-----------------------------------------------------------------------------
(***************************************************************************)
(* Accesses.                                                               *)
(***************************************************************************)
(* A refusal that no failed statement caused: not one of a provisioning. *)
LEMMA RefusalGoesOn ==
    ASSUME UInv, NEW p \in Procs, op[p].pc \in {"prepare", "store", "accessBack"},
           ~Provision(op[p]),
           Go(p, Refused(op[p])), Tables'
    PROVE  UInv'
<1> DEFINE o == op[p]
           a == Refused(o)
<1>1. o \in OpOK /\ ~Free(p) /\ o.pc # "idle" BY Going
<1>2. a \in OpOK /\ Keeps(o, a) BY <1>1, RefusedOK
<1>3. Provisioning(a, DOMAIN users', DOMAIN inbounds', access') BY <1>1, RefusedProvisioning
<1>4. Go(p, a) OBVIOUS
<1> HIDE DEF a
<1> QED BY <1>1, <1>2, <1>3, <1>4, OneGoesOn DEF Keeps

Credited(row, x, secret) == [row EXCEPT ![x] = secret, ![Other(x)] = 0]

LEMMA CredentialTyped ==
    ASSUME NEW row \in AccessRow, NEW x \in Protocols, NEW secret \in Nat
    PROVE  LET new == Credited(row, x, secret) IN
           /\ new \in AccessRow /\ Emptied(row, x) \in AccessRow /\ row[x] \in Nat
           /\ new.user = row.user /\ new.inbound = row.inbound
           /\ Emptied(row, x).user = row.user /\ Emptied(row, x).inbound = row.inbound
<1>1. CASE x = "vless" BY <1>1 DEF AccessRow, Other, Emptied, Credited
<1>2. CASE x = "hysteria2" BY <1>2 DEF AccessRow, Other, Emptied, Credited
<1> QED BY <1>1, <1>2 DEF Protocols

LEMMA PrepareAccessKeeps == ASSUME UInv, NEW p \in Procs, PrepareAccess(p) PROVE UInv'
<1> DEFINE o == op[p]
           w == o.write
           x == inbounds[w.row.inbound].protocol
           row == IF o.req.patch.rotate THEN Emptied(w.row, x) ELSE w.row
           kept == Kept(row, x)
           secret == IF row[x] # 0 THEN row[x]
                     ELSE IF kept # {} THEN CHOOSE k \in kept : TRUE ELSE secrets + 1
           new == Credited(row, x, secret)
<1>0. o.pc = "prepare" BY DEF PrepareAccess, At
<1>1. o \in OpOK /\ o \in Op /\ ~Free(p) /\ Tables /\ w \in Write
      /\ Provisioning(o, DOMAIN users, DOMAIN inbounds, access)
  BY <1>0, Going, SMTT(60) DEF OpOK
<1>2. UNCHANGED <<inbounds, users, access, usedIds, drafted, fresh, begun, failures>>
  BY DEF PrepareAccess, bounds
<1>3. CASE w.row.inbound \in DOMAIN inbounds /\ w.row.user \in DOMAIN users
  <2>1. Go(p, [o EXCEPT !.pc = "store", !.write.row = new])
        /\ secrets' = IF secret = secrets + 1 THEN secret ELSE secrets
    BY <1>3 DEF PrepareAccess, Credited
  <2>2. x \in Protocols
    <3>1. inbounds[w.row.inbound] \in InboundRow BY <1>1, <1>3, RowOfTable DEF Tables, Rows
    <3> QED BY <3>1 DEF InboundRow
  <2>3. w.row \in AccessRow BY <1>1 DEF Write
  <2>4. row \in AccessRow /\ row.user = w.row.user /\ row.inbound = w.row.inbound
    BY <2>2, <2>3, CredentialTyped
  <2>5. kept \subseteq Nat
    <3>1. ASSUME NEW b \in DOMAIN access PROVE access[b].hysteria2 \in Nat
      <4>1. access[b] \in AccessRow BY <1>1, RowOfTable, SMTT(60) DEF Tables, Rows
      <4> QED BY <4>1 DEF AccessRow
    <3> QED BY <3>1 DEF Kept, PairOf
  <2>6. row[x] \in Nat /\ secrets \in Nat BY <1>1, <2>2, <2>4, CredentialTyped DEF Tables
  <2> HIDE DEF row, kept, x
  <2>7. secret \in Nat /\ secrets' \in Nat
    <3> DEFINE pick == CHOOSE k \in kept : TRUE
    <3>1. kept # {} => pick \in kept OBVIOUS
    <3> HIDE DEF pick
    <3>2. secret = IF row[x] # 0 THEN row[x] ELSE IF kept # {} THEN pick ELSE secrets + 1
      BY DEF pick
    <3> HIDE DEF secret
    <3> DEFINE old == row[x]
    <3>4. old \in Nat BY <2>6
    <3>5. secret = IF old # 0 THEN old ELSE IF kept # {} THEN pick ELSE secrets + 1
      BY <3>2
    <3> HIDE DEF old
    <3>6. kept # {} => pick \in Nat BY <2>5, <3>1
    <3>3. secret \in Nat BY <2>6, <3>4, <3>5, <3>6
    <3> QED BY <2>1, <2>6, <3>3
  <2> HIDE DEF secret
  <2>8. new \in AccessRow /\ new.user = w.row.user /\ new.inbound = w.row.inbound
    <3>1. new \in AccessRow /\ new.user = row.user /\ new.inbound = row.inbound
      BY <2>2, <2>4, <2>7, CredentialTyped
    <3> QED BY <2>4, <3>1
  <2> HIDE DEF new
  <2> DEFINE v == [w EXCEPT !.row = new]
             a == [o EXCEPT !.pc = "store", !.write = v]
  <2>9. v \in Write /\ v.row = new /\ v.id = w.id BY <1>1, <2>8 DEF Write
  <2>10. Go(p, a)
    <3>1. [o EXCEPT !.pc = "store", !.write.row = new] = a BY <1>1 DEF Op
    <3> QED BY <2>1, <3>1
  <2> HIDE DEF v
  <2>11. a \in Op /\ a.req = o.req /\ a.alone = o.alone /\ a.pc = "store" /\ a.user = o.user
        /\ a.pending = o.pending /\ a.write = v /\ a.todo = o.todo
    BY <1>1, <2>9, ZenonT(60) DEF Op, Pcs
  <2> HIDE DEF a
  <2>12. a \in OpOK BY <1>0, <1>1, <2>9, <2>11 DEF OpOK, ProvisionPcs
  <2>13. Tables' BY <1>1, <1>2, <2>7 DEF Tables, Rows
  <2>14. Provisioning(a, DOMAIN users', DOMAIN inbounds', access')
    BY <1>0, <1>1, <1>2, <2>8, <2>9, <2>11 DEF Provisioning, ForUser
  <2> QED BY <1>1, <2>10, <2>11, <2>12, <2>13, <2>14, OneGoesOn, SMTT(60)
<1>4. CASE ~(w.row.inbound \in DOMAIN inbounds /\ w.row.user \in DOMAIN users)
  <2>1. Go(p, Refused(o)) /\ UNCHANGED secrets BY <1>4 DEF PrepareAccess
  <2>2. Tables' BY <1>1, <1>2, <2>1 DEF Tables, Rows
  <2>3. ~Provision(o) BY <1>0, <1>1, <1>4 DEF Provision, Provisioning, ForUser
  <2> QED BY <1>0, <2>1, <2>2, <2>3, RefusalGoesOn, SMTT(60)
<1> QED BY <1>3, <1>4, SMTT(60)

(* The access is written, read back or withdrawn. *)
LEMMA StoredGoesOn ==
    ASSUME UInv, NEW p \in Procs, op[p].pc \in {"store", "accessBack", "withdraw"},
           NEW pc \in {"accessBack", "mark"}, op[p].pc # "store" => pc = "mark",
           pc = "accessBack" => StoredIn(op[p].write.row, access'),
           Go(p, [op[p] EXCEPT !.pc = pc]), Tables',
           users' = users, inbounds' = inbounds
    PROVE  UInv'
<1> DEFINE o == op[p]
           a == [o EXCEPT !.pc = pc]
<1>1. o \in OpOK /\ o \in Op /\ ~Free(p)
      /\ Provisioning(o, DOMAIN users, DOMAIN inbounds, access)
  BY Going
<1>2. a \in Op /\ a.req = o.req /\ a.alone = o.alone /\ a.pc = pc /\ a.user = o.user
      /\ a.pending = o.pending /\ a.todo = o.todo /\ a.write = o.write
  BY <1>1 DEF Op, Pcs
<1>3. Go(p, a) OBVIOUS
<1> HIDE DEF a
<1>4. a \in OpOK BY <1>1, <1>2 DEF OpOK, ProvisionPcs
<1>5. o.req.kind = "provision" => o.pc \in {"store", "accessBack"}
  BY <1>1 DEF OpOK, ProvisionPcs
<1>6. Provisioning(a, DOMAIN users', DOMAIN inbounds', access')
  BY <1>1, <1>2, <1>5 DEF Provisioning
<1> QED BY <1>1, <1>2, <1>3, <1>4, <1>6, OneGoesOn

LEMMA StoreAccessKeeps == ASSUME UInv, NEW p \in Procs, StoreAccess(p) PROVE UInv'
<1> DEFINE o == op[p]
           w == o.write
           pair == PairOf(w.row)
<1>0. o.pc = "store" BY DEF StoreAccess, At
<1>1. o \in OpOK /\ Tables /\ w \in Write /\ Provisioning(o, DOMAIN users, DOMAIN inbounds, access)
  BY <1>0, Going DEF OpOK
<1>2. UNCHANGED <<inbounds, users, secrets, drafted, fresh, begun, failures>>
  BY DEF StoreAccess, bounds
<1>3. w.row \in AccessRow /\ IsTable(access, Accesses, AccessRow)
  BY <1>1 DEF Write, Tables, Rows
<1>4. CASE /\ pair # {}
           /\ access' = [a \in DOMAIN access |-> IF a \in pair THEN w.row ELSE access[a]]
           /\ Go(p, [o EXCEPT !.pc = "accessBack"])
           /\ UNCHANGED usedIds
  <2>1. IsTable(access', Accesses, AccessRow) /\ DOMAIN access' = DOMAIN access
    BY <1>3, <1>4 DEF IsTable
  <2>2. Tables' BY <1>1, <1>2, <1>4, <2>1 DEF Tables, Rows
  <2>3. StoredIn(w.row, access') BY <1>4, <2>1 DEF StoredIn, PairOf
  <2> QED BY <1>0, <1>2, <1>4, <2>2, <2>3, StoredGoesOn
<1>5. CASE /\ pair = {}
           /\ \E a \in IF w.id = None THEN Accesses \ usedIds ELSE {w.id} :
              \E fk \in ForeignKeys :
                 IF a \in DOMAIN access \/ (fk /\ ~Referred(w.row))
                 THEN Go(p, Refused(o)) /\ UNCHANGED <<access, usedIds>>
                 ELSE /\ access' = Put(access, a, w.row)
                      /\ usedIds' = usedIds \cup {a}
                      /\ Go(p, [o EXCEPT !.pc = "accessBack"])
  <2>1. PICK a \in (IF w.id = None THEN Accesses \ usedIds ELSE {w.id}), fk \in ForeignKeys :
           IF a \in DOMAIN access \/ (fk /\ ~Referred(w.row))
           THEN Go(p, Refused(o)) /\ UNCHANGED <<access, usedIds>>
           ELSE /\ access' = Put(access, a, w.row)
                /\ usedIds' = usedIds \cup {a}
                /\ Go(p, [o EXCEPT !.pc = "accessBack"])
    BY <1>5
  <2>2. a \in Accesses BY <1>1 DEF Write
  <2>3. CASE a \in DOMAIN access \/ (fk /\ ~Referred(w.row))
    <3>1. Go(p, Refused(o)) /\ UNCHANGED <<access, usedIds>> BY <2>1, <2>3
    <3>2. Tables' BY <1>1, <1>2, <3>1 DEF Tables, Rows
    <3>3. ~Provision(o)
      <4> SUFFICES ASSUME Provision(o) PROVE FALSE OBVIOUS
      <4>1. ForUser(w, o.user, DOMAIN inbounds) /\ o.user \in DOMAIN users
        BY <1>0, <1>1 DEF Provision, Provisioning
      <4>2. a \notin DOMAIN access BY <1>1, <2>1, <4>1 DEF ForUser, Tables
      <4> QED BY <2>3, <4>1, <4>2 DEF ForUser, Referred
    <3> QED BY <1>0, <3>1, <3>2, <3>3, RefusalGoesOn
  <2>4. CASE ~(a \in DOMAIN access \/ (fk /\ ~Referred(w.row)))
    <3>1. /\ access' = Put(access, a, w.row) /\ usedIds' = usedIds \cup {a}
          /\ Go(p, [o EXCEPT !.pc = "accessBack"])
      BY <2>1, <2>4
    <3> DEFINE row == w.row
    <3>2. row \in AccessRow BY <1>3
    <3> HIDE DEF row
    <3>3. /\ IsTable(Put(access, a, row), Accesses, AccessRow)
          /\ DOMAIN Put(access, a, row) = DOMAIN access \cup {a}
      <4>1. IsTable(access, Accesses, AccessRow) BY <1>3
      <4>2. IsTable(Put(access, a, row), Accesses, AccessRow)
        BY <2>2, <3>2, <4>1, PutTable, ZenonT(60)
      <4>3. DOMAIN Put(access, a, row) = DOMAIN access \cup {a} BY DEF Put
      <4> QED BY <4>2, <4>3
    <3>4. Tables' BY <1>1, <1>2, <2>2, <3>1, <3>3 DEF Tables, Rows, row
    <3>5. StoredIn(w.row, access') BY <3>1 DEF StoredIn, Put
    <3> QED BY <1>0, <1>2, <3>1, <3>4, <3>5, StoredGoesOn
  <2> QED BY <2>3, <2>4
<1> QED BY <1>4, <1>5 DEF StoreAccess

LEMMA ReadAccessBackKeeps == ASSUME UInv, NEW p \in Procs, ReadAccessBack(p) PROVE UInv'
<1> DEFINE o == op[p]
<1>0. o.pc = "accessBack" BY DEF ReadAccessBack, At
<1>1. Provisioning(o, DOMAIN users, DOMAIN inbounds, access) BY <1>0, Going
<1>2. Tables' /\ users' = users /\ inbounds' = inbounds
  BY SameTables DEF ReadAccessBack, rows
<1>3. CASE PairOf(o.write.row) # {}
  <2>1. Go(p, [o EXCEPT !.pc = "mark"]) BY <1>3 DEF ReadAccessBack
  <2> QED BY <1>0, <1>2, <2>1, StoredGoesOn
<1>4. CASE PairOf(o.write.row) = {}
  <2>1. Go(p, Refused(o)) BY <1>4 DEF ReadAccessBack
  <2>2. ~Provision(o) BY <1>0, <1>1, <1>4 DEF Provision, Provisioning, StoredIn, PairOf
  <2> QED BY <1>0, <1>2, <2>1, <2>2, RefusalGoesOn
<1> QED BY <1>3, <1>4

LEMMA WithdrawAccessKeeps == ASSUME UInv, NEW p \in Procs, WithdrawAccess(p) PROVE UInv'
<1> DEFINE o == op[p]
<1>0. o.pc = "withdraw" BY DEF WithdrawAccess, At
<1>1. Tables /\ o.req.kind # "provision" BY <1>0, Going DEF OpOK, ProvisionPcs
<1>2. UNCHANGED <<inbounds, users, usedIds, secrets, drafted, fresh, begun, failures>>
  BY DEF WithdrawAccess, bounds
<1>3. CASE o.write.id \in DOMAIN access
  <2>1. access' = Without(access, {o.write.id}) /\ Go(p, [o EXCEPT !.pc = "mark"])
    BY <1>3 DEF WithdrawAccess
  <2>2. IsTable(access, Accesses, AccessRow) BY <1>1 DEF Tables, Rows
  <2> DEFINE one == {o.write.id}
  <2> HIDE DEF one
  <2>5. /\ IsTable(Without(access, one), Accesses, AccessRow)
        /\ DOMAIN Without(access, one) = DOMAIN access \ one
    BY <2>2, WithoutTable
  <2>3. IsTable(access', Accesses, AccessRow) /\ DOMAIN access' \subseteq DOMAIN access
    BY <2>1, <2>5 DEF one
  <2>4. Tables' BY <1>1, <1>2, <2>3 DEF Tables, Rows
  <2> QED BY <1>0, <1>2, <2>1, <2>4, StoredGoesOn
<1>4. CASE o.write.id \notin DOMAIN access
  <2>1. Go(p, Answer(o, "error")) /\ UNCHANGED access BY <1>4 DEF WithdrawAccess
  <2>2. Tables' BY <1>1, <1>2, <2>1 DEF Tables, Rows
  <2> QED BY <1>0, <1>1, <2>1, <2>2, ErrorGoesOn DEF Results
<1> QED BY <1>3, <1>4

-----------------------------------------------------------------------------
(***************************************************************************)
(* Inbounds.                                                               *)
(***************************************************************************)
LEMMA WriteInboundKeeps == ASSUME UInv, NEW p \in Procs, WriteInbound(p) PROVE UInv'
<1> DEFINE o == op[p]
           i == o.req.inbound
           row == o.inboundRow
<1>0. o.pc = "inbound" BY DEF WriteInbound, At
<1>1. o \in OpOK /\ o \in Op /\ ~Free(p) /\ Tables /\ o.req \in Requests
      /\ o.req.kind # "provision" /\ row \in InboundRow /\ i \in Inbounds
  BY <1>0, Going DEF OpOK, ProvisionPcs
<1>2. UNCHANGED <<users, access, usedIds, secrets, drafted, fresh, begun, failures>>
  BY DEF WriteInbound, bounds
<1>3. CASE TagTaken(i, row)
  <2>1. Go(p, Answer(o, "error")) /\ UNCHANGED inbounds BY <1>3 DEF WriteInbound
  <2>2. Tables' BY <1>1, <1>2, <2>1 DEF Tables, Rows
  <2> QED BY <1>0, <1>1, <2>1, <2>2, ErrorGoesOn DEF Results
<1>4. CASE ~TagTaken(i, row)
  <2> DEFINE a == [o EXCEPT !.pc = "inboundBack"]
  <2>1. inbounds' = Put(inbounds, i, row) /\ Go(p, a) BY <1>4 DEF WriteInbound
  <2> HIDE DEF row, i
  <2>2. IsTable(inbounds, Inbounds, InboundRow) BY <1>1 DEF Tables, Rows
  <2>3. IsTable(inbounds', Inbounds, InboundRow)
    <3>1. IsTable(Put(inbounds, i, row), Inbounds, InboundRow)
      <4>1. row \in InboundRow /\ i \in Inbounds BY <1>1
      <4> QED BY <4>1, <2>2, PutTable, ZenonT(60)
    <3> QED BY <2>1, <3>1
  <2>4. Tables' BY <1>1, <1>2, <2>3 DEF Tables, Rows
  <2>5. a \in Op /\ a.req = o.req /\ a.alone = o.alone /\ a.pc = "inboundBack"
    BY <1>1 DEF Op, Pcs
  <2> HIDE DEF a
  <2>6. a \in OpOK BY <1>1, <2>5 DEF OpOK
  <2> QED BY <1>1, <2>1, <2>4, <2>5, <2>6, NotProvisioning, OneGoesOn
<1> QED BY <1>3, <1>4

LEMMA ReadInboundBackKeeps == ASSUME UInv, NEW p \in Procs, ReadInboundBack(p) PROVE UInv'
<1> DEFINE o == op[p]
           a == [o EXCEPT !.pc = "markServer"]
           e == Answer(o, "error")
<1>0. o.pc = "inboundBack" BY DEF ReadInboundBack, At
<1>1. o \in OpOK /\ o \in Op /\ ~Free(p) /\ o.req \in Requests /\ Tables
      /\ Provisioning(o, DOMAIN users, DOMAIN inbounds, access)
  BY <1>0, Going
<1>2. Tables' /\ users' = users /\ inbounds' = inbounds /\ access' = access
  BY SameTables DEF ReadInboundBack, rows
<1>3. CASE Go(p, a)
  <2>1. a \in Op /\ a.req = o.req /\ a.alone = o.alone /\ a.pc = "markServer"
        /\ a.user = o.user /\ a.default = o.default /\ a.todo = o.todo
        /\ a.userRow = o.userRow
    BY <1>1 DEF Op, Pcs
  <2> HIDE DEF a
  <2>2. a \in OpOK BY <1>0, <1>1, <2>1 DEF OpOK, ProvisionPcs
  <2>3. Provisioning(a, DOMAIN users', DOMAIN inbounds', access')
    BY <1>0, <1>1, <1>2, <2>1 DEF Provisioning
  <2> QED BY <1>1, <1>2, <1>3, <2>1, <2>2, <2>3, OneGoesOn
<1>4. CASE Go(p, e)
  <2>1. e \in OpOK /\ Keeps(o, e) BY <1>1, AnswerOK DEF Results
  <2>2. Provision(o) => o.user \notin DOMAIN users
    BY <1>0, <1>1, NoneIsApart DEF Provision, Provisioning, Tables, Rows, IsTable
  <2>3. Provisioning(e, DOMAIN users', DOMAIN inbounds', access')
    BY <1>1, <1>2, <2>2, AnswerProvisioning DEF Results
  <2> HIDE DEF e
  <2> QED BY <1>1, <1>2, <1>4, <2>1, <2>3, OneGoesOn DEF Keeps
<1> QED BY <1>3, <1>4 DEF ReadInboundBack

LEMMA DropInboundKeeps == ASSUME UInv, NEW p \in Procs, DropInbound(p) PROVE UInv'
<1> DEFINE o == op[p]
           i == o.req.inbound
<1>0. o.pc = "drop" BY DEF DropInbound, At
<1>1. o \in OpOK /\ o \in Op /\ ~Free(p) /\ Tables /\ o.req \in Requests
      /\ o.req.kind # "provision"
  BY <1>0, Going DEF OpOK, ProvisionPcs
<1>2. UNCHANGED <<users, usedIds, secrets, drafted, fresh, begun, failures>>
  BY DEF DropInbound, bounds
<1>3. CASE i \notin DOMAIN inbounds
  <2>1. Go(p, Answer(o, "error")) /\ UNCHANGED <<inbounds, access>> BY <1>3 DEF DropInbound
  <2>2. Tables' BY <1>1, <1>2, <2>1 DEF Tables, Rows
  <2> QED BY <1>0, <1>1, <2>1, <2>2, ErrorGoesOn DEF Results
<1>4. CASE i \in DOMAIN inbounds
  <2> DEFINE a == [o EXCEPT !.pc = "markServer"]
             one == {i}
             gone == {b \in DOMAIN access : access[b].inbound = i}
  <2>1. inbounds' = Without(inbounds, one) /\ Go(p, a)
        /\ access' \in {Without(access, gone), access}
    BY <1>4 DEF DropInbound
  <2> HIDE DEF one, gone
  <2>2. IsTable(inbounds, Inbounds, InboundRow) /\ IsTable(access, Accesses, AccessRow)
    BY <1>1 DEF Tables, Rows
  <2>3. IsTable(inbounds', Inbounds, InboundRow)
    <3>1. IsTable(Without(inbounds, one), Inbounds, InboundRow) BY <2>2, WithoutTable
    <3> QED BY <2>1, <3>1
  <2>4. IsTable(access', Accesses, AccessRow) /\ DOMAIN access' \subseteq DOMAIN access
    <3>1. /\ IsTable(Without(access, gone), Accesses, AccessRow)
          /\ DOMAIN Without(access, gone) = DOMAIN access \ gone
      BY <2>2, WithoutTable
    <3> QED BY <2>1, <2>2, <3>1
  <2>5. Tables' BY <1>1, <1>2, <2>3, <2>4 DEF Tables, Rows
  <2>6. a \in Op /\ a.req = o.req /\ a.alone = o.alone /\ a.pc = "markServer"
    BY <1>1 DEF Op, Pcs
  <2> HIDE DEF a
  <2>7. a \in OpOK BY <1>1, <2>6 DEF OpOK
  <2> QED BY <1>1, <2>1, <2>5, <2>6, <2>7, NotProvisioning, OneGoesOn
<1> QED BY <1>3, <1>4

LEMMA AfterServerMarkOK ==
    ASSUME NEW o \in OpOK, o.pc = "markServer", NEW us, NEW ins, NEW acc,
           Provision(o) => /\ o.user = None
                           /\ \A x \in Protocols : o.default[x] \in ins \cup {None}
    PROVE  /\ AfterServerMark(o) \in OpOK /\ Keeps(o, AfterServerMark(o))
           /\ Provisioning(AfterServerMark(o), us, ins, acc)
<1>0. o \in Op /\ o.req \in Requests /\ o.servers \in SUBSET Servers BY DEF OpOK, Op
<1>1. CASE o.req.kind = "provision"
  <2> DEFINE a == [o EXCEPT !.pc = "provide"]
  <2>1. a \in Op /\ Keeps(o, a) /\ a.pc = "provide" /\ a.user = o.user
        /\ a.todo = o.todo /\ a.default = o.default /\ a.userRow = o.userRow
    BY <1>0 DEF Op, Pcs, Keeps
  <2>2. AfterServerMark(o) = a BY <1>1 DEF AfterServerMark
  <2> HIDE DEF a
  <2>3. a \in OpOK BY <1>0, <1>1, <2>1 DEF OpOK, ProvisionPcs, Keeps
  <2>4. Provisioning(a, us, ins, acc) BY <2>1 DEF Provisioning, Provision, Keeps
  <2> QED BY <2>1, <2>2, <2>3, <2>4
<1>2. CASE o.req.kind # "provision"
  <2>1. AfterServerMark(o) = Drafting(o, o.servers) BY <1>2 DEF AfterServerMark
  <2> QED BY <1>0, <2>1, DraftingOK, DraftingProvisioning
<1> QED BY <1>1, <1>2

LEMMA MarkServerKeeps == ASSUME UInv, NEW p \in Procs, MarkServer(p) PROVE UInv'
<1> DEFINE o == op[p]
           a == AfterServerMark(o)
<1>0. o.pc = "markServer" BY DEF MarkServer, At
<1>1. o \in OpOK /\ ~Free(p) /\ Tables /\ Provisioning(o, DOMAIN users, DOMAIN inbounds, access)
  BY <1>0, Going
<1>2. a \in OpOK /\ Keeps(o, a) /\ Provisioning(a, DOMAIN users, DOMAIN inbounds, access)
  BY <1>0, <1>1, AfterServerMarkOK DEF Provisioning, Provision
<1>3. PICK us : fresh' = Without(fresh, us) BY DEF MarkServer
<1>4. Go(p, a) /\ UNCHANGED <<rows, drafted, bounds>> BY DEF MarkServer
<1> HIDE DEF a
<1>5. IsTable(fresh', Users, Document)
  <2>1. IsTable(fresh, Users, Document) BY <1>1 DEF Tables
  <2>2. IsTable(Without(fresh, us), Users, Document) BY <2>1, WithoutTable
  <2> QED BY <1>3, <2>2
<1>6. Tables' /\ users' = users /\ inbounds' = inbounds /\ access' = access
  BY <1>1, <1>4, <1>5 DEF Tables, Rows, rows, bounds
<1> QED BY <1>1, <1>2, <1>4, <1>6, OneGoesOn DEF Keeps

LEMMA EnsureInboundsKeeps == ASSUME UInv, NEW p \in Procs, EnsureInbounds(p) PROVE UInv'
<1> DEFINE o == op[p]
<1>0. o.pc = "ensure" BY DEF EnsureInbounds, At
<1>1. o \in OpOK /\ o \in Op /\ ~Free(p) /\ o.req \in Requests
      /\ Provisioning(o, DOMAIN users, DOMAIN inbounds, access)
  BY <1>0, Going
<1>2. Tables' /\ DOMAIN users' = DOMAIN users /\ DOMAIN inbounds' = DOMAIN inbounds
  BY SameTables DEF EnsureInbounds
<1>3. PICK d \in [Protocols -> Inbounds \cup {None}] :
         /\ \A x \in Protocols : d[x] \in IF Found(x) = {} THEN {None} ELSE Found(x)
         /\ Go(p, [o EXCEPT !.pc = "provide", !.default = d, !.servers = {DefaultServer}])
  BY DEF EnsureInbounds
<1> DEFINE a == [o EXCEPT !.pc = "provide", !.default = d, !.servers = {DefaultServer}]
<1>4. a \in Op /\ a.req = o.req /\ a.alone = o.alone /\ a.pc = "provide" /\ a.default = d
      /\ a.user = o.user /\ a.todo = o.todo /\ a.userRow = o.userRow
  <2>1. "provide" \in Pcs /\ {DefaultServer} \in SUBSET Servers BY NamesAssumption DEF Pcs
  <2>2. a \in Op
    <3> DEFINE S == {DefaultServer}
               b == [o EXCEPT !.pc = "provide", !.default = d]
    <3>1. o \in Op /\ d \in [Protocols -> Inbounds \cup {None}] BY <1>1
    <3>2. b \in Op BY <2>1, <3>1 DEF Op
    <3>3. a = [b EXCEPT !.servers = S] BY <3>1 DEF Op
    <3>4. S \in SUBSET Servers BY <2>1
    <3> HIDE DEF a, b, S
    <3>5. [b EXCEPT !.servers = S] \in Op BY <3>2, <3>4 DEF Op
    <3> QED BY <3>3, <3>5
  <2>3. a.req = o.req /\ a.alone = o.alone /\ a.pc = "provide" /\ a.default = d
        /\ a.user = o.user /\ a.todo = o.todo /\ a.userRow = o.userRow
    BY <1>1, SMTT(60) DEF Op
  <2> QED BY <2>2, <2>3
<1>5. Go(p, a) BY <1>3
<1> HIDE DEF a
<1>6. a \in OpOK BY <1>0, <1>1, <1>4 DEF OpOK, ProvisionPcs
<1>7. \A x \in Protocols : d[x] \in DOMAIN inbounds \cup {None} BY <1>3 DEF Found
<1>8. Provisioning(a, DOMAIN users', DOMAIN inbounds', access')
  BY <1>0, <1>1, <1>2, <1>4, <1>7 DEF Provisioning
<1> QED BY <1>1, <1>2, <1>4, <1>5, <1>6, <1>8, OneGoesOn

LEMMA ProvideInboundKeeps == ASSUME UInv, NEW p \in Procs, ProvideInbound(p) PROVE UInv'
<1> DEFINE o == op[p]
           x == IF "vless" \in Missing(o) THEN "vless" ELSE "hysteria2"
<1>0. o.pc = "provide" BY DEF ProvideInbound, At
<1>1. o \in OpOK /\ o \in Op /\ ~Free(p) /\ o.req \in Requests /\ Tables
      /\ Provisioning(o, DOMAIN users, DOMAIN inbounds, access)
  BY <1>0, Going
<1>2. UNCHANGED <<users, access, secrets, drafted, fresh, begun, failures>>
  BY DEF ProvideInbound, bounds
<1>3. o.default \in [Protocols -> Inbounds \cup {None}] BY <1>1 DEF Op
<1>4. CASE Missing(o) = {} /\ Go(p, [o EXCEPT !.pc = "user"]) /\ UNCHANGED <<inbounds, usedIds>>
  <2> DEFINE a == [o EXCEPT !.pc = "user"]
  <2>1. a \in Op /\ a.req = o.req /\ a.alone = o.alone /\ a.pc = "user"
        /\ a.default = o.default /\ a.user = o.user /\ a.todo = o.todo
        /\ a.userRow = o.userRow
    BY <1>1 DEF Op, Pcs
  <2>2. \A y \in Protocols : o.default[y] # None BY <1>4 DEF Missing
  <2>3. Tables' BY <1>1, <1>2, <1>4 DEF Tables, Rows
  <2>4. Go(p, a) BY <1>4
  <2> HIDE DEF a
  <2>5. a \in OpOK BY <1>0, <1>1, <1>3, <2>1, <2>2 DEF OpOK, ProvisionPcs
  <2>6. Provisioning(a, DOMAIN users', DOMAIN inbounds', access')
    BY <1>0, <1>1, <1>2, <1>4, <2>1, <2>2 DEF Provisioning
  <2> QED BY <1>1, <2>1, <2>3, <2>4, <2>5, <2>6, OneGoesOn
<1>5. CASE /\ Missing(o) # {}
           /\ \E i \in Inbounds \ usedIds :
                 IF TagTaken(i, DefaultInbound(x))
                 THEN Go(p, Answer(o, "error")) /\ UNCHANGED <<inbounds, usedIds>>
                 ELSE /\ inbounds' = Put(inbounds, i, DefaultInbound(x))
                      /\ usedIds' = usedIds \cup {i}
                      /\ Go(p, [o EXCEPT !.pc = "inboundBack", !.default[x] = i,
                                         !.inboundRow = DefaultInbound(x)])
  <2>1. PICK i \in Inbounds \ usedIds :
           IF TagTaken(i, DefaultInbound(x))
           THEN Go(p, Answer(o, "error")) /\ UNCHANGED <<inbounds, usedIds>>
           ELSE /\ inbounds' = Put(inbounds, i, DefaultInbound(x))
                /\ usedIds' = usedIds \cup {i}
                /\ Go(p, [o EXCEPT !.pc = "inboundBack", !.default[x] = i,
                                         !.inboundRow = DefaultInbound(x)])
    BY <1>5
  <2>2. x \in Protocols BY DEF Protocols
  <2> HIDE DEF x
  <2>3. CASE TagTaken(i, DefaultInbound(x))
    <3> DEFINE a == Answer(o, "error")
    <3>1. Go(p, a) /\ UNCHANGED <<inbounds, usedIds>> BY <2>1, <2>3
    <3>2. Tables' BY <1>1, <1>2, <3>1 DEF Tables, Rows
    <3>3. a \in OpOK /\ Keeps(o, a) BY <1>1, AnswerOK DEF Results
    <3>4. Provision(o) => o.user \notin DOMAIN users'
      BY <1>0, <1>1, <3>2, NoneIsApart DEF Provision, Provisioning, Tables, Rows, IsTable
    <3>5. Provisioning(a, DOMAIN users', DOMAIN inbounds', access')
      BY <1>1, <3>4, AnswerProvisioning DEF Results
    <3> HIDE DEF a
    <3> QED BY <1>1, <3>1, <3>2, <3>3, <3>5, OneGoesOn DEF Keeps
  <2>4. CASE ~TagTaken(i, DefaultInbound(x))
    <3> DEFINE row == DefaultInbound(x)
    <3>1. inbounds' = Put(inbounds, i, row) /\ usedIds' = usedIds \cup {i}
          /\ Go(p, [o EXCEPT !.pc = "inboundBack", !.default[x] = i, !.inboundRow = row])
      BY <2>1, <2>4
    <3>2. row \in InboundRow
      BY <2>2, NamesAssumption DEF DefaultInbound, InboundRow, Tags
    <3> HIDE DEF row
    <3>3. IsTable(inbounds', Inbounds, InboundRow) /\ DOMAIN inbounds' = DOMAIN inbounds \cup {i}
      <4>1. IsTable(inbounds, Inbounds, InboundRow) BY <1>1 DEF Tables, Rows
      <4>2. i \in Inbounds OBVIOUS
      <4>3. IsTable(Put(inbounds, i, row), Inbounds, InboundRow) 
        BY <3>2, <4>1, <4>2, PutTable, ZenonT(60)
      <4>4. DOMAIN Put(inbounds, i, row) = DOMAIN inbounds \cup {i} BY DEF Put
      <4> QED BY <3>1, <4>3, <4>4
    <3>4. Tables' BY <1>1, <1>2, <3>1, <3>3 DEF Tables, Rows
    <3> DEFINE d == [o.default EXCEPT ![x] = i]
               a == [o EXCEPT !.pc = "inboundBack", !.default = d, !.inboundRow = row]
    <3>5. d \in [Protocols -> Inbounds \cup {None}]
          /\ \A y \in Protocols : d[y] \in {i, o.default[y]}
      BY <1>3, <2>2
    <3>6. Go(p, a)
      <4>1. [o EXCEPT !.pc = "inboundBack", !.default[x] = i, !.inboundRow = row] = a
        BY <1>1 DEF Op
      <4> QED BY <3>1, <4>1
    <3> HIDE DEF d
    <3>7. a \in Op /\ a.req = o.req /\ a.alone = o.alone /\ a.pc = "inboundBack"
          /\ a.default = d /\ a.user = o.user /\ a.todo = o.todo
          /\ a.userRow = o.userRow
      BY <1>1, <3>2, <3>5, ZenonT(60) DEF Op, Pcs
    <3> HIDE DEF a
    <3>8. a \in OpOK BY <1>0, <1>1, <3>7 DEF OpOK, ProvisionPcs
    <3>9. Provisioning(a, DOMAIN users', DOMAIN inbounds', access')
      BY <1>0, <1>1, <3>3, <3>5, <3>7 DEF Provisioning
    <3> QED BY <1>1, <3>4, <3>6, <3>7, <3>8, <3>9, OneGoesOn
  <2> QED BY <2>3, <2>4
<1> QED BY <1>4, <1>5 DEF ProvideInbound

LEMMA RollBackKeeps == ASSUME UInv, NEW p \in Procs, RollBack(p) PROVE UInv'
<1> DEFINE o == op[p]
           a == Answer(o, "error")
<1>0. o.pc = "rollback" BY DEF RollBack, At
<1>1. o \in OpOK /\ o \in Op /\ ~Free(p) /\ o.req \in Requests /\ Tables BY <1>0, Going
<1>2. PICK fk \in ForeignKeys : RemoveUsers({o.user}, fk) BY DEF RollBack
<1>3. fk \in BOOLEAN BY EnvironmentAssumption
<1>4. UNCHANGED <<inbounds, usedIds, secrets, drafted, begun, failures>> /\ Go(p, a)
  BY DEF RollBack, bounds
<1>5. Tables' /\ DOMAIN users' = DOMAIN users \ {o.user}
  BY <1>1, <1>2, <1>3, <1>4, RemoveUsersKeeps
<1>6. a \in OpOK /\ Keeps(o, a) BY <1>1, AnswerOK DEF Results
<1>7. Provisioning(a, DOMAIN users', DOMAIN inbounds', access')
  BY <1>1, <1>5, AnswerProvisioning DEF Results
<1> HIDE DEF a
<1> QED BY <1>1, <1>4, <1>5, <1>6, <1>7, OneGoesOn DEF Keeps

-----------------------------------------------------------------------------
(***************************************************************************)
(* Documents, drafts and failures.                                         *)
(***************************************************************************)
LEMMA RenderDocumentKeeps == ASSUME UInv, NEW p \in Procs, RenderDocument(p) PROVE UInv'
<1> DEFINE o == op[p]
<1>0. o.pc = "render" BY DEF RenderDocument, At
<1>1. Tables /\ o.req.kind # "provision" BY <1>0, Going DEF OpOK, ProvisionPcs
<1>2. UNCHANGED <<rows, drafted, bounds>> BY DEF RenderDocument
<1>3. CASE o.user \in DOMAIN users
  <2> DEFINE u == o.user
             doc == DocumentOf(u)
  <2>1. fresh' = Put(fresh, u, doc) /\ Go(p, Answer(o, "ok")) BY <1>3 DEF RenderDocument
  <2>2. doc \in Document /\ u \in Users
    BY <1>1, <1>3, DocumentTyped DEF Tables, Rows, IsTable
  <2> HIDE DEF doc
  <2>3. IsTable(fresh', Users, Document)
    <3>1. IsTable(fresh, Users, Document) BY <1>1 DEF Tables
    <3>2. IsTable(Put(fresh, u, doc), Users, Document) 
      BY <2>2, <3>1, PutTable, ZenonT(60)
    <3> QED BY <2>1, <3>2
  <2>4. Tables' BY <1>1, <1>2, <2>3 DEF Tables, Rows, rows, bounds
  <2> QED BY <1>0, <1>1, <2>1, <2>4, ErrorGoesOn DEF Results
<1>4. CASE o.user \notin DOMAIN users
  <2>1. Go(p, Answer(o, "error")) /\ UNCHANGED fresh BY <1>4 DEF RenderDocument
  <2>2. Tables' BY <1>1, <1>2, <2>1 DEF Tables, Rows, rows, bounds
  <2> QED BY <1>0, <1>1, <2>1, <2>2, ErrorGoesOn DEF Results
<1> QED BY <1>3, <1>4

LEMMA DraftServerKeeps == ASSUME UInv, NEW p \in Procs, DraftServer(p) PROVE UInv'
<1> DEFINE o == op[p]
<1>0. o.pc = "draft" BY DEF DraftServer, At
<1>1. o \in OpOK /\ o \in Op /\ ~Free(p) /\ Tables BY <1>0, Going
<1>2. PICK s \in o.servers : /\ drafted' = [drafted EXCEPT ![s] = Config(s)]
                             /\ Go(p, Drafting(o, o.servers \ {s}))
  BY DEF DraftServer
<1> DEFINE rest == o.servers \ {s}
           a == Drafting(o, rest)
<1>3. rest \in SUBSET Servers /\ s \in Servers BY <1>1 DEF Op
<1>4. Go(p, a) BY <1>2
<1> HIDE DEF rest
<1>5. a \in OpOK /\ Keeps(o, a) BY <1>0, <1>1, <1>3, DraftingOK
<1>6. Provisioning(a, DOMAIN users', DOMAIN inbounds', access')
  BY <1>0, <1>1, <1>3, DraftingProvisioning
<1> HIDE DEF a
<1>7. drafted' \in [Servers -> SUBSET Entry] BY <1>1, <1>2, EntriesTyped DEF Tables
<1>8. UNCHANGED <<rows, fresh, bounds>> BY DEF DraftServer
<1>9. Tables' BY <1>1, <1>7, <1>8 DEF Tables, Rows, rows, bounds
<1> QED BY <1>1, <1>4, <1>5, <1>6, <1>9, OneGoesOn DEF Keeps

(* A failed statement of a provisioning refuses it: the user is taken back, or was *)
(* not written, or the failure is the second one.                                 *)
LEMMA FailureOK ==
    ASSUME UInv, NEW p \in Procs, ~Free(p), NEW o,
           o = [op[p] EXCEPT !.failed = @ + 1], NEW a \in AfterFailure(o)
    PROVE  /\ a \in OpOK /\ a.req = op[p].req /\ a.alone = op[p].alone
           /\ a.failed = op[p].failed + 1 /\ op[p].failed \in Nat
           /\ Provisioning(a, DOMAIN users, DOMAIN inbounds, access)
<1>0. op[p].pc \notin {"idle", "done"} BY DEF Free
<1>1. op[p] \in OpOK /\ op[p] \in Op /\ Tables /\ op[p].failed \in Nat
      /\ Provisioning(op[p], DOMAIN users, DOMAIN inbounds, access)
  BY <1>0, Going DEF Op
<1>2. o \in Op BY <1>1 DEF Op
<1>3. /\ o.req = op[p].req /\ o.pc = op[p].pc /\ o.userRow = op[p].userRow
      /\ o.write = op[p].write /\ o.inboundRow = op[p].inboundRow
      /\ o.todo = op[p].todo /\ o.default = op[p].default /\ o.user = op[p].user
      /\ o.pending = op[p].pending /\ o.alone = op[p].alone
      /\ o.failed = op[p].failed + 1
  BY <1>1 DEF Op
<1>4. o \in OpOK BY <1>1, <1>2, <1>3 DEF OpOK
<1>5. o.pc \notin {"idle", "done"} /\ o.req \in Requests BY <1>0, <1>3, <1>4 DEF OpOK
<1>6. Provision(o) = Provision(op[p]) BY <1>3 DEF Provision
<1>7. None \notin DOMAIN users BY <1>1, NoneIsApart DEF Tables, Rows, IsTable
<1>8. a \in OpOK /\ Keeps(o, a) /\ Provisioning(a, DOMAIN users, DOMAIN inbounds, access)
  <2>1. CASE o.pc = "mark"
    <3>1. a \in Marked(o) BY <2>1 DEF AfterFailure
    <3>2. Provision(o) => /\ o.user \in DOMAIN users
                          /\ \A w \in o.pending : ForUser(w, o.user, DOMAIN inbounds)
      BY <1>0, <1>1, <1>3, <1>6, <2>1 DEF Provisioning, Provision
    <3> QED BY <1>1, <1>4, <1>5, <3>1, <3>2, MarkedOK, MarkedProvisioning
  <2>2. CASE o.pc = "markServer"
    <3>1. a = AfterServerMark(o) BY <2>2 DEF AfterFailure
    <3>2. Provision(o) =>
            /\ o.user = None
            /\ \A x \in Protocols : o.default[x] \in DOMAIN inbounds \cup {None}
      BY <1>0, <1>1, <1>3, <1>6, <2>2 DEF Provisioning, Provision
    <3> QED BY <1>4, <2>2, <3>1, <3>2, AfterServerMarkOK
  <2>3. CASE o.pc = "impact" /\ ~(o.pending = {} /\ o.todo # {})
    <3>1. o.pending \in SUBSET Write /\ o.todo \in SUBSET [id : Users, row : UserRow]
          /\ o.servers \in SUBSET Servers
      BY <1>2 DEF Op
    <3>2. \E pc \in {"impact", "rows"}, rest \in SUBSET o.pending :
             a = Replan(o, pc, o.todo, rest, o.servers)
      <4>1. CASE o.pending # {}
        <5>1. PICK w \in o.pending : a = [o EXCEPT !.pending = @ \ {w}]
          BY <2>3, <4>1 DEF AfterFailure
        <5> DEFINE rest == o.pending \ {w}
        <5>2. a = Replan(o, "impact", o.todo, rest, o.servers)
          BY <1>2, <2>3, <5>1 DEF Op, Replan
        <5> QED BY <5>2
      <4>2. CASE o.pending = {} /\ o.todo = {}
        <5>1. a = [o EXCEPT !.pc = "rows"] BY <2>3, <4>2 DEF AfterFailure
        <5>2. a = Replan(o, "rows", o.todo, o.pending, o.servers)
          BY <1>2, <5>1 DEF Op, Replan
        <5> QED BY <5>2
      <4> QED BY <2>3, <4>1, <4>2
    <3>3. PICK pc \in {"impact", "rows"}, rest \in SUBSET o.pending :
             a = Replan(o, pc, o.todo, rest, o.servers)
      BY <3>2
    <3>4. o.pc = "impact" BY <2>3
    <3>5. a \in OpOK /\ Keeps(o, a) /\ a.req.kind # "provision"
      BY <1>4, <3>3, <3>4, LookedPast
    <3> QED BY <3>5, NotProvisioning
  <2>6. CASE o.pc = "userBack"
    <3>1. a = Answer(o, "unread") BY <2>6 DEF AfterFailure
    <3> QED BY <1>2, <1>5, <3>1, AnswerOK, AnswerProvisioning DEF Results
  <2>4. CASE o.pc = "draft"
    <3>1. a = Answer(o, "undrafted") BY <2>4 DEF AfterFailure
    <3> QED BY <1>2, <1>5, <3>1, AnswerOK, AnswerProvisioning DEF Results
  <2>5. CASE /\ o.pc \notin {"mark", "markServer", "userBack", "draft"}
             /\ o.pc = "impact" => o.pending = {} /\ o.todo # {}
    <3>1. a = Refused(o) BY <2>5 DEF AfterFailure
    <3>2. Provision(o) => o.pc \in {"ensure", "provide", "inboundBack", "user", "prepare",
                                      "store", "accessBack", "rollback"}
      BY <1>4, <1>5, <2>5 DEF Provision, OpOK, ProvisionPcs
    <3>3. Provision(o) => IF o.pc \in {"prepare", "store", "accessBack"} THEN o.failed >= 1
                          ELSE o.failed <= 1 => o.user \notin DOMAIN users
      <4> SUFFICES ASSUME Provision(o)
                   PROVE  IF o.pc \in {"prepare", "store", "accessBack"} THEN o.failed >= 1
                          ELSE o.failed <= 1 => o.user \notin DOMAIN users
        OBVIOUS
      <4>1. CASE o.pc \in {"prepare", "store", "accessBack"} BY <1>1, <1>3, <4>1
      <4>2. CASE o.pc \in {"ensure", "provide", "inboundBack", "user"}
        <5>1. o.user = None BY <1>0, <1>1, <1>3, <1>6, <4>2 DEF Provisioning, Provision
        <5> QED BY <1>7, <4>2, <5>1
      <4>3. CASE o.pc = "rollback"
        <5>1. op[p].failed >= 1 BY <1>0, <1>1, <1>3, <1>6, <4>3 DEF Provisioning, Provision
        <5> QED BY <1>1, <1>3, <4>3, <5>1
      <4> QED BY <3>2, <4>1, <4>2, <4>3
    <3> QED BY <1>4, <1>5, <3>1, <3>3, RefusedOK, RefusedProvisioning
  <2> QED BY <2>1, <2>2, <2>3, <2>4, <2>5, <2>6
<1> QED BY <1>1, <1>3, <1>8 DEF Keeps

LEMMA StatementFailsKeeps == ASSUME UInv, NEW p \in Procs, StatementFails(p) PROVE UInv'
<1> DEFINE o == [op[p] EXCEPT !.failed = @ + 1]
<1>1. PICK a \in AfterFailure(o) : Go(p, a) BY DEF StatementFails, GoTo
<1>2. ~Free(p) /\ failures' = failures + 1 /\ UNCHANGED <<rows, drafted, fresh, begun>>
  BY DEF StatementFails
<1>3. /\ a \in OpOK /\ a.req = op[p].req /\ a.alone = op[p].alone
      /\ Provisioning(a, DOMAIN users, DOMAIN inbounds, access)
  BY <1>1, <1>2, FailureOK
<1>4. Tables' /\ users' = users /\ inbounds' = inbounds /\ access' = access
  <2>1. Tables /\ failures \in Nat BY DEF UInv, Tables
  <2> QED BY <1>2, <2>1 DEF Tables, Rows, rows
<1> QED BY <1>1, <1>2, <1>3, <1>4, OneGoesOn

LEMMA StepKeeps == ASSUME UInv, NEW p \in Procs, Step(p) PROVE UInv'
<1>1. CASE LoadUser(p) \/ LoadAccess(p) \/ LoadInbound(p)
  BY <1>1, LoadUserKeeps, LoadAccessKeeps, LoadInboundKeeps
<1>2. CASE ReadBulk(p) \/ Collect(p) \/ ReadRows(p) \/ ListAccesses(p)
  BY <1>2, ReadBulkKeeps, CollectKeeps, ReadRowsKeeps, ListAccessesKeeps
<1>3. CASE WriteUser(p) \/ ReadUserBack(p) \/ MarkUser(p) \/ RemoveUser(p) \/ Batch(p)
  BY <1>3, WriteUserKeeps, ReadUserBackKeeps, MarkUserKeeps, RemoveUserKeeps, BatchKeeps
<1>4. CASE PrepareAccess(p) \/ StoreAccess(p) \/ ReadAccessBack(p) \/ WithdrawAccess(p)
  BY <1>4, PrepareAccessKeeps, StoreAccessKeeps, ReadAccessBackKeeps, WithdrawAccessKeeps
<1>5. CASE WriteInbound(p) \/ ReadInboundBack(p) \/ DropInbound(p) \/ MarkServer(p)
           \/ EnsureInbounds(p) \/ ProvideInbound(p)
  BY <1>5, WriteInboundKeeps, ReadInboundBackKeeps, DropInboundKeeps, MarkServerKeeps,
     EnsureInboundsKeeps, ProvideInboundKeeps
<1>6. CASE RollBack(p) \/ RenderDocument(p) \/ DraftServer(p) \/ StatementFails(p)
  BY <1>6, RollBackKeeps, RenderDocumentKeeps, DraftServerKeeps, StatementFailsKeeps
<1> QED BY <1>1, <1>2, <1>3, <1>4, <1>5, <1>6 DEF Step

LEMMA NextKeeps == UInv /\ [Next]_vars => UInv'
<1> SUFFICES ASSUME UInv, [Next]_vars PROVE UInv' OBVIOUS
<1>1. CASE Next
  <2>1. CASE \E p \in Procs, r \in Requests : Begin(p, r) BY <2>1, BeginKeeps
  <2>2. CASE \E p \in Procs : Step(p) BY <2>2, StepKeeps
  <2>3. CASE Crash BY <2>3, CrashKeeps
  <2> QED BY <1>1, <2>1, <2>2, <2>3 DEF Next
<1>2. CASE UNCHANGED vars
  <2>1. UNCHANGED <<rows, drafted, fresh, begun, failures, op>> BY <1>2 DEF vars
  <2>2. Tables' /\ users' = users /\ inbounds' = inbounds /\ access' = access
    BY <2>1 DEF UInv, Tables, Rows, rows
  <2> QED BY <2>1, <2>2 DEF UInv, Alone, Free, Provisionings
<1> QED BY <1>1, <1>2

LEMMA Invariance == Spec => []UInv
BY InitInv, NextKeeps, PTL DEF Spec

-----------------------------------------------------------------------------
(***************************************************************************)
(* The theorems.                                                           *)
(***************************************************************************)
(* The rows, the drafts, the documents and what requests carry keep their types, *)
(* whatever requests, failures and connections there are.                        *)
THEOREM TypeCorrect == Spec => []TypeOK
<1>1. UInv => TypeOK
  <2> SUFFICES ASSUME UInv PROVE TypeOK OBVIOUS
  <2>1. op \in [Procs -> Op] BY DEF UInv, OpOK
  <2> QED BY <2>1 DEF UInv, Tables, Rows, TypeOK
<1> QED BY <1>1, Invariance, PTL

(* ProvisionUser that ran alone and fails leaves no user, whichever statement failed  *)
(* but two: the one that reads the inserted user back, which is answered with         *)
(* "unread", and the one that takes the user back.                                    *)
THEOREM FailedProvisionTakenBack == Spec => []FailedProvisionLeavesNoUser
<1>1. UInv => FailedProvisionLeavesNoUser
  BY DEF UInv, Provisionings, Provisioning, FailedProvisionLeavesNoUser, Answered, At
<1> QED BY <1>1, Invariance, PTL

=============================================================================
