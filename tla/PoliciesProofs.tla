---------------------------- MODULE PoliciesProofs ----------------------------
(***************************************************************************)
(* Proofs about Policies, for any policies, inbounds, requests and number  *)
(* of processes: the types and the unique tags of outbounds, the marks of  *)
(* documents, the validation, and the usage shown before a delete.         *)
(*                                                                         *)
(* A write, its re-read and its mark are three steps.  The mark of one     *)
(* request may reach fewer users when another has moved them, and is not   *)
(* made when another has deleted the row: that other request marks them.   *)
(***************************************************************************)
EXTENDS Policies, TLAPS

\* The requests that come to each place.
KindsAt ==
    [idle |-> {"none"}, write |-> {"upsert", "inbound", "access"},
     back |-> {"upsert", "inbound", "access"}, usage |-> {"remove"},
     get |-> {"delete", "remove"}, delete |-> {"delete", "remove"},
     mark |-> {"upsert", "inbound", "access", "delete", "remove"},
     inbounds |-> {"validate"}, rules |-> {"validate"}, outbounds |-> {"validate"},
     document |-> {"document"}]

OpOK == {o \in Op : /\ o.pc # "idle" => o.req \in Requests
                    /\ o.pc # "done" => o.req.kind \in KindsAt[o.pc]}

\* A process that runs alone leaves the others idle.
Alone == \A p, q \in Procs : p # q /\ ~Free(p) /\ op[p].alone => Free(q)

\* What a request that runs alone has read is still so.
AsRead(o) ==
    o.alone =>
    /\ o.pc \in {"rules", "outbounds"} =>
          \A s \in Servers : o.req.id = s =>
             /\ o.errors = Missing(s)
             /\ o.pc = "outbounds" => o.rules = TagsOf(Enabled(s, "rule"))
    /\ o.pc \in {"get", "delete"} =>
          \A id \in Policies : o.req.id = id =>
             (o.req.kind = "remove" /\ ~o.failed => ~UsageOf(id).unsafe)

\* A server found valid has its references, and its rules their outbounds.
StillValid ==
    \A s \in valid : ~Missing(s) /\ TagsOf(Enabled(s, "rule")) \subseteq Known(s)

Typed == TypeOK /\ op \in [Procs -> OpOK]
Reads == StillValid /\ \A p \in Procs : AsRead(op[p])

-----------------------------------------------------------------------------
(***************************************************************************)
(* Requests and steps.                                                     *)
(***************************************************************************)
LEMMA RequestFacts ==
    ASSUME NEW r \in Requests
    PROVE  /\ r.kind \in {"upsert", "delete", "remove", "inbound", "access", "validate",
                          "document"}
           /\ r.kind \in {"upsert", "delete", "remove"} => r.id \in Policies
           /\ r.kind = "upsert" => r.row \in PolicyRow
           /\ r.kind = "inbound" => r.id \in Inbounds /\ r.row \in InboundRow
           /\ r.kind = "access" => r.id \in Users /\ r.client \in Policies \cup {None}
           /\ r.kind = "validate" => r.id \in Servers
           /\ r.kind = "document" => r.id \in Users
<1>1. r \in Request BY PoliciesAssumption
<1> QED BY <1>1 DEF Request

LEMMA NoOpOK == NoOp \in OpOK
BY DEF NoOp, OpOK, Op, KindsAt, Pcs, NoRequest

LEMMA OpFacts ==
    ASSUME op \in [Procs -> OpOK], NEW p \in Procs
    PROVE  /\ op[p] \in Op
           /\ ~Free(p) => op[p].req \in Requests
           /\ ~Free(p) => op[p].req.kind \in KindsAt[op[p].pc]
BY DEF OpOK, Free

LEMMA StoredRow ==
    ASSUME policies \in [Policies -> PolicyRow \cup {None}], NEW id \in Policies, Stored(id)
    PROVE  policies[id] \in PolicyRow
BY DEF Stored

LEMMA TagsTyped ==
    ASSUME policies \in [Policies -> PolicyRow \cup {None}], NEW s, NEW kind
    PROVE  TagsOf(Enabled(s, kind)) \in SUBSET (Tags \cup {None})
<1> SUFFICES ASSUME NEW id \in Enabled(s, kind) PROVE policies[id].tag \in Tags \cup {None}
  BY DEF TagsOf
<1>1. id \in Policies /\ Stored(id) BY DEF Enabled, OfServer, Found
<1> QED BY <1>1, StoredRow DEF PolicyRow

\* The process of a step is not free; it keeps its request, and others keep their place.
LEMMA OneGoesOn ==
    ASSUME Typed, NEW p \in Procs, Step(p) \/ StatementFails(p)
    PROVE  /\ ~Free(p)
           /\ \A q \in Procs \ {p} : op'[q] = op[q]
           /\ op'[p].req = op[p].req /\ op'[p].alone = op[p].alone
           /\ op' \in [Procs -> Op]
<1> op \in [Procs -> OpOK] BY DEF Typed
<1> op[p] \in Op BY DEF OpOK
<1>1. CASE StatementFails(p)
  <2>1. ResultOfFailure(op[p]) \in {"none", "ok", "error", "refused", "invalid"}
    BY DEF ResultOfFailure
  <2> QED BY <1>1, <2>1 DEF StatementFails, OpOK, Op, Pcs, Free
<1>2. CASE UpsertPolicy(p)
  BY <1>2 DEF UpsertPolicy, OpOK, Op, Pcs, Free, At, Go, Answer
<1>3. CASE WriteInbound(p)
  BY <1>3 DEF WriteInbound, OpOK, Op, Pcs, Free, At, Go
<1>4. CASE WriteAccess(p)
  BY <1>4 DEF WriteAccess, OpOK, Op, Pcs, Free, At, Go
<1>5. CASE AskUsage(p)
  BY <1>5 DEF AskUsage, OpOK, Op, Pcs, Free, At, Go, Answer
<1>6. CASE GetPolicy(p)
  BY <1>6 DEF GetPolicy, OpOK, Op, Pcs, Free, At, Go, Answer
<1>7. CASE DeletePolicy(p)
  BY <1>7 DEF DeletePolicy, OpOK, Op, Pcs, Free, At, Go, Answer
<1>8. CASE Mark(p)
  BY <1>8 DEF Mark, OpOK, Op, Pcs, Free, At, Answer
<1>9. CASE RenderDocument(p)
  BY <1>9 DEF RenderDocument, OpOK, Op, Pcs, Free, At, Answer
<1>10. CASE ValidateInbounds(p)
  <2>1. Missing(op[p].req.id) \in BOOLEAN BY DEF Missing
  <2> QED BY <1>10, <2>1 DEF ValidateInbounds, OpOK, Op, Pcs, Free, At
<1>11. CASE ValidateRules(p)
  <2>1. TagsOf(Enabled(op[p].req.id, "rule")) \in SUBSET (Tags \cup {None})
    BY TagsTyped DEF Typed, TypeOK
  <2> QED BY <1>11, <2>1 DEF ValidateRules, OpOK, Op, Pcs, Free, At
<1>12. CASE ValidateOutbounds(p)
  BY <1>12 DEF ValidateOutbounds, OpOK, Op, Pcs, Free, At, Answer
<1>13. CASE ReadBack(p)
  <2>1. op[p].req.kind = "inbound" => inbounds[op[p].req.id].server \in Servers
    <3>1. op[p].req \in Requests BY <1>13, OpFacts DEF ReadBack, At, Free
    <3> QED BY <3>1, RequestFacts DEF Typed, TypeOK, InboundRow
  <2> QED BY <1>13, <2>1 DEF ReadBack, OpOK, Op, Pcs, Free, At, Go, Answer
<1>14. CASE CountFails(p)
  BY <1>14 DEF CountFails, OpOK, Op, Pcs, Free, At
<1> QED BY <1>1, <1>2, <1>3, <1>4, <1>5, <1>6, <1>7, <1>8, <1>9, <1>10, <1>11, <1>12, <1>13,
           <1>14
        DEF Step

\* Every step is one of these.
LEMMA NextSteps ==
    ASSUME [Next]_vars
    PROVE  \/ \E p \in Procs, r \in Requests : Begin(p, r)
           \/ \E p \in Procs : Step(p) \/ StatementFails(p)
           \/ Crash
           \/ UNCHANGED vars
BY DEF Next

\* A step that leaves the tables alone leaves what is made of them.
LEMMA SameTables ==
    ASSUME UNCHANGED tables
    PROVE  /\ \A u : DocumentOf(u)' = DocumentOf(u) /\ Local(u)' = Local(u)
           /\ \A s : UsersOn(s)' = UsersOn(s) /\ Missing(s)' = Missing(s) /\ Known(s)' = Known(s)
           /\ \A s, k : TagsOf(Enabled(s, k))' = TagsOf(Enabled(s, k))
           /\ \A id : UsersOf(id)' = UsersOf(id) /\ UsageOf(id)' = UsageOf(id)
<1> UNCHANGED <<policies, inbounds, access>> BY DEF tables
<1>1. \A id : Stored(id)' = Stored(id) BY DEF Stored
<1>2. \A k, id : Found(k, id)' = Found(k, id) BY <1>1 DEF Found
<1>3. \A k, id : ValueOf(k, id)' = ValueOf(k, id) BY <1>2 DEF ValueOf
<1>4. \A i : Resolved(i)' = Resolved(i) BY <1>3 DEF Resolved
<1>5. \A s, k : Enabled(s, k)' = Enabled(s, k) BY <1>2 DEF Enabled, OfServer
<1>6. \A s, k : TagsOf(Enabled(s, k))' = TagsOf(Enabled(s, k)) BY <1>5 DEF TagsOf
<1>7. \A id : UsersOf(id)' = UsersOf(id) BY DEF UsersOf
<1>8. \A u : DocumentOf(u)' = DocumentOf(u) BY <1>2, <1>3, <1>4 DEF DocumentOf
<1>9. \A s : Missing(s)' = Missing(s) BY <1>2 DEF Missing
<1>10. \A s : Known(s)' = Known(s) BY <1>6 DEF Known, Outbounds
<1>11. \A id : InboundsOf(id)' = InboundsOf(id) BY DEF InboundsOf
<1>12. \A id : RulesOf(id)' = RulesOf(id) BY <1>2 DEF RulesOf
<1>13. \A id : Unsafe(id, Counters)' = Unsafe(id, Counters)
  BY <1>7, <1>11, <1>12 DEF Unsafe, Count, Counters
<1>14. \A id : UsageOf(id)' = UsageOf(id) BY <1>7, <1>11, <1>13 DEF UsageOf
<1> QED BY <1>6, <1>7, <1>8, <1>9, <1>10, <1>14 DEF UsersOn, Local

\* What is unsafe is what is counted.
LEMMA UnsafeCounts ==
    ASSUME NEW id
    PROVE  UsageOf(id).unsafe <=> UsersOf(id) # {} \/ InboundsOf(id) # {} \/ RulesOf(id) # {}
<1>1. UsageOf(id).unsafe <=> Unsafe(id, Counters) BY DEF UsageOf
<1>2. /\ Count("users", id) = UsersOf(id) /\ Count("access", id) = UsersOf(id)
      /\ Count("inbounds", id) = InboundsOf(id) /\ Count("rules", id) = RulesOf(id)
  BY DEF Count
<1>3. Unsafe(id, Counters) <=> UsersOf(id) # {} \/ InboundsOf(id) # {} \/ RulesOf(id) # {}
  BY <1>2 DEF Unsafe, Counters
<1> QED BY <1>1, <1>3

-----------------------------------------------------------------------------
(***************************************************************************)
(* Types.                                                                  *)
(***************************************************************************)
LEMMA DocumentTyped ==
    ASSUME policies \in [Policies -> PolicyRow \cup {None}],
           inbounds \in [Inbounds -> InboundRow], access \in [Users -> AccessRow],
           NEW u \in Users
    PROVE  DocumentOf(u) \in SUBSET Document
<1>1. access[u].inbound \in Inbounds BY DEF AccessRow
<1>2. \A k, id : id \in Policies \cup {None} => ValueOf(k, id) \in Values \cup {None}
  <2> SUFFICES ASSUME NEW k, NEW id \in Policies \cup {None}
               PROVE ValueOf(k, id) \in Values \cup {None}
    OBVIOUS
  <2>1. Found(k, id) => id \in Policies /\ Stored(id) BY DEF Found
  <2> QED BY <2>1, StoredRow DEF ValueOf, PolicyRow
<1>3. access[u].client \in Policies \cup {None} BY DEF AccessRow
<1>4. \A k \in SettingKinds : inbounds[access[u].inbound].refs[k] \in Policies \cup {None}
  BY <1>1 DEF InboundRow
<1>5. [k \in SettingKinds \ {"masquerade"} |-> Resolved(access[u].inbound)[k]]
          \in [SettingKinds \ {"masquerade"} -> Values \cup {None}]
  BY <1>2, <1>4 DEF Resolved
<1> QED BY <1>1, <1>2, <1>3, <1>5 DEF DocumentOf, Document

LEMMA InitTyped == ASSUME Init PROVE Typed
<1>1. fresh \in [Users -> (SUBSET Document) \cup {None}]
  BY DocumentTyped, PoliciesAssumption DEF Init
<1>2. op \in [Procs -> OpOK] BY NoOpOK DEF Init
<1>3. op \in [Procs -> Op] BY <1>2 DEF OpOK
<1>4. \A s \in Servers : \A x, y \in OfServer(s, "outbound") :
         policies[x].tag = policies[y].tag => x = y
  <2> SUFFICES ASSUME NEW s \in Servers, NEW x \in OfServer(s, "outbound"),
                      NEW y \in OfServer(s, "outbound"), policies[x].tag = policies[y].tag
               PROVE x = y
    OBVIOUS
  <2>1. policies = InitPolicies BY DEF Init
  <2>2. /\ {x, y} \subseteq {id \in Policies : Kind[id] = "outbound" /\ InitPolicies[id] # None}
        /\ Home[x] = Home[y]
    BY <2>1 DEF OfServer, Found, Stored
  <2> QED BY <2>1, <2>2, PoliciesAssumption
<1>5. /\ policies \in [Policies -> PolicyRow \cup {None}]
      /\ born \in [Policies -> Nat] /\ clock \in Nat
      /\ inbounds \in [Inbounds -> InboundRow] /\ access \in [Users -> AccessRow]
      /\ unmarked \subseteq Users /\ valid \subseteq Servers /\ begun \in Nat /\ failures \in Nat
  BY PoliciesAssumption, SMTT(60) DEF Init
<1> QED BY <1>1, <1>2, <1>3, <1>4, <1>5 DEF Typed, TypeOK

LEMMA UsersPending == ASSUME Typed, NEW p \in Procs PROVE Pending(op[p]) \subseteq Users
<1>1. CASE op[p].pc \in {"back", "mark"}
  <2>1. op[p].req \in Requests /\ op[p].req.kind \in KindsAt[op[p].pc]
    BY <1>1, OpFacts DEF Typed, Free
  <2>2. op[p].req.kind \in {"upsert", "inbound", "access", "delete", "remove"}
    BY <1>1, <2>1 DEF KindsAt
  <2>3. Reached(op[p]) \subseteq Users BY <2>1, <2>2, RequestFacts DEF Reached, UsersOf, UsersOn
  <2> QED BY <1>1, <2>1, <2>3, RequestFacts DEF Pending
<1>2. CASE op[p].pc \notin {"back", "mark"} BY <1>2 DEF Pending
<1> QED BY <1>1, <1>2

\* Where the request of a step is afterwards.
LEMMA PlacesStep ==
    ASSUME Typed, NEW p \in Procs, Step(p) \/ StatementFails(p)
    PROVE  op' \in [Procs -> OpOK]
<1>1. ~Free(p) /\ op' \in [Procs -> Op] /\ op'[p].req = op[p].req
      /\ \A q \in Procs \ {p} : op'[q] = op[q]
  BY OneGoesOn
<1>2. op \in [Procs -> OpOK] BY DEF Typed
<1>3. op[p] \in Op /\ op[p].req \in Requests /\ op[p].req.kind \in KindsAt[op[p].pc]
  BY <1>1, <1>2, OpFacts
<1>4. op'[p].pc \in Pcs BY <1>1 DEF Op
<1>5. op'[p].pc # "done" => op'[p].req.kind \in KindsAt[op'[p].pc]
  <2>1. CASE StatementFails(p) BY <1>2, <2>1 DEF StatementFails, OpOK, Op
  <2>2. CASE UpsertPolicy(p)
    BY <1>2, <1>3, <2>2 DEF UpsertPolicy, At, Go, Answer, KindsAt, OpOK, Op
  <2>3. CASE WriteInbound(p)
    BY <1>2, <1>3, <2>3 DEF WriteInbound, At, Go, Answer, KindsAt, OpOK, Op
  <2>4. CASE WriteAccess(p)
    BY <1>2, <1>3, <2>4 DEF WriteAccess, At, Go, Answer, KindsAt, OpOK, Op
  <2>5. CASE AskUsage(p)
    BY <1>2, <1>3, <2>5 DEF AskUsage, At, Go, Answer, KindsAt, OpOK, Op
  <2>6. CASE GetPolicy(p)
    BY <1>2, <1>3, <2>6 DEF GetPolicy, At, Go, Answer, KindsAt, OpOK, Op
  <2>7. CASE DeletePolicy(p)
    BY <1>2, <1>3, <2>7 DEF DeletePolicy, At, Go, Answer, KindsAt, OpOK, Op
  <2>8. CASE Mark(p) BY <1>2, <2>8 DEF Mark, Answer, OpOK, Op
  <2>9. CASE RenderDocument(p) BY <1>2, <2>9 DEF RenderDocument, Answer, OpOK, Op
  <2>10. CASE ValidateInbounds(p)
    BY <1>2, <1>3, <2>10 DEF ValidateInbounds, At, KindsAt, OpOK, Op
  <2>11. CASE ValidateRules(p)
    BY <1>2, <1>3, <2>11 DEF ValidateRules, At, KindsAt, OpOK, Op
  <2>12. CASE ValidateOutbounds(p) BY <1>2, <2>12 DEF ValidateOutbounds, Answer, OpOK, Op
  <2>13. CASE ReadBack(p)
    BY <1>2, <1>3, <2>13 DEF ReadBack, At, Go, Answer, KindsAt, OpOK, Op
  <2>14. CASE CountFails(p) BY <1>2, <1>3, <2>14 DEF CountFails, At, KindsAt, OpOK, Op
  <2> QED BY <2>1, <2>2, <2>3, <2>4, <2>5, <2>6, <2>7, <2>8, <2>9, <2>10, <2>11, <2>12, <2>13,
             <2>14
          DEF Step
<1>6. op'[p] \in OpOK
  <2>1. op'[p] \in Op BY <1>1
  <2>2. op'[p].req \in Requests BY <1>1, <1>3
  <2> QED BY <2>1, <2>2, <1>5 DEF OpOK
<1>7. \A q \in Procs : op'[q] \in OpOK BY <1>1, <1>2, <1>6
<1> QED BY <1>1, <1>7

\* The tables keep their types and outbounds their tags.
LEMMA TablesStep ==
    ASSUME Typed, NEW p \in Procs, Step(p) \/ StatementFails(p)
    PROVE  /\ policies' \in [Policies -> PolicyRow \cup {None}]
           /\ born' \in [Policies -> Nat] /\ clock' \in Nat
           /\ inbounds' \in [Inbounds -> InboundRow] /\ access' \in [Users -> AccessRow]
<1>1. op[p].req \in Requests BY OneGoesOn, OpFacts DEF Typed
<1>2. CASE UpsertPolicy(p)
  <2>1. op[p].req.id \in Policies /\ op[p].req.row \in PolicyRow
    BY <1>1, <1>2, RequestFacts DEF UpsertPolicy
  <2> QED BY <1>2, <2>1 DEF UpsertPolicy, Typed, TypeOK
<1>3. CASE WriteInbound(p)
  <2>1. op[p].req.id \in Inbounds /\ op[p].req.row \in InboundRow
    BY <1>1, <1>3, RequestFacts DEF WriteInbound
  <2> QED BY <1>3, <2>1 DEF WriteInbound, Typed, TypeOK
<1>4. CASE WriteAccess(p)
  <2>1. op[p].req.id \in Users /\ op[p].req.client \in Policies \cup {None}
    BY <1>1, <1>4, RequestFacts DEF WriteAccess
  <2> QED BY <1>4, <2>1 DEF WriteAccess, Typed, TypeOK, AccessRow
<1>5. CASE DeletePolicy(p) BY <1>5 DEF DeletePolicy, Typed, TypeOK
<1>6. CASE UNCHANGED tables BY <1>6 DEF tables, Typed, TypeOK
<1> QED BY <1>2, <1>3, <1>4, <1>5, <1>6
        DEF Step, StatementFails, AskUsage, CountFails, ReadBack, GetPolicy, Mark, RenderDocument,
            ValidateInbounds, ValidateRules, ValidateOutbounds

LEMMA TagsStep ==
    ASSUME Typed, NEW p \in Procs, Step(p) \/ StatementFails(p),
           NEW s \in Servers, NEW x \in OfServer(s, "outbound")',
           NEW y \in OfServer(s, "outbound")', policies'[x].tag = policies'[y].tag
    PROVE  x = y
<1>1. /\ x \in Policies /\ y \in Policies /\ Kind[x] = "outbound" /\ Kind[y] = "outbound"
      /\ Home[x] = s /\ Home[y] = s /\ policies'[x] # None /\ policies'[y] # None
  BY DEF OfServer, Found, Stored
<1>2. policies \in [Policies -> PolicyRow \cup {None}] BY DEF Typed, TypeOK
<1>3. \A a, b \in OfServer(s, "outbound") : policies[a].tag = policies[b].tag => a = b
  BY DEF Typed, TypeOK
<1>4. CASE policies'[x] = policies[x] /\ policies'[y] = policies[y]
  <2>1. x \in OfServer(s, "outbound") /\ y \in OfServer(s, "outbound")
    BY <1>1, <1>4 DEF OfServer, Found, Stored
  <2> QED BY <1>3, <1>4, <2>1
<1>5. CASE UpsertPolicy(p) /\ policies' # policies
  <2>1. ~TagTaken(op[p].req.id, op[p].req.row)
    BY <1>5 DEF UpsertPolicy
  <2>2. policies' = [policies EXCEPT ![op[p].req.id] = op[p].req.row]
    BY <1>5 DEF UpsertPolicy
  <2> DEFINE id == op[p].req.id
             row == op[p].req.row
  <2>3. \A z \in Policies : z # id => policies'[z] = policies[z] BY <1>2, <2>2
  <2>4. policies'[id] = row \/ id \notin Policies BY <1>2, <2>2
  <2> SUFFICES ASSUME x # y PROVE FALSE OBVIOUS
  <2>5. PICK z \in {x, y} : z # id /\ policies'[z] = policies[z] /\ policies'[z].tag = row.tag
                              /\ Kind[id] = "outbound" /\ Home[id] = s
    BY <1>1, <1>4, <2>3, <2>4
  <2>6. z \in OfServer(Home[id], "outbound") BY <1>1, <2>5 DEF OfServer, Found, Stored
  <2> QED BY <2>1, <2>5, <2>6 DEF TagTaken
<1>6. CASE DeletePolicy(p)
  BY <1>1, <1>2, <1>4, <1>6 DEF DeletePolicy
<1>7. CASE UNCHANGED policies BY <1>4, <1>7
<1> QED BY <1>5, <1>6, <1>7
        DEF Step, StatementFails, WriteInbound, WriteAccess, ReadBack, AskUsage, CountFails,
            GetPolicy, Mark, RenderDocument, ValidateInbounds, ValidateRules, ValidateOutbounds, tables

LEMMA MarksStep ==
    ASSUME Typed, NEW p \in Procs, Step(p) \/ StatementFails(p)
    PROVE  /\ fresh' \in [Users -> (SUBSET Document) \cup {None}]
           /\ unmarked' \subseteq Users /\ valid' \subseteq Servers
           /\ begun' \in Nat /\ failures' \in Nat
<1>1. fresh \in [Users -> (SUBSET Document) \cup {None}] /\ unmarked \subseteq Users
      /\ valid \subseteq Servers /\ begun \in Nat /\ failures \in Nat
  BY DEF Typed, TypeOK
<1>2. op[p].req \in Requests /\ op[p].req.kind \in KindsAt[op[p].pc]
  BY OneGoesOn, OpFacts DEF Typed
<1>3. CASE RenderDocument(p)
  <2>1. op[p].req.id \in Users
    <3>1. op[p].req.kind = "document" BY <1>2, <1>3 DEF RenderDocument, At, KindsAt
    <3> QED BY <1>2, <3>1, RequestFacts
  <2>2. DocumentOf(op[p].req.id) \in SUBSET Document
    BY <2>1, DocumentTyped DEF Typed, TypeOK
  <2> QED BY <1>1, <1>3, <2>1, <2>2 DEF RenderDocument
<1>4. CASE Mark(p) BY <1>1, <1>4 DEF Mark
<1>5. CASE StatementFails(p) BY <1>1, <1>5, UsersPending DEF StatementFails
<1>6. CASE ValidateOutbounds(p)
  <2>1. op[p].req.id \in Servers
    <3>1. op[p].req.kind = "validate" BY <1>2, <1>6 DEF ValidateOutbounds, At, KindsAt
    <3> QED BY <1>2, <3>1, RequestFacts
  <2> QED BY <1>1, <1>6, <2>1 DEF ValidateOutbounds
<1>7. CASE UpsertPolicy(p) BY <1>1, <1>7 DEF UpsertPolicy
<1>8. CASE DeletePolicy(p) BY <1>1, <1>8 DEF DeletePolicy
<1>9. CASE WriteInbound(p) \/ WriteAccess(p) BY <1>1, <1>9 DEF WriteInbound, WriteAccess
<1>10. CASE AskUsage(p) \/ GetPolicy(p) \/ ValidateInbounds(p) \/ ValidateRules(p)
  BY <1>1, <1>10 DEF AskUsage, GetPolicy, ValidateInbounds, ValidateRules
<1>11. CASE CountFails(p) BY <1>1, <1>11 DEF CountFails
<1>12. CASE ReadBack(p) BY <1>1, <1>12 DEF ReadBack
<1> QED BY <1>3, <1>4, <1>5, <1>6, <1>7, <1>8, <1>9, <1>10, <1>11, <1>12 DEF Step

\* What a new request does to the others.
LEMMA BeginFacts ==
    ASSUME Typed, NEW p \in Procs, NEW r \in Requests, Begin(p, r)
    PROVE  /\ op' \in [Procs -> OpOK]
           /\ op'[p].req = r /\ op'[p].pc \in {"write", "get", "usage", "inbounds", "document"}
           /\ op'[p].alone => \A q \in Procs : Free(q)
           /\ \A q \in Procs \ {p} :
                 \/ Free(q) /\ op'[q] = NoOp
                 \/ /\ ~Free(q) /\ ~op'[q].alone
                    /\ op'[q].pc = op[q].pc /\ op'[q].req = op[q].req
                    /\ op'[q].server = op[q].server
<1> DEFINE new == [NoOp EXCEPT !.req = r, !.pc = FirstPc[r.kind],
                               !.alone = \A x \in Procs : Free(x)]
<1>1. r.kind \in {"upsert", "delete", "remove", "inbound", "access", "validate", "document"}
  BY RequestFacts
<1>2. new \in Op /\ new.req = r /\ new.pc = FirstPc[r.kind]
      /\ new.alone = (\A x \in Procs : Free(x))
  <2>1. FirstPc[r.kind] \in Pcs BY <1>1 DEF FirstPc, Pcs
  <2>2. (\A x \in Procs : Free(x)) \in BOOLEAN OBVIOUS
  <2> QED BY <2>1, <2>2 DEF NoOp, Op, Pcs
<1>3. FirstPc[r.kind] \in {"write", "get", "usage", "inbounds", "document"}
      /\ r.kind \in KindsAt[FirstPc[r.kind]]
  BY <1>1 DEF FirstPc, KindsAt
<1>4. new \in OpOK BY <1>2, <1>3 DEF OpOK
<1> HIDE DEF new
<1>5. op' = [q \in Procs |-> IF q = p THEN new
                            ELSE IF Free(q) THEN NoOp ELSE [op[q] EXCEPT !.alone = FALSE]]
  BY DEF Begin, new
<1>6. \A q \in Procs : ~Free(q) =>
          LET o == [op[q] EXCEPT !.alone = FALSE] IN
          o \in OpOK /\ ~o.alone /\ o.pc = op[q].pc /\ o.req = op[q].req /\ o.server = op[q].server
  <2>1. op \in [Procs -> OpOK] BY DEF Typed
  <2> QED BY <2>1 DEF OpOK, Op
<1>7. \A q \in Procs : op'[q] \in OpOK BY <1>4, <1>5, <1>6, NoOpOK
<1> QED BY <1>2, <1>3, <1>5, <1>6, <1>7

LEMMA TypedStep == ASSUME Typed, [Next]_vars PROVE Typed'
<1>1. ASSUME NEW p \in Procs, Step(p) \/ StatementFails(p) PROVE Typed'
  <2>1. op' \in [Procs -> OpOK] BY <1>1, PlacesStep
  <2>2. op' \in [Procs -> Op] BY <2>1 DEF OpOK
  <2> QED BY <1>1, <2>1, <2>2, TablesStep, TagsStep, MarksStep DEF Typed, TypeOK
<1>2. ASSUME UNCHANGED tables PROVE
         \A s \in Servers : \A x, y \in OfServer(s, "outbound")' :
             policies'[x].tag = policies'[y].tag => x = y
  BY <1>2 DEF tables, Typed, TypeOK, OfServer, Found, Stored
<1>3. ASSUME NEW p \in Procs, NEW r \in Requests, Begin(p, r) PROVE Typed'
  <2>1. op' \in [Procs -> OpOK] BY <1>3, BeginFacts
  <2>2. op' \in [Procs -> Op] BY <2>1 DEF OpOK
  <2>3. UNCHANGED tables BY <1>3 DEF Begin
  <2>4. UNCHANGED <<fresh, valid, unmarked, failures>> /\ begun' = begun + 1
    BY <1>3 DEF Begin
  <2> QED BY <1>2, <2>1, <2>2, <2>3, <2>4 DEF tables, Typed, TypeOK
<1>4. CASE Crash
  <2>1. op' \in [Procs -> OpOK] BY <1>4, NoOpOK DEF Crash
  <2>2. op' \in [Procs -> Op] BY <2>1 DEF OpOK
  <2>3. UNCHANGED tables BY <1>4 DEF Crash
  <2>4. unmarked' \subseteq Users BY <1>4, UsersPending DEF Crash, Marking, Typed, TypeOK
  <2> QED BY <1>2, <1>4, <2>1, <2>2, <2>3, <2>4 DEF Crash, tables, Typed, TypeOK
<1>5. CASE UNCHANGED vars
  <2>1. UNCHANGED tables BY <1>5 DEF vars
  <2> QED BY <1>2, <1>5, <2>1 DEF vars, tables, Typed, TypeOK
<1> QED BY <1>1, <1>3, <1>4, <1>5, NextSteps

\* The tables, the tags of outbounds, the documents and the requests keep their types
\* (store.go: the policy tables and UNIQUE(server_id, tag) of core_outbounds).
THEOREM TypeCorrect == Spec => []TypeOK
<1>1. Init => Typed BY InitTyped
<1>2. Typed /\ [Next]_vars => Typed' BY TypedStep
<1>3. Typed => TypeOK BY DEF Typed
<1> QED BY <1>1, <1>2, <1>3, PTL DEF Spec

LEMMA AloneStep == ASSUME Typed, Alone, [Next]_vars PROVE Alone'
<1>1. ASSUME NEW p \in Procs, Step(p) \/ StatementFails(p) PROVE Alone'
  <2>1. ~Free(p) /\ op'[p].alone = op[p].alone /\ \A q \in Procs \ {p} : op'[q] = op[q]
    BY <1>1, OneGoesOn
  <2> QED BY <2>1 DEF Alone, Free
<1>2. ASSUME NEW p \in Procs, NEW r \in Requests, Begin(p, r) PROVE Alone'
  <2>1. NoOp.pc = "idle" BY DEF NoOp
  <2> QED BY <1>2, <2>1, BeginFacts DEF Alone, Free
<1>3. CASE Crash BY <1>3 DEF Crash, Alone, Free, NoOp
<1>4. CASE UNCHANGED vars BY <1>4 DEF vars, Alone, Free
<1> QED BY <1>1, <1>2, <1>3, <1>4, NextSteps

-----------------------------------------------------------------------------
(***************************************************************************)
(* The marks of documents.                                                 *)
(***************************************************************************)
\* Who is to be marked depends on the place, the request and the server read back.
LEMMA PendingOf ==
    ASSUME NEW a, NEW b, a.pc = b.pc, a.req = b.req, a.server = b.server
    PROVE  Pending(a) = Pending(b)
BY DEF Pending, Reached

\* A user whose inbound and access stay is to be marked by the same requests, if the
\* policies they have written are still there.
LEMMA SamePending ==
    ASSUME NEW u \in Users, NEW q \in Procs, op'[q] = op[q],
           access'[u] = access[u],
           inbounds'[access[u].inbound] = inbounds[access[u].inbound],
           op[q].req.kind = "upsert" /\ op[q].pc = "back" /\ Stored(op[q].req.id)
               => Stored(op[q].req.id)',
           u \in Pending(op[q])
    PROVE  u \in Marking'
<1>1. \A s : u \in UsersOn(s)' <=> u \in UsersOn(s) BY DEF UsersOn
<1>2. \A id : u \in UsersOf(id)' <=> u \in UsersOf(id) BY DEF UsersOf
<1>3. u \in Reached(op[q])' <=> u \in Reached(op[q]) BY <1>1, <1>2 DEF Reached
<1>4. u \in Pending(op[q])' BY <1>3 DEF Pending
<1> QED BY <1>4 DEF Marking

\* Only a request that has written is to mark.
LEMMA NotPending ==
    ASSUME NEW o, o.pc \notin {"back", "mark"}
    PROVE  Pending(o) = {}
BY DEF Pending

\* The documents of a user stay when the rows they are made from do.
LEMMA SameDocument ==
    ASSUME Typed, NEW u \in Users, access'[u] = access[u],
           inbounds'[access[u].inbound] = inbounds[access[u].inbound],
           \A k \in SettingKinds, x \in Policies :
               inbounds[access[u].inbound].refs[k] = x /\ Kind[x] = k => policies'[x] = policies[x],
           \A x \in Policies : access[u].client = x /\ Kind[x] = "client" => policies'[x] = policies[x]
    PROVE  DocumentOf(u)' = DocumentOf(u)
<1> DEFINE i == access[u].inbound
           c == access[u].client
<1>1. i \in Inbounds /\ c \in Policies \cup {None} BY DEF Typed, TypeOK, AccessRow
<1>2. \A k \in SettingKinds : inbounds[i].refs[k] \in Policies \cup {None}
  BY <1>1 DEF Typed, TypeOK, InboundRow
<1>3. \A k, x : (x \in Policies /\ policies'[x] = policies[x]) \/ x = None \/ Kind[x] # k
                  => /\ Found(k, x)' = Found(k, x)
                     /\ ValueOf(k, x)' = ValueOf(k, x)
  BY DEF Found, ValueOf, Stored
<1>4. Found("client", c)' = Found("client", c) /\ ValueOf("client", c)' = ValueOf("client", c)
  BY <1>1, <1>3
<1>5. \A k \in SettingKinds : Resolved(i)'[k] = Resolved(i)[k]
  <2> SUFFICES ASSUME NEW k \in SettingKinds PROVE Resolved(i)'[k] = Resolved(i)[k] OBVIOUS
  <2> DEFINE x == inbounds[i].refs[k]
  <2>1. x \in Policies \cup {None} BY <1>2
  <2>2. ValueOf(k, x)' = ValueOf(k, x) BY <1>3, <2>1
  <2>3. Resolved(i)[k] = ValueOf(k, x) BY DEF Resolved
  <2>4. Resolved(i)'[k] = ValueOf(k, x)' BY DEF Resolved
  <2> QED BY <2>2, <2>3, <2>4
<1> QED BY <1>4, <1>5 DEF DocumentOf

\* What a step must leave: the excused users stay so, unless their documents are
\* dirty or fresh, and those of others and what they depend on do not change.
LEMMA OthersStay ==
    ASSUME Typed, MarkedWhenChanged,
           \A u \in Users :
              u \notin (Marking \cup unmarked)' /\ fresh'[u] # None /\ Local(u)' =>
                  \/ fresh'[u] = DocumentOf(u)'
                  \/ /\ u \notin Marking \cup unmarked /\ fresh'[u] = fresh[u]
                     /\ DocumentOf(u)' = DocumentOf(u) /\ Local(u)
    PROVE  MarkedWhenChanged'
BY DEF MarkedWhenChanged

LEMMA MarkedUpsert ==
    ASSUME Typed, MarkedWhenChanged, NEW p \in Procs, UpsertPolicy(p) \/ DeletePolicy(p)
    PROVE  MarkedWhenChanged'
<1> SUFFICES ASSUME NEW u \in Users, u \notin (Marking \cup unmarked)', Local(u)'
             PROVE  /\ u \notin Marking \cup unmarked /\ fresh'[u] = fresh[u]
                    /\ DocumentOf(u)' = DocumentOf(u) /\ Local(u)
  BY OthersStay
<1> DEFINE id == op[p].req.id
<1>1. UNCHANGED <<inbounds, access, fresh, unmarked>> BY DEF UpsertPolicy, DeletePolicy
<1>2. /\ ~Free(p) /\ op'[p].req = op[p].req /\ \A q \in Procs \ {p} : op'[q] = op[q]
      /\ op[p].pc \in {"write", "delete"}
  BY OneGoesOn DEF Step, UpsertPolicy, DeletePolicy, At
<1>3. Local(u) BY <1>1 DEF Local
<1>4. /\ op[p].req \in Requests /\ op[p].req.kind \in {"upsert", "delete", "remove"}
      /\ id \in Policies
  <2>1. op[p].req \in Requests /\ op[p].req.kind \in {"upsert", "delete", "remove"}
    BY <1>2, OpFacts DEF Typed, UpsertPolicy, DeletePolicy, At, KindsAt
  <2> QED BY <2>1, RequestFacts
<1>5. policies \in [Policies -> PolicyRow \cup {None}] /\ op \in [Procs -> OpOK]
  BY DEF Typed, TypeOK
<1>6. \A s : UsersOn(s)' = UsersOn(s) BY <1>1 DEF UsersOn
<1>7. \A x : UsersOf(x)' = UsersOf(x) BY <1>1 DEF UsersOf
<1>8. ASSUME policies' # policies PROVE u \notin Reached(op[p])
  <2>1. CASE UpsertPolicy(p)
    <3>1. op'[p].pc = "back" /\ policies' = [policies EXCEPT ![id] = op[p].req.row]
      BY <1>5, <1>8, <2>1 DEF UpsertPolicy, Go, OpOK, Op
    <3>2. op[p].req.kind = "upsert" /\ op[p].req.row \in PolicyRow
      BY <1>4, <2>1, RequestFacts DEF UpsertPolicy
    <3>3. policies'[id] # None BY <1>4, <1>5, <3>1, <3>2, PoliciesAssumption
    <3>4. Pending(op[p])' = Reached(op[p])'
      BY <1>2, <3>1, <3>2, <3>3 DEF Pending, Stored
    <3>5. Reached(op[p])' = Reached(op[p]) BY <1>2, <1>6, <1>7, <3>2 DEF Reached
    <3> QED BY <3>4, <3>5 DEF Marking
  <2>2. CASE DeletePolicy(p)
    <3>1. op'[p].pc = "mark" /\ op[p].req.kind \in {"delete", "remove"}
      BY <1>2, <1>4, <1>5, <1>8, <2>2, OpFacts DEF DeletePolicy, Go, OpOK, Op, At, KindsAt
    <3>2. Pending(op[p])' = Reached(op[p])' BY <3>1 DEF Pending
    <3>3. Reached(op[p])' = Reached(op[p]) BY <1>2, <1>6, <3>1 DEF Reached
    <3> QED BY <3>2, <3>3 DEF Marking
  <2> QED BY <2>1, <2>2
<1>9. u \notin Marking
  <2> SUFFICES ASSUME NEW q \in Procs, u \in Pending(op[q]) PROVE FALSE BY DEF Marking
  <2>1. q # p /\ op'[q] = op[q] BY <1>2, NotPending
  <2>2. CASE op[q].req.kind = "upsert" /\ op[q].pc = "back" /\ Stored(op[q].req.id)
               /\ ~Stored(op[q].req.id)'
    <3>1. op[q].req \in Requests BY <2>2, OpFacts DEF Typed, Free
    <3>2. op[q].req.id \in Policies BY <2>2, <3>1, RequestFacts
    <3>3. DeletePolicy(p) /\ op[q].req.id = id
      <4>1. policies'[op[q].req.id] = None /\ policies[op[q].req.id] # None
        BY <2>1, <2>2 DEF Stored
      <4>2. CASE UpsertPolicy(p)
        <5>1. policies' = [policies EXCEPT ![id] = op[p].req.row] BY <4>1, <4>2 DEF UpsertPolicy
        <5>2. op[p].req.row \in PolicyRow BY <1>4, <4>2, RequestFacts DEF UpsertPolicy
        <5> QED BY <1>5, <3>2, <4>1, <5>1, <5>2, PoliciesAssumption
      <4>3. CASE DeletePolicy(p) BY <1>5, <3>2, <4>1, <4>3 DEF DeletePolicy
      <4> QED BY <4>2, <4>3
    <3>4. op[p].req.kind \in {"delete", "remove"}
      BY <1>2, <3>3, OpFacts DEF Typed, DeletePolicy, At, KindsAt
    <3>5. u \notin UsersOn(Home[id])
      <4>1. policies' # policies BY <2>1, <2>2 DEF Stored
      <4> QED BY <1>8, <3>4, <4>1 DEF Reached
    <3>6. u \in Reached(op[q]) BY <2>2 DEF Pending
    <3>7. Kind[id] = "client" /\ u \in UsersOf(id) BY <2>2, <3>3, <3>5, <3>6 DEF Reached
    <3>8. access[u].client = id BY <3>7 DEF UsersOf, SettingKinds
    <3>9. Home[id] = inbounds[access[u].inbound].server
      BY <1>3, <1>4, <3>8, PoliciesAssumption DEF Local
    <3> QED BY <3>5, <3>9 DEF UsersOn
  <2>3. CASE ~(op[q].req.kind = "upsert" /\ op[q].pc = "back" /\ Stored(op[q].req.id)
               /\ ~Stored(op[q].req.id)')
    BY <1>1, <2>1, <2>3, SamePending
  <2> QED BY <2>2, <2>3
<1>10. CASE policies' = policies
  BY <1>1, <1>3, <1>9, <1>10, SameDocument
<1>11. CASE policies' # policies
  <2>1. u \notin Reached(op[p]) BY <1>8, <1>11
  <2>2. \A x \in Policies : x # id => policies'[x] = policies[x]
    BY <1>5, <1>11 DEF UpsertPolicy, DeletePolicy
  <2>3. (Kind[id] = "client" /\ op[p].req.kind = "upsert") \/ u \notin UsersOn(Home[id])
    BY <1>4, <2>1 DEF Reached
  <2>4. ASSUME Kind[id] = "client", op[p].req.kind = "upsert" PROVE access[u].client # id
    <3>1. u \notin UsersOf(id) BY <2>1, <2>4 DEF Reached
    <3> QED BY <2>4, <3>1 DEF UsersOf, SettingKinds
  <2>5. ASSUME u \notin UsersOn(Home[id])
        PROVE  /\ access[u].client # id
               /\ \A k \in SettingKinds : inbounds[access[u].inbound].refs[k] # id
    <3>1. inbounds[access[u].inbound].server # Home[id] BY <2>5 DEF UsersOn
    <3>2. id # None BY <1>4, PoliciesAssumption
    <3> QED BY <1>3, <3>1, <3>2 DEF Local
  <2>6. \A k \in SettingKinds, x \in Policies :
           inbounds[access[u].inbound].refs[k] = x /\ Kind[x] = k => policies'[x] = policies[x]
    BY <2>2, <2>3, <2>5 DEF SettingKinds
  <2>7. \A x \in Policies :
           access[u].client = x /\ Kind[x] = "client" => policies'[x] = policies[x]
    BY <2>2, <2>3, <2>4, <2>5
  <2>8. DocumentOf(u)' = DocumentOf(u) BY <1>1, <2>6, <2>7, SameDocument
  <2> QED BY <1>1, <1>3, <1>9, <2>8
<1> QED BY <1>10, <1>11

LEMMA MarkedWrite ==
    ASSUME Typed, MarkedWhenChanged, NEW p \in Procs, WriteInbound(p) \/ WriteAccess(p)
    PROVE  MarkedWhenChanged'
<1> SUFFICES ASSUME NEW u \in Users, u \notin (Marking \cup unmarked)', Local(u)'
             PROVE  /\ u \notin Marking \cup unmarked /\ fresh'[u] = fresh[u]
                    /\ DocumentOf(u)' = DocumentOf(u) /\ Local(u)
  BY OthersStay
<1>1. UNCHANGED <<policies, fresh, unmarked>> BY DEF WriteInbound, WriteAccess
<1>2. /\ ~Free(p) /\ op'[p].req = op[p].req /\ \A q \in Procs \ {p} : op'[q] = op[q]
      /\ op[p].pc = "write"
  BY OneGoesOn DEF Step, WriteInbound, WriteAccess, At
<1>3. op'[p].pc = "back" BY DEF WriteInbound, WriteAccess, Go, Typed, OpOK, Op
<1>4. u \notin Pending(op[p])' BY DEF Marking
<1>5. op[p].req \in Requests BY <1>2, OpFacts DEF Typed, Free
<1>6. access[u].inbound \in Inbounds BY DEF Typed, TypeOK, AccessRow
<1>7. access'[u] = access[u] /\ inbounds'[access[u].inbound] = inbounds[access[u].inbound]
  <2>1. CASE WriteAccess(p)
    <3>1. op[p].req.kind = "access" BY <2>1 DEF WriteAccess
    <3>2. u # op[p].req.id BY <1>2, <1>3, <1>4, <3>1 DEF Pending
    <3> QED BY <2>1, <3>2 DEF WriteAccess, Typed, TypeOK
  <2>2. CASE WriteInbound(p)
    <3>1. op[p].req.kind = "inbound" /\ access' = access BY <2>2 DEF WriteInbound
    <3>2. access[u].inbound # op[p].req.id BY <1>2, <1>3, <1>4, <3>1 DEF Pending
    <3> QED BY <1>6, <2>2, <3>1, <3>2 DEF WriteInbound, Typed, TypeOK
  <2> QED BY <2>1, <2>2
<1>8. Local(u) BY <1>7 DEF Local
<1>9. u \notin Marking
  <2> SUFFICES ASSUME NEW q \in Procs, u \in Pending(op[q]) PROVE FALSE BY DEF Marking
  <2>1. q # p /\ op'[q] = op[q] BY <1>2, NotPending
  <2> QED BY <1>1, <1>7, <2>1, SamePending DEF Stored
<1> QED BY <1>1, <1>7, <1>8, <1>9, SameDocument

\* Steps that leave the tables alone.
LEMMA MarkedQuiet ==
    ASSUME Typed, MarkedWhenChanged, UNCHANGED tables,
           \A u \in Users : fresh'[u] \in {None, fresh[u], DocumentOf(u)},
           \A u \in Users :
               fresh'[u] = fresh[u] /\ fresh'[u] # DocumentOf(u) /\ fresh'[u] # None
                   /\ u \in Marking \cup unmarked => u \in (Marking \cup unmarked)'
    PROVE  MarkedWhenChanged'
<1>1. \A u : DocumentOf(u)' = DocumentOf(u) /\ Local(u)' = Local(u) BY SameTables
<1> SUFFICES ASSUME NEW u \in Users, u \notin (Marking \cup unmarked)', fresh'[u] # None, Local(u)',
                    fresh'[u] # DocumentOf(u)'
             PROVE  /\ u \notin Marking \cup unmarked /\ fresh'[u] = fresh[u]
                    /\ DocumentOf(u)' = DocumentOf(u) /\ Local(u)
  BY OthersStay
<1>2. fresh'[u] # DocumentOf(u) BY <1>1
<1>3. fresh'[u] = fresh[u] BY <1>2
<1> QED BY <1>1, <1>2, <1>3

\* A request that is about to mark still is.
LEMMA MarkingStays ==
    ASSUME UNCHANGED tables, NEW u \in Users, NEW q \in Procs, u \in Pending(op[q]),
           op'[q].pc = op[q].pc, op'[q].req = op[q].req, op'[q].server = op[q].server
    PROVE  u \in Marking'
<1>1. \A s : UsersOn(s)' = UsersOn(s) /\ \A id : UsersOf(id)' = UsersOf(id) BY SameTables
<1>2. Pending(op[q])' = Pending(op'[q])
  BY <1>1 DEF Pending, Reached, Stored, tables
<1>3. Pending(op'[q]) = Pending(op[q]) BY PendingOf
<1> QED BY <1>2, <1>3 DEF Marking

\* The re-read finds the row and its server, unless the row was deleted.
LEMMA ReadBackStays ==
    ASSUME Typed, NEW p \in Procs, ReadBack(p), NEW u \in Users, u \in Pending(op[p])
    PROVE  u \in Marking'
<1>1. op[p].pc = "back" /\ UNCHANGED tables BY DEF ReadBack, At
<1>2. op[p] \in Op /\ op \in [Procs -> OpOK] BY DEF Typed, OpOK
<1>3. op[p].req.kind \in {"upsert", "inbound", "access"}
  BY <1>1, <1>2, OpFacts DEF Free, KindsAt
<1>4. op'[p].pc = "mark" /\ op'[p].req = op[p].req
      /\ (op[p].req.kind = "inbound" => op'[p].server = inbounds[op[p].req.id].server)
  BY <1>1, <1>2, <1>3 DEF ReadBack, Pending, Go, Answer, Op
<1>5. \A s : UsersOn(s)' = UsersOn(s) /\ \A id : UsersOf(id)' = UsersOf(id)
  BY <1>1, SameTables
<1>6. u \in Reached(op[p])'
  <2>1. CASE op[p].req.kind = "inbound"
    <3>1. access[u].inbound = op[p].req.id BY <1>1, <2>1 DEF Pending
    <3>2. u \in UsersOn(op'[p].server) BY <1>4, <2>1, <3>1 DEF UsersOn
    <3> QED BY <1>4, <1>5, <2>1, <3>2 DEF Reached
  <2>2. CASE op[p].req.kind = "access"
    <3>1. u = op[p].req.id BY <1>1, <2>2 DEF Pending
    <3> QED BY <1>4, <2>2, <3>1 DEF Reached
  <2>3. CASE op[p].req.kind = "upsert"
    <3>1. u \in Reached(op[p]) BY <1>1, <2>3 DEF Pending
    <3> QED BY <1>4, <1>5, <2>3, <3>1 DEF Reached
  <2> QED BY <1>3, <2>1, <2>2, <2>3
<1> QED BY <1>4, <1>6 DEF Marking, Pending

LEMMA MarkedStep == ASSUME Typed, MarkedWhenChanged, [Next]_vars PROVE MarkedWhenChanged'
<1> USE DEF At
<1>1. ASSUME NEW p \in Procs, NEW r \in Requests, Begin(p, r) PROVE MarkedWhenChanged'
  <2>1. UNCHANGED tables /\ UNCHANGED <<fresh, unmarked>> BY <1>1, ZenonT(60) DEF Begin
  <2>2. ASSUME NEW u \in Users, u \in Marking PROVE u \in Marking'
    <3>1. PICK q \in Procs : u \in Pending(op[q]) BY <2>2 DEF Marking
    <3>2. op[q].pc \in {"back", "mark"} BY <3>1, NotPending
    <3>3. q # p BY <1>1, <3>2 DEF Begin, Free
    <3>4. ~Free(q) BY <3>2 DEF Free
    <3>5. op'[q].pc = op[q].pc /\ op'[q].req = op[q].req /\ op'[q].server = op[q].server
      BY <1>1, <3>3, <3>4, BeginFacts
    <3> QED BY <2>1, <3>1, <3>5, MarkingStays
  <2> QED BY <2>1, <2>2, MarkedQuiet
<1>2. CASE Crash
  <2>1. UNCHANGED tables /\ fresh' = fresh /\ unmarked' = unmarked \cup Marking
    BY <1>2 DEF Crash
  <2> QED BY <2>1, MarkedQuiet
<1>3. CASE UNCHANGED vars
  <2>1. UNCHANGED tables /\ UNCHANGED <<fresh, unmarked, op>> BY <1>3 DEF vars
  <2>2. \A u \in Users : u \in Marking => u \in Marking' BY <2>1, MarkingStays DEF Marking
  <2> QED BY <2>1, <2>2, MarkedQuiet
<1>4. ASSUME NEW p \in Procs, Step(p) \/ StatementFails(p) PROVE MarkedWhenChanged'
  <2>1. \A q \in Procs \ {p} : op'[q] = op[q] BY <1>4, OneGoesOn
  <2>2. ASSUME UNCHANGED tables, NEW u \in Users, u \in Marking
        PROVE  u \in Marking' \/ u \in Pending(op[p])
    <3>1. PICK q \in Procs : u \in Pending(op[q]) BY <2>2 DEF Marking
    <3>2. CASE q = p BY <3>1, <3>2
    <3>3. CASE q # p
      <4>1. op'[q] = op[q] BY <2>1, <3>3
      <4> QED BY <2>2, <3>1, <4>1, MarkingStays
    <3> QED BY <3>2, <3>3
  <2>3. CASE Mark(p)
    <3>1. UNCHANGED tables /\ unmarked' = unmarked BY <2>3 DEF Mark
    <3>2. \A u \in Users : fresh'[u] = IF u \in Pending(op[p]) THEN None ELSE fresh[u]
      BY <2>3 DEF Mark, Pending
    <3> QED BY <2>2, <3>1, <3>2, MarkedQuiet
  <2>4. CASE RenderDocument(p)
    <3>1. UNCHANGED tables /\ unmarked' = unmarked \ {op[p].req.id} /\ Pending(op[p]) = {}
      BY <2>4, NotPending DEF RenderDocument
    <3>2. \A u \in Users : fresh'[u] = IF u = op[p].req.id THEN DocumentOf(u) ELSE fresh[u]
      BY <2>4 DEF RenderDocument, Typed, TypeOK
    <3> QED BY <2>2, <3>1, <3>2, MarkedQuiet
  <2>5. CASE StatementFails(p)
    <3>1. /\ UNCHANGED tables /\ fresh' = fresh /\ unmarked' = unmarked \cup Pending(op[p])
      BY <2>5 DEF StatementFails
    <3> QED BY <2>2, <3>1, MarkedQuiet
  <2>6. CASE ReadBack(p)
    <3>1. UNCHANGED tables /\ UNCHANGED <<fresh, unmarked>> BY <2>6 DEF ReadBack
    <3> QED BY <2>2, <2>6, <3>1, ReadBackStays, MarkedQuiet
  <2>7. CASE AskUsage(p) \/ CountFails(p) \/ GetPolicy(p) \/ ValidateInbounds(p)
             \/ ValidateRules(p) \/ ValidateOutbounds(p)
    <3>1. UNCHANGED tables /\ UNCHANGED <<fresh, unmarked>> /\ Pending(op[p]) = {}
      BY <2>7, NotPending
         DEF AskUsage, CountFails, GetPolicy, ValidateInbounds, ValidateRules, ValidateOutbounds
    <3> QED BY <2>2, <3>1, MarkedQuiet
  <2> QED BY <1>4, <2>3, <2>4, <2>5, <2>6, <2>7, MarkedUpsert, MarkedWrite DEF Step
<1> QED BY <1>1, <1>2, <1>3, <1>4, NextSteps

\* A user whose documents are out of date is marked dirty, is about to be, or lost the
\* mark to a failure, whatever requests run together (service_profiles.go: each write is
\* followed by the mark of those it concerns).
THEOREM MarkedWhenChangedAlways == Spec => []MarkedWhenChanged
<1>1. Init => Typed /\ MarkedWhenChanged
  BY InitTyped DEF Init, MarkedWhenChanged
<1>2. Typed /\ MarkedWhenChanged /\ [Next]_vars => Typed' /\ MarkedWhenChanged'
  BY TypedStep, MarkedStep
<1> QED BY <1>1, <1>2, PTL DEF Spec

-----------------------------------------------------------------------------
(***************************************************************************)
(* What was read is still so.                                              *)
(***************************************************************************)
LEMMA InitReads == ASSUME Init PROVE Alone /\ Reads
<1>1. \A p \in Procs : op[p] = NoOp /\ NoOp.pc = "idle" BY DEF Init, NoOp
<1> QED BY <1>1 DEF Init, Alone, Reads, AsRead, StillValid, Free

LEMMA ReadsQuiet ==
    ASSUME Reads, UNCHANGED tables, valid' \subseteq valid,
           \A q \in Procs : AsRead(op'[q]) \/ op'[q] = op[q]
    PROVE  Reads'
<1>1. StillValid' BY SameTables DEF StillValid, Reads
<1>2. ASSUME NEW q \in Procs PROVE AsRead(op[q])'
  BY SameTables DEF Reads, AsRead
<1> QED BY <1>1, <1>2 DEF Reads

\* A write ends what others may rely on: none of them runs alone.
LEMMA ReadsWrite ==
    ASSUME Typed, Alone, Reads, NEW p \in Procs, Step(p), valid' = {},
           op'[p].pc \in {"back", "mark", "done"}
    PROVE  Reads'
<1>1. ~Free(p) /\ \A q \in Procs \ {p} : op'[q] = op[q] BY OneGoesOn
<1>2. ASSUME NEW q \in Procs PROVE AsRead(op[q])'
  <2>1. CASE q = p BY <2>1 DEF AsRead
  <2>2. CASE q # p
    <3>1. op'[q] = op[q] BY <1>1, <2>2
    <3>2. ~op[q].alone \/ Free(q) BY <1>1, <2>2 DEF Alone
    <3> QED BY <3>1, <3>2 DEF AsRead, Free
  <2> QED BY <2>1, <2>2
<1>3. StillValid' BY DEF StillValid
<1> QED BY <1>2, <1>3 DEF Reads

\* What a validation that ran alone found valid is valid.
LEMMA FoundValid ==
    ASSUME Typed, Reads, NEW p \in Procs, ValidateOutbounds(p)
    PROVE  Reads'
<1>1. UNCHANGED tables BY DEF ValidateOutbounds
<1>2. ~Free(p) /\ \A q \in Procs \ {p} : op'[q] = op[q] BY OneGoesOn DEF Step
<1>3. op'[p].pc = "done" BY DEF ValidateOutbounds, Answer, Typed, OpOK, Op
<1>4. \A q \in Procs : AsRead(op'[q]) \/ op'[q] = op[q] BY <1>2, <1>3 DEF AsRead
<1>5. CASE valid' = valid BY <1>1, <1>4, <1>5, ReadsQuiet
<1>6. CASE valid' # valid
  <2> DEFINE s == op[p].req.id
  <2>1. /\ ~op[p].errors /\ op[p].rules \subseteq Known(s) /\ op[p].alone
        /\ op[p].pc = "outbounds" /\ valid' = valid \cup {s}
    BY <1>6 DEF ValidateOutbounds, At
  <2>2. s \in Servers
    <3>1. op[p].req \in Requests /\ op[p].req.kind = "validate"
      BY <1>2, <2>1, OpFacts DEF Typed, KindsAt
    <3> QED BY <3>1, RequestFacts
  <2>3. ~Missing(s) /\ TagsOf(Enabled(s, "rule")) \subseteq Known(s)
    <3>1. AsRead(op[p]) BY DEF Reads
    <3> QED BY <2>1, <2>2, <3>1 DEF AsRead
  <2>4. \A x \in valid' : ~Missing(x) /\ TagsOf(Enabled(x, "rule")) \subseteq Known(x)
    BY <2>1, <2>3 DEF Reads, StillValid
  <2>5. StillValid' BY <1>1, <2>4, SameTables DEF StillValid
  <2>6. ASSUME NEW q \in Procs PROVE AsRead(op[q])'
    BY <1>1, <1>4, SameTables DEF Reads, AsRead
  <2> QED BY <2>5, <2>6 DEF Reads
<1> QED BY <1>5, <1>6

LEMMA ReadsStep == ASSUME Typed, Alone, Reads, [Next]_vars PROVE Reads'
<1>1. ASSUME NEW p \in Procs, NEW r \in Requests, Begin(p, r) PROVE Reads'
  <2>1. UNCHANGED tables /\ valid' = valid BY <1>1 DEF Begin
  <2>2. op'[p].pc \notin {"get", "delete", "rules", "outbounds"}
           \/ (op'[p].pc = "get" /\ op'[p].req.kind = "delete")
    <3>1. op'[p].pc = FirstPc[r.kind] /\ op'[p].req = r
      BY <1>1, NoOpOK DEF Begin, NoOp
    <3> QED BY <3>1, RequestFacts DEF FirstPc
  <2>3. AsRead(op'[p]) BY <2>2 DEF AsRead
  <2>4. \A q \in Procs \ {p} : AsRead(op'[q])
    <3>1. NoOp.pc = "idle" BY DEF NoOp
    <3> QED BY <1>1, <3>1, BeginFacts DEF AsRead
  <2> QED BY <2>1, <2>3, <2>4, ReadsQuiet
<1>2. CASE Crash
  <2>1. UNCHANGED tables /\ valid' = valid BY <1>2 DEF Crash
  <2>2. \A q \in Procs : op'[q].pc = "idle" BY <1>2 DEF Crash, NoOp
  <2>3. \A q \in Procs : AsRead(op'[q]) BY <2>2 DEF AsRead
  <2> QED BY <2>1, <2>3, ReadsQuiet
<1>3. CASE UNCHANGED vars
  <2>1. UNCHANGED tables /\ valid' = valid /\ op' = op BY <1>3 DEF vars
  <2> QED BY <2>1, ReadsQuiet
<1>4. ASSUME NEW p \in Procs, Step(p) \/ StatementFails(p) PROVE Reads'
  <2>1. /\ ~Free(p) /\ \A q \in Procs \ {p} : op'[q] = op[q]
        /\ op'[p].req = op[p].req /\ op'[p].alone = op[p].alone
    BY <1>4, OneGoesOn
  <2>2. op \in [Procs -> OpOK] /\ op[p] \in Op BY DEF Typed, OpOK
  <2>3. op[p].req \in Requests /\ op[p].req.kind \in KindsAt[op[p].pc]
    BY <2>1, <2>2, OpFacts
  <2>4. AsRead(op[p]) BY DEF Reads
  <2>5. ASSUME UNCHANGED tables, valid' = valid, AsRead(op'[p]) PROVE Reads'
    BY <2>1, <2>5, ReadsQuiet
  <2>6. CASE UpsertPolicy(p)
    <3>1. CASE valid' = {}
      BY <2>6, <3>1, ReadsWrite, SMTT(60) DEF Step, UpsertPolicy, Go, Answer, Typed, OpOK, Op
    <3>2. CASE op'[p].pc = "done" /\ UNCHANGED <<tables, valid>>
      BY <2>5, <3>2 DEF AsRead
    <3> QED BY <2>2, <2>6, <3>1, <3>2 DEF UpsertPolicy, Answer, tables, Op
  <2>7. CASE DeletePolicy(p)
    <3>1. CASE valid' = {}
      <4>1. op'[p].pc \in {"mark", "done"}
        BY <2>2, <2>7 DEF DeletePolicy, Go, Answer, Op
      <4> QED BY <2>7, <3>1, <4>1, ReadsWrite DEF Step
    <3>2. CASE op'[p].pc = "done" /\ UNCHANGED <<tables, valid>>
      BY <2>5, <3>2 DEF AsRead
    <3> QED BY <2>2, <2>7, <3>1, <3>2 DEF DeletePolicy, Answer, tables, Op
  <2>8. CASE WriteInbound(p) \/ WriteAccess(p)
    <3>1. valid' = {} /\ op'[p].pc = "back"
      BY <2>2, <2>8 DEF WriteInbound, WriteAccess, Go, Op
    <3> QED BY <2>8, <3>1, ReadsWrite DEF Step
  <2>9. CASE AskUsage(p)
    <3>1. UNCHANGED tables /\ valid' = valid /\ op[p].req.kind = "remove"
      BY <2>3, <2>9 DEF AskUsage, At, KindsAt
    <3>2. op'[p].pc = "done" \/ (op'[p].pc = "get" /\ ~UsageOf(op[p].req.id).unsafe)
      BY <2>2, <2>9 DEF AskUsage, Go, Answer, Op
    <3> QED BY <2>1, <2>5, <3>1, <3>2 DEF AsRead
  <2>10. CASE GetPolicy(p)
    <3>1. UNCHANGED tables /\ valid' = valid /\ op[p].pc = "get"
      BY <2>10 DEF GetPolicy, At
    <3>2. op'[p].pc \in {"done", "delete"} /\ op'[p].failed = op[p].failed
      BY <2>2, <2>10 DEF GetPolicy, Go, Answer, Op
    <3> QED BY <2>1, <2>4, <2>5, <3>1, <3>2 DEF AsRead
  <2>11. CASE Mark(p) \/ RenderDocument(p) \/ StatementFails(p)
    <3>1. UNCHANGED tables /\ valid' = valid /\ op'[p].pc = "done"
      BY <2>2, <2>11 DEF Mark, RenderDocument, StatementFails, Answer, Op
    <3> QED BY <2>5, <3>1 DEF AsRead
  <2>12. CASE ValidateInbounds(p)
    <3>1. UNCHANGED tables /\ valid' = valid BY <2>12 DEF ValidateInbounds
    <3>2. op'[p].pc = "rules" /\ op'[p].errors = Missing(op[p].req.id)
      BY <2>2, <2>12 DEF ValidateInbounds, Op
    <3> QED BY <2>1, <2>5, <3>1, <3>2 DEF AsRead
  <2>13. CASE ValidateRules(p)
    <3>1. UNCHANGED tables /\ valid' = valid /\ op[p].pc = "rules"
      BY <2>13 DEF ValidateRules, At
    <3>2. op'[p].pc = "outbounds" /\ op'[p].errors = op[p].errors
          /\ op'[p].rules = TagsOf(Enabled(op[p].req.id, "rule"))
      BY <2>2, <2>13 DEF ValidateRules, Op
    <3> QED BY <2>1, <2>4, <2>5, <3>1, <3>2 DEF AsRead
  <2>14. CASE ReadBack(p)
    <3>1. UNCHANGED tables /\ valid' = valid /\ op'[p].pc \in {"mark", "done"}
      BY <2>2, <2>14 DEF ReadBack, Go, Answer, Op
    <3> QED BY <2>5, <3>1 DEF AsRead
  <2>15. CASE CountFails(p)
    <3>1. UNCHANGED tables /\ valid' = valid BY <2>15 DEF CountFails
    <3>2. op'[p].pc \in {"done", "get"} /\ op'[p].failed BY <2>2, <2>15 DEF CountFails, Op
    <3> QED BY <2>5, <3>1, <3>2 DEF AsRead
  <2> QED BY <1>4, <2>6, <2>7, <2>8, <2>9, <2>10, <2>11, <2>12, <2>13, <2>14, <2>15, FoundValid
          DEF Step
<1> QED BY <1>1, <1>2, <1>3, <1>4, NextSteps

\* A server that was validated, with nothing written since, renders: its rules have their
\* outbounds and its inbounds the profiles they refer to, but "dns-out" and TLS profiles
\* (service_profiles.go: ValidateDomainModel; service.go: buildRouteSection).
THEOREM ValidModelRendersAlways == Spec => []ValidModelRenders
<1>1. Init => Typed /\ Alone /\ Reads BY InitTyped, InitReads
<1>2. Typed /\ Alone /\ Reads /\ [Next]_vars => Typed' /\ Alone' /\ Reads'
  BY TypedStep, AloneStep, ReadsStep
<1>3. Typed /\ Reads => ValidModelRenders
  <2> SUFFICES ASSUME Typed, Reads, NEW s \in valid
               PROVE  /\ \A r \in Dangling(s) : r.outbound = "dns-out"
                      /\ \A i \in Served(s), k \in SettingKinds \ {"tls"} :
                            inbounds[i].refs[k] # None => Found(k, inbounds[i].refs[k])
    BY DEF ValidModelRenders
  <2>1. ~Missing(s) /\ TagsOf(Enabled(s, "rule")) \subseteq Known(s) BY DEF Reads, StillValid
  <2>2. ASSUME NEW id \in Enabled(s, "rule"), Rule(id).outbound \notin Outbounds(s)
        PROVE  Rule(id).outbound = "dns-out"
    <3>1. policies[id].tag \in Known(s) BY <2>1 DEF TagsOf
    <3> QED BY <2>2, <3>1 DEF Rule, Known, Outbounds, BuiltIn
  <2>3. \A r \in Dangling(s) : r.outbound = "dns-out" BY <2>2 DEF Dangling, Rules
  <2>4. ASSUME NEW i \in Served(s), NEW k \in SettingKinds \ {"tls"}, inbounds[i].refs[k] # None
        PROVE  Found(k, inbounds[i].refs[k])
    BY <2>1, <2>4 DEF Missing, Served
  <2> QED BY <2>3, <2>4
<1> QED BY <1>1, <1>2, <1>3, PTL DEF Spec

-----------------------------------------------------------------------------
(***************************************************************************)
(* The usage shown before a delete.                                        *)
(***************************************************************************)
\* Only DeletePolicy goes from "delete" to "mark".
LEMMA DeleteFacts ==
    ASSUME Typed, [Next]_vars, NEW p \in Procs, op[p].pc = "delete", op'[p].pc = "mark"
    PROVE  DeletePolicy(p)
<1>1. ASSUME NEW q \in Procs, Step(q) \/ StatementFails(q) PROVE DeletePolicy(p)
  <2>1. q = p BY <1>1, OneGoesOn
  <2>2. op \in [Procs -> OpOK] /\ op[p] \in Op BY SMTT(60) DEF Typed, OpOK
  <2>3. ~StatementFails(p) BY <2>2 DEF StatementFails, Op
  <2> QED BY <1>1, <2>1, <2>3
          DEF Step, UpsertPolicy, WriteInbound, WriteAccess, ReadBack, AskUsage, CountFails,
              GetPolicy, Mark, RenderDocument, ValidateInbounds, ValidateRules,
              ValidateOutbounds, At
<1>2. ASSUME NEW q \in Procs, NEW r \in Requests, Begin(q, r) PROVE FALSE
  BY <1>2, BeginFacts DEF Begin, Free
<1>3. CASE Crash BY <1>3 DEF Crash, NoOp
<1>4. CASE UNCHANGED vars BY <1>4 DEF vars
<1> QED BY <1>1, <1>2, <1>3, <1>4, NextSteps

\* Documents that change when a row goes are those of the users counted.
LEMMA DocumentsCounted ==
    ASSUME Typed, NEW id \in Policies, UNCHANGED <<inbounds, access>>,
           \A x \in Policies : x # id => policies'[x] = policies[x],
           NEW u \in Users, DocumentOf(u)' # DocumentOf(u)
    PROVE  u \in UsageOf(id).subscriptions
<1> DEFINE refs == inbounds[access[u].inbound].refs
<1>1. \/ \E k \in SettingKinds : refs[k] = id /\ Kind[id] = k
      \/ access[u].client = id /\ Kind[id] = "client"
  BY SameDocument
<1>2. Kind[id] \in SettingKinds \cup {"client"} BY <1>1
<1>3. Kind[id] # "log" BY <1>2 DEF SettingKinds
<1>4. CASE Kind[id] = "client"
  <2>1. access[u].client = id BY <1>1, <1>4 DEF SettingKinds
  <2>2. u \in UsersOf(id) BY <1>4, <2>1 DEF UsersOf, SettingKinds
  <2> QED BY <1>3, <2>2 DEF UsageOf
<1>5. CASE Kind[id] \in SettingKinds
  <2>1. refs[Kind[id]] = id BY <1>1, <1>5 DEF SettingKinds
  <2>2. Kind[id] # "client" BY <1>5 DEF SettingKinds
  <2>3. u \in UsersOf(id) BY <1>3, <1>5, <2>1, <2>2 DEF UsersOf
  <2> QED BY <1>3, <2>3 DEF UsageOf
<1> QED BY <1>2, <1>4, <1>5

\* Without a runtime apply the row is in no configuration.
LEMMA ConfigStays ==
    ASSUME Typed, NEW id \in Policies, UNCHANGED <<born, inbounds, access>>,
           \A x \in Policies : x # id => policies'[x] = policies[x],
           ~UsageOf(id).runtime, Kind[id] # "log", NEW s \in Servers
    PROVE  Config(s)' = Config(s)
<1>1. /\ Kind[id] \notin {"dns", "outbound", "rule", "log"}
      /\ Kind[id] = "client" \/ InboundsOf(id) = {}
  BY DEF UsageOf
<1>2. \A k \in {"dns", "outbound", "rule", "log"}, x \in Policies :
         Kind[x] = k => policies'[x] = policies[x]
  BY <1>1
<1>3. \A k \in {"dns", "outbound", "rule", "log"} :
         /\ Enabled(s, k)' = Enabled(s, k)
         /\ \A x \in Enabled(s, k) : policies'[x] = policies[x]
  BY <1>2 DEF Enabled, OfServer, Found, Stored
<1>4. FirstEnabled(s, "log")' = FirstEnabled(s, "log")
  BY <1>3 DEF FirstEnabled, Oldest
<1>5. FirstEnabled(s, "dns")' = FirstEnabled(s, "dns")
  BY <1>3 DEF FirstEnabled, Oldest
<1>6. {[tag |-> policies[x].tag, value |-> policies[x].value] : x \in Enabled(s, "outbound")}'
        = {[tag |-> policies[x].tag, value |-> policies[x].value] : x \in Enabled(s, "outbound")}
  BY <1>3
<1>7. Rules(s)' = Rules(s) BY <1>3 DEF Rules, Rule
<1>8. Served(s)' = Served(s) BY DEF Served
<1>9. \A i \in Served(s) : Resolved(i)' = Resolved(i)
  <2> SUFFICES ASSUME NEW i \in Served(s), NEW k \in SettingKinds
               PROVE  ValueOf(k, inbounds[i].refs[k])' = ValueOf(k, inbounds[i].refs[k])
    BY DEF Resolved
  <2>1. i \in Inbounds BY DEF Served
  <2>2. inbounds[i].refs[k] \in Policies \cup {None}
    BY <2>1 DEF Typed, TypeOK, InboundRow
  <2>3. Kind[id] = k => inbounds[i].refs[k] # id
    <3>1. "client" \notin SettingKinds /\ "log" \notin SettingKinds BY DEF SettingKinds
    <3> QED BY <1>1, <2>1, <3>1 DEF InboundsOf
  <2> QED BY <2>2, <2>3 DEF ValueOf, Found, Stored
<1>10. {[id |-> i, settings |-> Resolved(i)] : i \in Served(s)}'
          = {[id |-> i, settings |-> Resolved(i)] : i \in Served(s)}
  BY <1>8, <1>9
<1> QED BY <1>4, <1>5, <1>6, <1>7, <1>10 DEF Config

\* A policy that may be removed safely leaves no rule without its outbound.
LEMMA NothingDangles ==
    ASSUME Typed, NEW id \in Policies, ~UsageOf(id).unsafe,
           policies' = [policies EXCEPT ![id] = None], NEW s \in Servers
    PROVE  Dangling(s)' \subseteq Dangling(s)
<1>1. policies \in [Policies -> PolicyRow \cup {None}] BY DEF Typed, TypeOK
<1>2. /\ \A x \in Policies : x # id => policies'[x] = policies[x]
      /\ policies'[id] = None
  BY <1>1
<1>3. \A k, x : x \in Enabled(s, k)' <=> x \in Enabled(s, k) /\ x # id
  BY <1>2 DEF Enabled, OfServer, Found, Stored
<1>4. ASSUME NEW x \in Enabled(s, "rule")', Rule(x)'.outbound \notin Outbounds(s)'
      PROVE  x \in Enabled(s, "rule") /\ Rule(x)' = Rule(x) /\ Rule(x).outbound \notin Outbounds(s)
  <2>1. x \in Enabled(s, "rule") /\ x # id BY <1>3
  <2>2. x \in Policies /\ Found("rule", x) BY <2>1 DEF Enabled, OfServer
  <2>3. policies'[x] = policies[x] BY <1>2, <2>1, <2>2
  <2>4. Rule(x)' = Rule(x) BY <2>3 DEF Rule
  <2>5. SUFFICES ASSUME Rule(x).outbound \in Outbounds(s) PROVE FALSE BY <2>1, <2>4
  <2>6. Rule(x).outbound \notin BuiltIn BY <1>4, <2>4 DEF Outbounds
  <2>7. ~policies[x].block /\ Rule(x).outbound = policies[x].tag
    BY <2>6 DEF Rule, BuiltIn
  <2>8. PICK y \in Enabled(s, "outbound") : policies[y].tag = policies[x].tag
    BY <2>5, <2>6, <2>7 DEF Outbounds, TagsOf
  <2>9. CASE y = id
    <3>1. Kind[id] = "outbound" BY <2>8, <2>9 DEF Enabled, OfServer, Found
    <3>2. x \in RulesOf(id) BY <2>2, <2>8, <2>9, <3>1 DEF RulesOf
    <3> QED BY <3>2, UnsafeCounts
  <2>10. CASE y # id
    <3>1. y \in Enabled(s, "outbound")' BY <1>3, <2>8, <2>10
    <3>2. policies'[y] = policies[y]
      BY <1>2, <2>8, <2>10 DEF Enabled, OfServer
    <3>3. policies[x].tag \in TagsOf(Enabled(s, "outbound"))'
      BY <2>8, <3>1, <3>2 DEF TagsOf
    <3> QED BY <1>4, <2>4, <2>7, <3>3 DEF Outbounds
  <2> QED BY <2>9, <2>10
<1> QED BY <1>4 DEF Dangling, Rules

\* Before a delete GetPolicyUsage counts every document the delete changes, asks for a
\* runtime apply when a configuration changes, and the panel's guarded delete, run alone
\* and with all its counts read, leaves documents and rules as they are (store_policy_usage.go; policy-manager.tsx).
THEOREM UsageShowsImpactAlways == Spec => UsageShowsImpact
<1> DEFINE A == \A p \in Procs : At(p, "delete") /\ policies' # policies /\ op'[p].pc = "mark" =>
         LET id == op[p].req.id
             usage == UsageOf(id) IN
         /\ ~usage.runtime /\ Kind[id] # "log" => \A s \in Servers : Config(s)' = Config(s)
         /\ {u \in Users : DocumentOf(u)' # DocumentOf(u)} \subseteq usage.subscriptions
         /\ op[p].req.kind = "remove" /\ op[p].alone /\ ~op[p].failed =>
               /\ \A u \in Users : DocumentOf(u)' = DocumentOf(u)
               /\ \A s \in Servers : Dangling(s)' \subseteq Dangling(s)
<1>1. Init => Typed /\ Alone /\ Reads BY InitTyped, InitReads
<1>2. Typed /\ Alone /\ Reads /\ [Next]_vars => Typed' /\ Alone' /\ Reads'
  BY TypedStep, AloneStep, ReadsStep
<1>3. Typed /\ Alone /\ Reads /\ [Next]_vars => [A]_vars
  <2> SUFFICES ASSUME Typed, Alone, Reads, [Next]_vars, NEW p \in Procs,
                      At(p, "delete"), policies' # policies, op'[p].pc = "mark"
               PROVE  LET id == op[p].req.id
                          usage == UsageOf(id) IN
         /\ ~usage.runtime /\ Kind[id] # "log" => \A s \in Servers : Config(s)' = Config(s)
         /\ {u \in Users : DocumentOf(u)' # DocumentOf(u)} \subseteq usage.subscriptions
         /\ op[p].req.kind = "remove" /\ op[p].alone /\ ~op[p].failed =>
               /\ \A u \in Users : DocumentOf(u)' = DocumentOf(u)
               /\ \A s \in Servers : Dangling(s)' \subseteq Dangling(s)
    OBVIOUS
  <2>1. DeletePolicy(p) BY DeleteFacts DEF At
  <2>2. op[p].req \in Requests /\ op[p].req.kind \in {"delete", "remove"}
    BY OpFacts DEF Typed, At, Free, KindsAt
  <2>3. PICK id \in Policies : id = op[p].req.id BY <2>2, RequestFacts
  <2>4. policies' = [policies EXCEPT ![id] = None] /\ UNCHANGED <<born, inbounds, access>>
    BY <2>1, <2>3 DEF DeletePolicy
  <2>5. \A x \in Policies : x # id => policies'[x] = policies[x]
    BY <2>4 DEF Typed, TypeOK
  <2>6. ~UsageOf(id).runtime /\ Kind[id] # "log" => \A s \in Servers : Config(s)' = Config(s)
    BY <2>4, <2>5, ConfigStays
  <2>7. \A u \in Users : DocumentOf(u)' # DocumentOf(u) => u \in UsageOf(id).subscriptions
    BY <2>4, <2>5, DocumentsCounted
  <2>8. ASSUME op[p].req.kind = "remove", op[p].alone, ~op[p].failed
        PROVE  /\ \A u \in Users : DocumentOf(u)' = DocumentOf(u)
               /\ \A s \in Servers : Dangling(s)' \subseteq Dangling(s)
    <3>1. ~UsageOf(id).unsafe BY <2>3, <2>8 DEF Reads, AsRead, At
    <3>2. UsageOf(id).subscriptions = {} BY <3>1, UnsafeCounts DEF UsageOf
    <3> QED BY <2>4, <2>7, <3>1, <3>2, NothingDangles
  <2> QED BY <2>3, <2>6, <2>7, <2>8
<1>4. UsageShowsImpact <=> [][A]_vars BY DEF UsageShowsImpact
<1> QED BY <1>1, <1>2, <1>3, <1>4, PTL DEF Spec
===============================================================================
