------------------------ MODULE ConfigRevisionsProofs ------------------------
(***************************************************************************)
(* What holds of ConfigRevisions for every number of servers, units,       *)
(* concurrent requests, revisions and versions.                            *)
(*                                                                         *)
(* DraftInv says which request owes the draft of which server.  The last   *)
(* part is about requests that run one after the other: Taking says what   *)
(* one knows of the revision it applies and of the file.                   *)
(***************************************************************************)
EXTENDS ConfigRevisions, TLAPS

\* Once a request has picked a server it keeps one until it ends; a refresh picks it
\* before it reads the inbounds, a draft or a rollback when it reads them.
PickedServer ==
    \A p \in Procs : \/ op[p].pc \in {"idle", "normalize"}
                     \/ op[p].pc = "inbounds" /\ op[p].kind # "refresh"
                     \/ op[p].server \in Servers

TypeInv == TypeOK /\ PickedServer

-----------------------------------------------------------------------------
(***************************************************************************)
(* Type correctness.                                                       *)
(***************************************************************************)
LEMMA NoOpType == NoOp \in Op /\ NoOp.pc = "idle"
BY BoundsAssumption DEF NoOp, Op, Blank, Configs, ApplyErrors

\* Requests start with no server or with a server.
LEMMA DraftOfType ==
    ASSUME NEW S \in SUBSET Servers
    PROVE  /\ DraftOf(S) \in Op
           /\ DraftOf(S).pc \in {"idle", "inbounds"} /\ DraftOf(S).kind # "refresh"
BY NoOpType DEF DraftOf, Op, NoOp

LEMMA TypeInit == Init => TypeInv
<1> SUFFICES ASSUME Init PROVE TypeInv
  OBVIOUS
<1>1. Blank \in Configs
  BY BoundsAssumption DEF Blank, Configs
<1>2. revs \in [DOMAIN revs -> Row] /\ DOMAIN revs \subseteq used
  BY DEF Init
<1>3. op \in [Procs -> Op] /\ \A p \in Procs : op[p].pc = "idle"
  BY NoOpType DEF Init
<1>4. binary \in BOOLEAN
  BY DEF Init
<1> QED
  BY <1>1, <1>2, <1>3, <1>4 DEF Init, TypeInv, TypeOK, PickedServer

\* What a step does to the request it belongs to.
OpInv == op \in [Procs -> Op] /\ PickedServer

LEMMA OpUpdate ==
    ASSUME OpInv, NEW p \in Procs, NEW o \in Op, op' = [op EXCEPT ![p] = o],
           \/ o.pc \in {"idle", "normalize"}
           \/ o.pc = "inbounds" /\ o.kind # "refresh"
           \/ o.server \in Servers
    PROVE  OpInv'
BY DEF OpInv, PickedServer

LEMMA FinishType ==
    ASSUME OpInv, NEW p \in Procs, Finish(p)
    PROVE  OpInv'
BY NoOpType, OpUpdate DEF Finish

LEMMA GiveUpType ==
    ASSUME TypeInv, NEW p \in Procs, GiveUp(p)
    PROVE  OpInv' /\ undrafted' \subseteq Servers
<1>1. op[p] \in Op /\ undrafted \subseteq Servers /\ OpInv
  BY DEF TypeInv, TypeOK, OpInv
<1>2. Due(op[p]) \subseteq Servers
  BY <1>1 DEF Due, Op, OpInv, PickedServer
<1> QED
  BY <1>1, <1>2, FinishType DEF GiveUp

LEMMA FailType ==
    ASSUME OpInv, NEW p \in Procs, NEW stage \in ApplyErrors, Fail(p, stage),
           op[p].server \in Servers
    PROVE  OpInv'
<1> DEFINE o == [op[p] EXCEPT !.pc = "markFailed", !.stage = stage]
<1>1. o \in Op /\ o.server \in Servers
  BY DEF OpInv, Op
<1>2. op' = [op EXCEPT ![p] = o]
  BY DEF Fail, OpInv
<1> QED
  BY <1>1, <1>2, OpUpdate

\* Stored configurations stay configurations.
LEMMA AccessRevisedType ==
    ASSUME stored \in [Servers -> Configs], overtaken \subseteq Procs, NEW S,
           AccessRevised(S)
    PROVE  stored' \in [Servers -> Configs] /\ overtaken' \subseteq Procs
<1>1. stored' \in [Servers -> Configs]
  BY BoundsAssumption DEF AccessRevised, Configs
<1> QED
  BY <1>1 DEF AccessRevised, Renderers

\* A new request of kind draft.
LEMMA BeginDraftType ==
    ASSUME OpInv, NEW p \in Procs, NEW request, NEW S \in SUBSET Servers,
           Begin(p, request, DraftOf(S))
    PROVE  OpInv'
BY DraftOfType, OpUpdate DEF Begin

LEMMA RequestType ==
    ASSUME TypeInv, NEW p \in Procs, Request(p)
    PROVE  TypeInv'
<1> USE DEF TypeInv, TypeOK, Live
<1>0. OpInv
  BY DEF OpInv
<1>1. CASE ChangeInbounds(p)
  <2>1. OpInv'
    BY <1>0, <1>1, BeginDraftType DEF ChangeInbounds
  <2>2. stored' \in [Servers -> Configs] /\ overtaken' \subseteq Procs
    BY <1>1, AccessRevisedType DEF ChangeInbounds
  <2> QED
    BY <1>1, <2>1, <2>2 DEF ChangeInbounds, OpInv, PickedServer
<1>2. CASE MoveInbound(p)
  <2>1. OpInv'
    BY <1>0, <1>2, BeginDraftType DEF MoveInbound
  <2>2. stored' \in [Servers -> Configs] /\ overtaken' \subseteq Procs
    BY <1>2, AccessRevisedType DEF MoveInbound
  <2> QED
    BY <1>2, <2>1, <2>2 DEF MoveInbound, OpInv, PickedServer
<1>3. CASE CreateServer(p)
  <2>1. OpInv'
    BY <1>0, <1>3, BeginDraftType DEF CreateServer
  <2> QED
    BY <1>3, <2>1 DEF CreateServer, OpInv, PickedServer, drafting
<1>4. CASE DeleteServer(p)
  <2>1. OpInv'
    BY <1>0, <1>4, BeginDraftType DEF DeleteServer
  <2>2. DOMAIN revs' \subseteq used /\ revs' \in [DOMAIN revs' -> Row]
    BY <1>4 DEF DeleteServer
  <2> QED
    BY <1>4, <2>1, <2>2 DEF DeleteServer, OpInv, PickedServer, drafting
<1>5. CASE RenderRequest(p)
  <2>1. OpInv'
    BY <1>0, <1>5, BeginDraftType DEF RenderRequest
  <2> QED
    BY <1>5, <2>1 DEF RenderRequest, OpInv, PickedServer, drafting
<1>6. CASE ApplyRequest(p)
  <2>1. PICK s \in Live, r \in DOMAIN revs \cup {None} :
          op' = [op EXCEPT ![p] = [NoOp EXCEPT !.kind = "apply", !.pc = "fetch",
                                               !.server = s, !.target = r]]
    BY <1>6 DEF ApplyRequest, Begin
  <2>2. [NoOp EXCEPT !.kind = "apply", !.pc = "fetch", !.server = s, !.target = r] \in Op
    BY NoOpType DEF Op, NoOp
  <2>3. OpInv'
    BY <1>0, <2>1, <2>2, OpUpdate DEF NoOp
  <2> QED
    BY <1>6, <2>3 DEF ApplyRequest, OpInv, PickedServer, drafting
<1>7. CASE RollbackRequest(p)
  <2>1. PICK b \in DOMAIN revs :
          op' = [op EXCEPT ![p] = [NoOp EXCEPT !.kind = "rollback", !.pc = "inbounds",
                                               !.todo = {revs[b].server}, !.base = b]]
    BY <1>7 DEF RollbackRequest, Begin
  <2>2. revs[b].server \in Servers
    BY DEF Row
  <2>3. [NoOp EXCEPT !.kind = "rollback", !.pc = "inbounds",
                     !.todo = {revs[b].server}, !.base = b] \in Op
    BY <2>2, NoOpType DEF Op, NoOp
  <2>4. OpInv'
    BY <1>0, <2>1, <2>3, OpUpdate DEF NoOp
  <2> QED
    BY <1>7, <2>4 DEF RollbackRequest, OpInv, PickedServer, drafting
<1>8. CASE RefreshRequest(p)
  <2>1. [NoOp EXCEPT !.kind = "refresh", !.pc = "normalize", !.todo = Live] \in Op
    BY NoOpType DEF Op, NoOp
  <2>2. OpInv'
    BY <1>0, <1>8, <2>1, OpUpdate DEF RefreshRequest, Begin, NoOp
  <2> QED
    BY <1>8, <2>2 DEF RefreshRequest, OpInv, PickedServer, drafting
<1> QED
  BY <1>1, <1>2, <1>3, <1>4, <1>5, <1>6, <1>7, <1>8 DEF Request

\* Marking the requests whose file is rewritten changes no other field.
LEMMA DisturbType ==
    ASSUME TypeInv, NEW p \in Procs, NEW o \in Op, o.server \in Servers,
           op' = Disturb(p, [op EXCEPT ![p] = o])
    PROVE  OpInv'
<1> DEFINE f == [op EXCEPT ![p] = o]
<1>0. f \in [Procs -> Op]
  BY DEF TypeInv, TypeOK
<1>1. ASSUME NEW q \in Procs
      PROVE  /\ op'[q] \in Op /\ op'[q].pc = f[q].pc /\ op'[q].server = f[q].server
             /\ op'[q].kind = f[q].kind
  <2>1. op'[q] = IF q \in RelyOn(UnitOfOp(p)) \ {p} THEN [f[q] EXCEPT !.disturbed = TRUE]
                 ELSE f[q]
    BY DEF Disturb
  <2>2. f[q] \in Op
    BY <1>0
  <2> HIDE DEF f
  <2>3. [f[q] EXCEPT !.disturbed = TRUE] \in Op
    BY <2>2 DEF Op
  <2> QED
    BY <2>1, <2>2, <2>3 DEF Op
<1>2. op' \in [Procs -> Op]
  BY <1>1 DEF Disturb
<1> QED
  BY <1>1, <1>2 DEF TypeInv, TypeOK, OpInv, PickedServer

LEMMA InstallType ==
    ASSUME TypeInv, NEW p \in Procs, Install(p)
    PROVE  /\ file' \in [Units -> Configs \cup {None}]
           /\ installed' \in [Units -> SUBSET Configs]
BY DEF TypeInv, TypeOK, Install, Op

\* A step inside a request: its program counter and some fields change.
LEMMA ContinueType ==
    ASSUME TypeInv, NEW p \in Procs, Continue(p)
    PROVE  TypeInv'
<1> USE DEF TypeInv, TypeOK, Live
<1>0. OpInv /\ op[p] \in Op
  BY DEF OpInv
<1>1. CASE Normalize(p)
  <2>1. PICK s \in op[p].todo :
          /\ IF s \in Live THEN AccessRevised({s}) ELSE UNCHANGED <<stored, overtaken>>
          /\ op' = [op EXCEPT ![p].pc = "inbounds", ![p].server = s]
    BY <1>1 DEF Normalize
  <2>2. s \in Servers
    BY <1>0 DEF Op
  <2>3. stored' \in [Servers -> Configs] /\ overtaken' \subseteq Procs
    BY <2>1, AccessRevisedType
  <2>4. OpInv'
    BY <1>0, <2>1, <2>2 DEF OpInv, PickedServer, Op
  <2> QED
    BY <1>1, <2>3, <2>4 DEF Normalize, OpInv, PickedServer
<1>2. CASE BuildInbounds(p)
  <2>1. PICK s \in NextServers(p) :
          IF s \in Live
          THEN /\ op' = [op EXCEPT ![p].pc = "policies", ![p].server = s,
                                   ![p].payload.access = stored[s].access]
               /\ UNCHANGED undrafted
          ELSE GiveUp(p)
    BY <1>2 DEF BuildInbounds
  <2>2. OpInv' /\ undrafted' \subseteq Servers
    <3>1. CASE s \in Live
      <4> DEFINE o == [op[p] EXCEPT !.pc = "policies", !.server = s,
                                    !.payload.access = stored[s].access]
      <4>1. stored[s] \in Configs /\ op[p].payload \in Configs
        BY <1>0, <3>1 DEF Op
      <4>2. [op[p].payload EXCEPT !.access = stored[s].access] \in Configs
        BY <4>1 DEF Configs
      <4>3. o \in Op /\ o.server \in Servers
        BY <1>0, <3>1, <4>2 DEF Op
      <4>4. op' = [op EXCEPT ![p] = o]
        BY <2>1, <3>1
      <4> QED
        BY <1>0, <2>1, <3>1, <4>3, <4>4, OpUpdate
    <3>2. CASE s \notin Live
      BY <2>1, <3>2, GiveUpType
    <3> QED
      BY <2>1, <3>1, <3>2
  <2> QED
    BY <1>2, <2>2 DEF BuildInbounds, OpInv, PickedServer
<1>3. CASE BuildPolicies(p)
  <2>1. PICK v \in 0..MaxPolicy : op' = [op EXCEPT ![p].pc = "create", ![p].payload.policy = v]
    BY <1>3 DEF BuildPolicies
  <2> DEFINE o == [op[p] EXCEPT !.pc = "create", !.payload.policy = v]
  <2>2. op[p].payload \in Configs /\ op[p].server \in Servers
    BY <1>0, <1>3 DEF Op, BuildPolicies, PickedServer
  <2>3. [op[p].payload EXCEPT !.policy = v] \in Configs
    BY <2>2 DEF Configs
  <2>4. o \in Op /\ o.server \in Servers
    BY <1>0, <2>2, <2>3 DEF Op
  <2>5. op' = [op EXCEPT ![p] = o]
    BY <2>1
  <2>6. OpInv'
    BY <1>0, <2>4, <2>5, OpUpdate
  <2> QED
    BY <1>3, <2>6 DEF BuildPolicies, OpInv, PickedServer, drafting
<1>4. CASE CreateRevision(p)
  <2>1. PICK r \in RevIds \ used, n \in RevNos, ok \in BOOLEAN :
          /\ revs' = [q \in DOMAIN revs \cup {r} |->
                        IF q = r THEN NewRow(p, n, ok) ELSE revs[q]]
          /\ used' = used \cup {r}
          /\ AfterCreate(p, r)
    BY <1>4 DEF CreateRevision
  <2>2. NewRow(p, n, ok) \in Row
    BY <1>0, <1>4 DEF CreateRevision, NewRow, Row, Op, PickedServer
  <2>3. DOMAIN revs' \subseteq used' /\ revs' \in [DOMAIN revs' -> Row]
    BY <2>1, <2>2
  <2>4. published' \subseteq Configs
    BY <1>0, <1>4 DEF CreateRevision, Op
  <2>5. OpInv'
    <3> DEFINE rest == op[p].todo \ {op[p].server}
    <3>1. CASE op[p].kind # "draft"
      <4>1. op' = [op EXCEPT ![p].pc = "fetch", ![p].todo = rest, ![p].target = r]
        BY <2>1, <3>1 DEF AfterCreate
      <4>2. op[p].server \in Servers
        BY <1>4 DEF CreateRevision, PickedServer
      <4> QED
        BY <1>0, <4>1, <4>2 DEF OpInv, PickedServer, Op
    <3>2. CASE op[p].kind = "draft" /\ rest # {}
      <4>1. op' = [op EXCEPT ![p] = DraftOf(rest)]
        BY <2>1, <3>2 DEF AfterCreate
      <4>2. rest \in SUBSET Servers
        BY <1>0 DEF Op
      <4> QED
        BY <1>0, <4>1, <4>2, DraftOfType, OpUpdate
    <3>3. CASE op[p].kind = "draft" /\ rest = {}
      <4>1. Finish(p)
        BY <2>1, <3>3 DEF AfterCreate
      <4> QED
        BY <1>0, <4>1, FinishType
    <3> QED
      BY <3>1, <3>2, <3>3
  <2>6. undrafted' \subseteq Servers
    BY <1>4 DEF CreateRevision, PickedServer
  <2> QED
    BY <1>4, <2>1, <2>3, <2>4, <2>5, <2>6 DEF CreateRevision, OpInv, PickedServer
<1>5. CASE Fetch(p)
  <2>1. OpInv'
    <3>1. CASE Finish(p)
      BY <1>0, <3>1, FinishType
    <3>2. CASE \E r \in DOMAIN revs : op' = [op EXCEPT ![p].pc = "check", ![p].target = r,
                                                       ![p].payload = revs[r].cfg]
      <4>1. PICK r \in DOMAIN revs :
              op' = [op EXCEPT ![p] = [op[p] EXCEPT !.pc = "check", !.target = r,
                                                    !.payload = revs[r].cfg]]
        BY <3>2
      <4>2. op[p].server \in Servers
        BY <1>5 DEF Fetch, PickedServer
      <4>3. r \in RevIds /\ revs[r].cfg \in Configs
        BY DEF Row
      <4>4. [op[p] EXCEPT !.pc = "check", !.target = r, !.payload = revs[r].cfg] \in Op
        BY <1>0, <4>3 DEF Op
      <4> QED
        BY <1>0, <4>1, <4>2, <4>4, OpUpdate DEF Op
    <3> QED
      BY <1>5, <3>1, <3>2 DEF Fetch
  <2> QED
    BY <1>5, <2>1 DEF Fetch, OpInv, PickedServer, drafting
<1>6. CASE CheckConfig(p)
  <2>1. op[p].server \in Servers
    BY <1>6 DEF CheckConfig, PickedServer
  <2>2. CASE op' = [op EXCEPT ![p].pc = "write"]
    <3>1. OpInv'
      BY <1>0, <2>1, <2>2 DEF OpInv, PickedServer, Op
    <3> QED
      BY <1>6, <3>1 DEF CheckConfig, OpInv, PickedServer, drafting
  <2>3. CASE Fail(p, "config_validation_failed")
    <3>1. OpInv'
      BY <1>0, <2>1, <2>3, FailType DEF ApplyErrors
    <3> QED
      BY <1>6, <3>1 DEF CheckConfig, OpInv, PickedServer, drafting
  <2> QED
    BY <1>6, <2>2, <2>3 DEF CheckConfig
<1>7. CASE WriteFile(p)
  <2> DEFINE o == [op[p] EXCEPT !.pc = "restart"]
  <2>1. o \in Op /\ o.server \in Servers
    BY <1>0, <1>7 DEF WriteFile, PickedServer, Op
  <2>2. OpInv'
    BY <1>7, <2>1, DisturbType DEF WriteFile
  <2> QED
    BY <1>7, <2>2, InstallType DEF WriteFile, OpInv, PickedServer, drafting
<1>8. CASE WriteFails(p)
  <2> DEFINE o == [op[p] EXCEPT !.pc = "markFailed", !.stage = "write_failed"]
  <2>1. o \in Op /\ o.server \in Servers
    BY <1>0, <1>8 DEF WriteFails, PickedServer, Op, ApplyErrors
  <2>2. CASE Fail(p, "write_failed") /\ UNCHANGED <<file, installed>>
    <3>1. OpInv'
      BY <1>0, <1>8, <2>2, FailType DEF ApplyErrors, WriteFails, PickedServer
    <3> QED
      BY <1>8, <2>2, <3>1 DEF WriteFails, OpInv, PickedServer, drafting
  <2>3. CASE /\ Install(p)
             /\ op' = Disturb(p, [op EXCEPT ![p].pc = "markFailed",
                                            ![p].stage = "write_failed"])
    <3>1. [op EXCEPT ![p].pc = "markFailed", ![p].stage = "write_failed"]
            = [op EXCEPT ![p] = o]
      OBVIOUS
    <3>2. OpInv'
      BY <2>1, <2>3, <3>1, DisturbType
    <3> QED
      BY <1>8, <2>3, <3>2, InstallType DEF WriteFails, OpInv, PickedServer, drafting
  <2> QED
    BY <1>8, <2>2, <2>3 DEF WriteFails
<1>9. CASE RestartService(p)
  <2>1. OpInv'
    BY <1>0, <1>9 DEF RestartService, OpInv, PickedServer, Op
  <2>2. running' \in [Units -> Configs \cup {None}]
    BY <1>9 DEF RestartService, Loaded
  <2> QED
    BY <1>9, <2>1, <2>2 DEF RestartService, OpInv, PickedServer, drafting
<1>10. CASE RestartFails(p)
  <2>1. OpInv'
    BY <1>0, <1>10, FailType DEF RestartFails, ApplyErrors, PickedServer
  <2>2. running' \in [Units -> Configs \cup {None}]
    BY <1>10 DEF RestartFails, Loaded
  <2> QED
    BY <1>10, <2>1, <2>2 DEF RestartFails, OpInv, PickedServer, drafting
<1>11. CASE MarkFailed(p)
  <2>1. OpInv'
    BY <1>0, <1>11, FinishType DEF MarkFailed
  <2>2. DOMAIN revs' \subseteq used /\ revs' \in [DOMAIN revs' -> Row]
    BY <1>11 DEF MarkFailed, FailedRow, Row
  <2> QED
    BY <1>11, <2>1, <2>2 DEF MarkFailed, OpInv, PickedServer, drafting
<1>12. CASE MarkApplied(p)
  <2>1. OpInv'
    <3>1. CASE Finish(p)
      BY <1>0, <3>1, FinishType
    <3>2. CASE AfterApply(p)
      <4>1. [NoOp EXCEPT !.kind = "refresh", !.pc = "normalize", !.todo = op[p].todo] \in Op
        BY <1>0, NoOpType DEF Op, NoOp
      <4> QED
        BY <1>0, <3>1, <3>2, <4>1, OpUpdate DEF AfterApply, NoOp
    <3> QED
      BY <1>12, <3>1, <3>2 DEF MarkApplied
  <2>2. DOMAIN revs' \subseteq used /\ revs' \in [DOMAIN revs' -> Row]
    <3>1. CASE op[p].target \in DOMAIN revs /\ revs' = Applied(op[p].target)
      <4>1. DOMAIN revs' = DOMAIN revs
        BY <3>1 DEF Applied
      <4>2. \A row \in Row :
              /\ [row EXCEPT !.applied = TRUE, !.current = TRUE, !.status = "succeeded"]
                   \in Row
              /\ [row EXCEPT !.current = FALSE] \in Row
        BY DEF Row
      <4>3. \A r \in DOMAIN revs : revs[r] \in Row
        OBVIOUS
      <4>4. \A r \in DOMAIN revs' : revs'[r] \in Row
        BY <3>1, <4>2, <4>3 DEF Applied
      <4>5. revs' = [r \in DOMAIN revs' |-> revs'[r]]
        BY <3>1 DEF Applied
      <4> QED
        BY <1>12, <4>1, <4>4, <4>5 DEF MarkApplied
    <3> QED
      BY <1>12, <3>1 DEF MarkApplied
  <2> QED
    BY <1>12, <2>1, <2>2 DEF MarkApplied, OpInv, PickedServer, drafting
<1>13. CASE QueryFails(p)
  <2>1. OpInv' /\ undrafted' \subseteq Servers
    BY <1>13, GiveUpType DEF QueryFails
  <2> QED
    BY <1>13, <2>1 DEF QueryFails, OpInv, PickedServer
<1> QED
  BY <1>1, <1>2, <1>3, <1>4, <1>5, <1>6, <1>7, <1>8, <1>9, <1>10, <1>11, <1>12, <1>13
     DEF Continue

LEMMA TypeStep == TypeInv /\ [Next]_vars => TypeInv'
<1> SUFFICES ASSUME TypeInv, [Next]_vars PROVE TypeInv'
  OBVIOUS
<1> USE DEF TypeInv, TypeOK
<1>1. CASE \E p \in Procs : Request(p)
  BY <1>1, RequestType
<1>2. CASE \E p \in Procs : Continue(p)
  BY <1>2, ContinueType
<1>3. CASE \E p \in Procs : Crash(p)
  <2>1. OpInv' /\ undrafted' \subseteq Servers
    BY <1>3, GiveUpType DEF Crash
  <2> QED
    BY <1>3, <2>1 DEF Crash, OpInv, PickedServer
<1>4. CASE \E u \in Units : UnitRestarts(u)
  <2>1. running' \in [Units -> Configs \cup {None}]
    BY <1>4 DEF UnitRestarts, Loaded
  <2> QED
    BY <1>4, <2>1 DEF UnitRestarts, PickedServer, drafting
<1>5. CASE ChangePolicy
  <2>1. stored' \in [Servers -> Configs]
    BY <1>5, BoundsAssumption DEF ChangePolicy, Configs, Live
  <2> QED
    BY <1>5, <2>1 DEF ChangePolicy, PickedServer, drafting
<1>6. CASE SilentChange
  <2>1. PICK S \in SUBSET Live : AccessRevised(S) /\ undrafted' = undrafted \cup S
    BY <1>6 DEF SilentChange
  <2>2. stored' \in [Servers -> Configs] /\ overtaken' \subseteq Procs
    BY <2>1, AccessRevisedType
  <2> QED
    BY <1>6, <2>1, <2>2 DEF SilentChange, PickedServer, Live
<1>7. CASE InstallBinary
  BY <1>7 DEF InstallBinary, PickedServer, drafting
<1>8. CASE UNCHANGED vars
  BY <1>8 DEF vars, PickedServer
<1> QED
  BY <1>1, <1>2, <1>3, <1>4, <1>5, <1>6, <1>7, <1>8 DEF Next

LEMMA TypeInvariant == Spec => []TypeInv
BY TypeInit, TypeStep, PTL DEF Spec

\* The rows of every table, the files, the services and the requests of the
\* revision workflow keep their types in every reachable state.
THEOREM TypeCorrect == Spec => []TypeOK
BY TypeInvariant, PTL DEF TypeInv

-----------------------------------------------------------------------------
(***************************************************************************)
(* The five ways a step may change the table of revisions.                 *)
(***************************************************************************)
Deletes == /\ \E S : revs' = [r \in DOMAIN revs \ S |-> revs[r]]
           /\ used' = used

Creates == \E p \in Procs, r \in RevIds \ used, n \in RevNos, ok \in BOOLEAN :
    /\ IsNextNo(op[p].server, n)
    /\ revs' = [q \in DOMAIN revs \cup {r} |-> IF q = r THEN NewRow(p, n, ok) ELSE revs[q]]
    /\ used' = used \cup {r}
    /\ published' = published \cup {op[p].payload}

Fails == /\ \E t : revs' = [r \in DOMAIN revs |-> IF r = t THEN FailedRow(revs[r])
                                                  ELSE revs[r]]
         /\ used' = used

Applies == \E p \in Procs :
    /\ op[p].pc = "markApplied" /\ op[p].target \in DOMAIN revs
    /\ revs' = Applied(op[p].target)
    /\ UNCHANGED <<used, installed>>

LEMMA RevsChange ==
    ASSUME [Next]_vars
    PROVE  UNCHANGED <<revs, used>> \/ Deletes \/ Creates \/ Fails \/ Applies
<1>1. CASE \E p \in Procs : Request(p)
  BY <1>1 DEF Request, ChangeInbounds, MoveInbound, CreateServer, DeleteServer,
              RenderRequest, ApplyRequest, RollbackRequest, RefreshRequest, Deletes
<1>2. CASE \E p \in Procs : Continue(p)
  <2>1. PICK p \in Procs : Continue(p)
    BY <1>2
  <2>2. CASE CreateRevision(p)
    BY <2>2 DEF CreateRevision, Creates
  <2>3. CASE MarkFailed(p)
    BY <2>3 DEF MarkFailed, Fails
  <2>4. CASE MarkApplied(p)
    BY <2>4 DEF MarkApplied, Applies
  <2> QED
    BY <2>1, <2>2, <2>3, <2>4
       DEF Continue, Normalize, BuildInbounds, BuildPolicies, Fetch, CheckConfig, WriteFile,
           WriteFails, RestartService, RestartFails, QueryFails
<1>3. CASE \/ \E p \in Procs : Crash(p)
           \/ \E u \in Units : UnitRestarts(u)
           \/ ChangePolicy \/ SilentChange \/ InstallBinary \/ UNCHANGED vars
  BY <1>3 DEF Crash, UnitRestarts, ChangePolicy, SilentChange, InstallBinary, vars
<1> QED
  BY <1>1, <1>2, <1>3 DEF Next

\* What MarkConfigRevisionApplied(t) leaves in each row.
LEMMA AppliedRow ==
    ASSUME TypeInv, NEW t \in DOMAIN revs, NEW r \in DOMAIN revs
    PROVE  /\ DOMAIN Applied(t) = DOMAIN revs
           /\ Applied(t)[r].server = revs[r].server
           /\ Applied(t)[r].no = revs[r].no
           /\ Applied(t)[r].cfg = revs[r].cfg
           /\ Applied(t)[r].checkOK = revs[r].checkOK
           /\ Applied(t)[r].base = revs[r].base
           /\ Applied(t)[r].applied <=> r = t \/ revs[r].applied
           /\ Applied(t)[r].current
                 <=> r = t \/ (revs[r].current /\ revs[r].server # revs[t].server)
<1>1. revs[r] \in Row
  BY DEF TypeInv, TypeOK
<1>2. CASE r = t
  <2>1. Applied(t)[r] = [revs[r] EXCEPT !.applied = TRUE, !.current = TRUE,
                                        !.status = "succeeded"]
    BY <1>2 DEF Applied
  <2> QED
    BY <1>1, <1>2, <2>1 DEF Row, Applied
<1>3. CASE r # t /\ revs[r].server = revs[t].server
  <2>1. Applied(t)[r] = [revs[r] EXCEPT !.current = FALSE]
    BY <1>3 DEF Applied
  <2> QED
    BY <1>1, <1>3, <2>1 DEF Row, Applied
<1>4. CASE r # t /\ revs[r].server # revs[t].server
  <2>1. Applied(t)[r] = revs[r]
    BY <1>4 DEF Applied
  <2> QED
    BY <1>1, <1>4, <2>1 DEF Row, Applied
<1> QED
  BY <1>2, <1>3, <1>4

LEMMA OneCurrentStep ==
    ASSUME TypeInv, [Next]_vars, OneCurrentRevision
    PROVE  OneCurrentRevision'
<1> USE DEF TypeInv, TypeOK, OneCurrentRevision
<1>1. CASE UNCHANGED <<revs, used>>
  BY <1>1
<1>2. CASE Deletes
  BY <1>2 DEF Deletes
<1>3. CASE Creates
  BY <1>3 DEF Creates, NewRow
<1>4. CASE Fails
  BY <1>4 DEF Fails, FailedRow, Row
<1>5. CASE Applies
  <2>1. PICK t \in DOMAIN revs : revs' = Applied(t)
    BY <1>5 DEF Applies
  <2>2. DOMAIN revs' = DOMAIN revs
    BY <2>1 DEF Applied
  <2>3. \A r \in DOMAIN revs :
          /\ revs'[r].server = revs[r].server
          /\ revs'[r].current => r = t \/ (revs[r].current /\ revs[r].server # revs[t].server)
    BY <2>1, AppliedRow
  <2> QED
    BY <2>2, <2>3
<1> QED
  BY <1>1, <1>2, <1>3, <1>4, <1>5, RevsChange

LEMMA NumbersUniqueStep ==
    ASSUME TypeInv, [Next]_vars, RevisionNumbersUnique
    PROVE  RevisionNumbersUnique'
<1> USE DEF TypeInv, TypeOK, RevisionNumbersUnique
<1>1. CASE UNCHANGED <<revs, used>>
  BY <1>1
<1>2. CASE Deletes
  BY <1>2 DEF Deletes
<1>3. CASE Creates
  BY <1>3, BoundsAssumption DEF Creates, NewRow, IsNextNo, RevisionsOf, Row, RevNos
<1>4. CASE Fails
  BY <1>4 DEF Fails, FailedRow, Row
<1>5. CASE Applies
  <2>1. PICK t \in DOMAIN revs : revs' = Applied(t)
    BY <1>5 DEF Applies
  <2>2. \A r \in DOMAIN revs : revs'[r].server = revs[r].server /\ revs'[r].no = revs[r].no
    BY <2>1, AppliedRow
  <2>3. DOMAIN revs' = DOMAIN revs
    BY <2>1 DEF Applied
  <2> QED
    BY <2>2, <2>3
<1> QED
  BY <1>1, <1>2, <1>3, <1>4, <1>5, RevsChange

\* However many requests apply revisions of one server at once, at most one of
\* its revisions is current.
THEOREM OneCurrentAlways == Spec => []OneCurrentRevision
<1>1. Init => OneCurrentRevision
  BY DEF Init, OneCurrentRevision
<1>2. TypeInv /\ OneCurrentRevision /\ [Next]_vars => OneCurrentRevision'
  BY OneCurrentStep
<1> QED
  BY <1>1, <1>2, TypeInvariant, PTL DEF Spec

\* However many requests render drafts of one server at once, no two revisions
\* get the same number, so the latest revision is always one row.
THEOREM NumbersUniqueAlways == Spec => []RevisionNumbersUnique
<1>1. Init => RevisionNumbersUnique
  BY DEF Init, RevisionNumbersUnique
<1>2. TypeInv /\ RevisionNumbersUnique /\ [Next]_vars => RevisionNumbersUnique'
  BY NumbersUniqueStep
<1> QED
  BY <1>1, <1>2, TypeInvariant, PTL DEF Spec

\* Rendering, failing, applying and deleting never rewrite what a revision
\* records of its rendering, never unset its apply time, never reuse its id.
THEOREM HistoryKept == Spec => RevisionsAreHistory
<1> DEFINE A == /\ \A r \in DOMAIN revs \cap DOMAIN revs' :
                     /\ \A f \in {"server", "no", "cfg", "checkOK", "base"} :
                           revs'[r][f] = revs[r][f]
                     /\ revs[r].applied => revs'[r].applied
                /\ \A r \in used : r \in DOMAIN revs' => r \in DOMAIN revs
<1>1. TypeInv /\ [Next]_vars => [A]_vars
  <2> SUFFICES ASSUME TypeInv, [Next]_vars PROVE A
    OBVIOUS
  <2> USE DEF TypeInv, TypeOK
  <2>1. CASE UNCHANGED <<revs, used>>
    BY <2>1
  <2>2. CASE Deletes
    BY <2>2 DEF Deletes
  <2>3. CASE Creates
    BY <2>3 DEF Creates
  <2>4. CASE Fails
    BY <2>4 DEF Fails, FailedRow, Row
  <2>5. CASE Applies
    <3>1. PICK t \in DOMAIN revs : revs' = Applied(t) /\ used' = used
      BY <2>5 DEF Applies
    <3>2. DOMAIN revs' = DOMAIN revs
      BY <3>1 DEF Applied
    <3>3. ASSUME NEW r \in DOMAIN revs
          PROVE  /\ \A f \in {"server", "no", "cfg", "checkOK", "base"} :
                       revs'[r][f] = revs[r][f]
                 /\ revs[r].applied => revs'[r].applied
      <4>1. /\ revs'[r]["server"] = revs[r]["server"] /\ revs'[r]["no"] = revs[r]["no"]
            /\ revs'[r]["cfg"] = revs[r]["cfg"] /\ revs'[r]["base"] = revs[r]["base"]
            /\ revs'[r]["checkOK"] = revs[r]["checkOK"]
            /\ revs[r].applied => revs'[r].applied
        BY <3>1, AppliedRow
      <4> QED
        BY <4>1
    <3> QED
      BY <3>1, <3>2, <3>3
  <2> QED
    BY <2>1, <2>2, <2>3, <2>4, <2>5, RevsChange
<1> QED
  BY <1>1, TypeInvariant, PTL DEF Spec, RevisionsAreHistory

\* Only an application that got past the service restart moves the current
\* flag: whatever fails before leaves the current revision as it was.
THEOREM CurrentKeptOnFailure == Spec => FailureKeepsCurrent
<1> DEFINE A == \A r \in DOMAIN revs \cap DOMAIN revs' :
                   revs'[r].current # revs[r].current =>
                       \E p \in Procs : /\ op[p].pc = "markApplied"
                                        /\ op[p].target \in DOMAIN revs
                                        /\ revs'[op[p].target].current
<1>1. TypeInv /\ [Next]_vars => [A]_vars
  <2> SUFFICES ASSUME TypeInv, [Next]_vars PROVE A
    OBVIOUS
  <2> USE DEF TypeInv, TypeOK
  <2>1. CASE UNCHANGED <<revs, used>>
    BY <2>1
  <2>2. CASE Deletes
    BY <2>2 DEF Deletes
  <2>3. CASE Creates
    BY <2>3 DEF Creates
  <2>4. CASE Fails
    BY <2>4 DEF Fails, FailedRow, Row
  <2>5. CASE Applies
    <3>1. PICK p \in Procs : /\ op[p].pc = "markApplied" /\ op[p].target \in DOMAIN revs
                             /\ revs' = Applied(op[p].target)
      BY <2>5 DEF Applies
    <3>2. revs'[op[p].target].current
      BY <3>1, AppliedRow
    <3> QED
      BY <3>1, <3>2
  <2> QED
    BY <2>1, <2>2, <2>3, <2>4, <2>5, RevsChange
<1> QED
  BY <1>1, TypeInvariant, PTL DEF Spec, FailureKeepsCurrent

-----------------------------------------------------------------------------
(***************************************************************************)
(* From the database to the host.  The safety properties of an application *)
(* rest on what the request carries in memory: at each program counter,    *)
(* what its payload has already gone through.                              *)
(***************************************************************************)
\* The payload of an application is the content of its target, unless the
\* target has been deleted; the id of the target is not given out again.
TargetKnown ==
    \A p \in Procs : op[p].pc \in {"check", "write", "restart", "markApplied"} =>
        /\ op[p].target \in used
        /\ op[p].target \in DOMAIN revs => revs[op[p].target].cfg = op[p].payload

\* A payload on its way to the host comes from a stored revision.
PayloadPublished ==
    /\ \A r \in DOMAIN revs : revs[r].cfg \in published
    /\ \A p \in Procs : op[p].pc \in {"check", "write", "restart", "markApplied"} =>
           op[p].payload \in published

\* Without a missing binary, only an accepted payload gets past the check.
PayloadAccepted ==
    ~BinaryMayBeMissing => /\ binary
                           /\ \A p \in Procs : op[p].pc = "write" => op[p].payload \in Valid

PayloadInstalled ==
    \A p \in Procs : op[p].pc \in {"restart", "markApplied"} =>
        op[p].payload \in installed[UnitOfOp(p)]

FileUndisturbed ==
    \A p \in Procs : op[p].pc \in {"restart", "markApplied"} /\ ~op[p].disturbed =>
        file[UnitOfOp(p)] = op[p].payload

HostInv ==
    /\ TargetKnown /\ PayloadPublished /\ PayloadAccepted /\ PayloadInstalled
    /\ FileUndisturbed
    /\ FileAccepted /\ CurrentWasInstalled /\ UndisturbedApplyTakesEffect

(***************************************************************************)
(* How a request comes to carry a payload: it already did and keeps it, it *)
(* has just fetched it, or it takes the next step with it.                 *)
(***************************************************************************)
Keeps(q) ==
    /\ op'[q].pc = op[q].pc /\ op'[q].server = op[q].server
    /\ op'[q].payload = op[q].payload /\ op'[q].target = op[q].target
    /\ ~op'[q].disturbed => ~op[q].disturbed

Fetched(q) ==
    /\ op'[q].pc = "check" /\ op'[q].target \in DOMAIN revs
    /\ op'[q].payload = revs[op'[q].target].cfg
    /\ UNCHANGED <<revs, used, published>>

Advances(q, from, to) ==
    /\ op[q].pc = from /\ op'[q].pc = to /\ op'[q].server = op[q].server
    /\ op'[q].payload = op[q].payload /\ op'[q].target = op[q].target
    /\ ~op'[q].disturbed => ~op[q].disturbed
    /\ UNCHANGED <<revs, used, published>>

Carries(q) ==
    \/ op'[q].pc \notin {"check", "write", "restart", "markApplied"}
    \/ Keeps(q)
    \/ Fetched(q)
    \/ Advances(q, "check", "write") /\ Accepts(op[q].payload)
    \/ Advances(q, "write", "restart") /\ Install(q)
    \/ Advances(q, "restart", "markApplied") /\ Loaded(UnitOfOp(q)) /\ UNCHANGED file
                                             /\ Startable(UnitOfOp(q))

\* A request that is replaced as a whole starts before the fetch.
LEMMA ReplacedCarries ==
    ASSUME TypeInv, NEW p \in Procs, NEW o,
           op' = [op EXCEPT ![p] = o],
           o.pc \notin {"check", "write", "restart", "markApplied"}
    PROVE  \A q \in Procs : Carries(q)
BY DEF TypeInv, TypeOK, Carries, Keeps

\* A step of p that replaces only its own record leaves what others carry.
LEMMA OthersCarry ==
    ASSUME TypeInv, NEW p \in Procs, NEW o, op' = [op EXCEPT ![p] = o], Carries(p)
    PROVE  \A q \in Procs : Carries(q)
BY DEF TypeInv, TypeOK, Carries, Keeps

\* Writing a file marks others as disturbed and leaves what they carry.
LEMMA DisturbedCarry ==
    ASSUME TypeInv, NEW p \in Procs, NEW o, op' = Disturb(p, [op EXCEPT ![p] = o]),
           Carries(p)
    PROVE  \A q \in Procs : Carries(q)
<1> SUFFICES ASSUME NEW q \in Procs, q # p PROVE Keeps(q)
  BY DEF Carries
<1>1. op[q] \in Op
  BY DEF TypeInv, TypeOK
<1>2. op'[q] = op[q] \/ op'[q] = [op[q] EXCEPT !.disturbed = TRUE]
  BY DEF TypeInv, TypeOK, Disturb
<1> QED
  BY <1>1, <1>2 DEF Keeps, Op

LEMMA CarriesStep ==
    ASSUME TypeInv, [Next]_vars
    PROVE  \A q \in Procs : Carries(q)
<1> USE DEF TypeInv, TypeOK
<1>1. CASE \E p \in Procs : Request(p)
  <2>1. PICK p \in Procs : Request(p)
    BY <1>1
  <2>2. CASE \E kind : \E S \in SUBSET Servers : Begin(p, kind, DraftOf(S))
    BY <2>2, DraftOfType, ReplacedCarries DEF Begin
  <2>3. CASE ApplyRequest(p)
    <3>1. \A s, r : [NoOp EXCEPT !.kind = "apply", !.pc = "fetch",
                                 !.server = s, !.target = r].pc = "fetch"
      BY DEF NoOp
    <3> QED
      BY <2>3, <3>1, ReplacedCarries DEF ApplyRequest, Begin
  <2>4. CASE RollbackRequest(p)
    <3>1. \A S, b : [NoOp EXCEPT !.kind = "rollback", !.pc = "inbounds",
                                 !.todo = S, !.base = b].pc = "inbounds"
      BY DEF NoOp
    <3> QED
      BY <2>4, <3>1, ReplacedCarries DEF RollbackRequest, Begin
  <2>5. CASE RefreshRequest(p)
    <3>1. [NoOp EXCEPT !.kind = "refresh", !.pc = "normalize", !.todo = Live].pc = "normalize"
      BY DEF NoOp
    <3> QED
      BY <2>5, <3>1, ReplacedCarries DEF RefreshRequest, Begin
  <2> QED
    BY <2>1, <2>2, <2>3, <2>4, <2>5
       DEF Request, ChangeInbounds, MoveInbound, CreateServer, DeleteServer,
           RenderRequest, Live
<1>2. CASE \E p \in Procs : Continue(p)
  <2>1. PICK p \in Procs : Continue(p)
    BY <1>2
  <2>2. op[p] \in Op
    OBVIOUS
  <2>3. CASE Finish(p)
    BY <2>3, ReplacedCarries, NoOpType DEF Finish
  <2>4. CASE Normalize(p)
    <3>1. PICK s : op' = [op EXCEPT ![p] = [op[p] EXCEPT !.pc = "inbounds", !.server = s]]
      BY <2>4 DEF Normalize
    <3>2. [op[p] EXCEPT !.pc = "inbounds", !.server = s].pc = "inbounds"
      BY <2>2 DEF Op
    <3> QED
      BY <3>1, <3>2, ReplacedCarries
  <2>13. CASE BuildInbounds(p) /\ ~Finish(p)
    <3>1. PICK s : op' = [op EXCEPT ![p].pc = "policies", ![p].server = s,
                                    ![p].payload.access = stored[s].access]
      BY <2>13 DEF BuildInbounds, GiveUp
    <3> DEFINE o == [op[p] EXCEPT !.pc = "policies", !.server = s,
                                  !.payload.access = stored[s].access]
    <3>2. o.pc = "policies"
      BY <2>2 DEF Op
    <3>3. op' = [op EXCEPT ![p] = o]
      BY <3>1
    <3> QED
      BY <3>2, <3>3, ReplacedCarries
  <2>14. CASE BuildPolicies(p)
    <3>1. PICK v : op' = [op EXCEPT ![p].pc = "create", ![p].payload.policy = v]
      BY <2>14 DEF BuildPolicies
    <3> DEFINE o == [op[p] EXCEPT !.pc = "create", !.payload.policy = v]
    <3>2. o.pc = "create"
      BY <2>2 DEF Op
    <3>3. op' = [op EXCEPT ![p] = o]
      BY <3>1
    <3> QED
      BY <3>2, <3>3, ReplacedCarries
  <2>5. CASE CreateRevision(p)
    <3> DEFINE rest == op[p].todo \ {op[p].server}
    <3>1. CASE \E r : op' = [op EXCEPT ![p].pc = "fetch", ![p].todo = rest, ![p].target = r]
      <4>1. PICK r : op' = [op EXCEPT ![p] = [op[p] EXCEPT !.pc = "fetch", !.todo = rest,
                                                           !.target = r]]
        BY <3>1
      <4>2. [op[p] EXCEPT !.pc = "fetch", !.todo = rest, !.target = r].pc = "fetch"
        BY <2>2 DEF Op
      <4> QED
        BY <4>1, <4>2, ReplacedCarries
    <3>2. CASE op' = [op EXCEPT ![p] = DraftOf(rest)]
      <4>1. rest \in SUBSET Servers
        BY <2>2 DEF Op
      <4> QED
        BY <3>2, <4>1, DraftOfType, ReplacedCarries
    <3> QED
      BY <2>3, <2>5, <3>1, <3>2 DEF CreateRevision, AfterCreate
  <2>6. CASE Fetch(p)
    <3>1. CASE \E r \in DOMAIN revs : op' = [op EXCEPT ![p].pc = "check", ![p].target = r,
                                                       ![p].payload = revs[r].cfg]
      <4>1. PICK r \in DOMAIN revs : op' = [op EXCEPT ![p].pc = "check", ![p].target = r,
                                                      ![p].payload = revs[r].cfg]
        BY <3>1
      <4>2. /\ op'[p].pc = "check" /\ op'[p].target = r /\ op'[p].payload = revs[r].cfg
            /\ op' = [op EXCEPT ![p] = op'[p]]
        BY <2>2, <4>1 DEF Op
      <4> QED
        BY <2>6, <4>2, OthersCarry DEF Carries, Fetched, Fetch
    <3> QED
      BY <2>3, <2>6, <3>1 DEF Fetch
  <2>7. CASE CheckConfig(p)
    <3>1. op' = [op EXCEPT ![p] = op'[p]]
      BY <2>7 DEF CheckConfig, Fail
    <3>2. CASE op' = [op EXCEPT ![p].pc = "write"] /\ Accepts(op[p].payload)
      BY <2>2, <2>7, <3>1, <3>2, OthersCarry DEF Carries, Advances, CheckConfig, Op
    <3>3. CASE Fail(p, "config_validation_failed")
      <4> DEFINE o == [op[p] EXCEPT !.pc = "markFailed", !.stage = "config_validation_failed"]
      <4>1. o.pc = "markFailed" /\ op' = [op EXCEPT ![p] = o]
        BY <2>2, <3>3 DEF Op, Fail
      <4> QED
        BY <4>1, ReplacedCarries
    <3> QED
      BY <2>7, <3>2, <3>3 DEF CheckConfig
  <2>8. CASE WriteFile(p)
    <3> DEFINE o == [op[p] EXCEPT !.pc = "restart"]
    <3>1. op' = Disturb(p, [op EXCEPT ![p] = o])
      BY <2>8 DEF WriteFile
    <3>2. op'[p] = o
      BY <3>1 DEF Disturb
    <3>3. Advances(p, "write", "restart") /\ Install(p)
      BY <2>2, <2>8, <3>2 DEF WriteFile, Advances, Op
    <3> QED
      BY <3>1, <3>3, DisturbedCarry DEF Carries
  <2>9. CASE WriteFails(p)
    <3> DEFINE o == [op[p] EXCEPT !.pc = "markFailed", !.stage = "write_failed"]
    <3>1. o.pc = "markFailed"
      BY <2>2 DEF Op
    <3>2. CASE Fail(p, "write_failed")
      BY <3>1, <3>2, ReplacedCarries DEF Fail
    <3>3. CASE op' = Disturb(p, [op EXCEPT ![p].pc = "markFailed",
                                           ![p].stage = "write_failed"])
      <4>1. op' = Disturb(p, [op EXCEPT ![p] = o])
        BY <3>3
      <4>2. op'[p] = o
        BY <4>1 DEF Disturb
      <4> QED
        BY <3>1, <4>1, <4>2, DisturbedCarry DEF Carries
    <3> QED
      BY <2>9, <3>2, <3>3 DEF WriteFails
  <2>10. CASE RestartService(p)
    <3>1. op' = [op EXCEPT ![p] = op'[p]]
      BY <2>10 DEF RestartService
    <3>2. /\ Advances(p, "restart", "markApplied") /\ Loaded(UnitOfOp(p)) /\ UNCHANGED file
          /\ Startable(UnitOfOp(p))
      BY <2>2, <2>10 DEF RestartService, Advances, Op
    <3> QED
      BY <3>1, <3>2, OthersCarry DEF Carries
  <2>11. CASE RestartFails(p)
    <3> DEFINE o == [op[p] EXCEPT !.pc = "markFailed", !.stage = "runtime_restart_failed"]
    <3>1. o.pc = "markFailed" /\ op' = [op EXCEPT ![p] = o]
      BY <2>2, <2>11 DEF RestartFails, Fail, Op
    <3> QED
      BY <3>1, ReplacedCarries
  <2>12. CASE MarkApplied(p)
    <3>1. [NoOp EXCEPT !.kind = "refresh", !.pc = "normalize", !.todo = op[p].todo].pc
            = "normalize"
      BY DEF NoOp
    <3> QED
      BY <2>3, <2>12, <3>1, ReplacedCarries DEF MarkApplied, AfterApply
  <2> QED
    BY <2>1, <2>3, <2>4, <2>5, <2>6, <2>7, <2>8, <2>9, <2>10, <2>11, <2>12, <2>13, <2>14
       DEF Continue, QueryFails, MarkFailed, GiveUp
<1>3. CASE \E p \in Procs : Crash(p)
  BY <1>3, ReplacedCarries, NoOpType DEF Crash, GiveUp, Finish
<1>4. CASE \/ \E u \in Units : UnitRestarts(u)
           \/ ChangePolicy \/ SilentChange \/ InstallBinary \/ UNCHANGED vars
  BY <1>4 DEF UnitRestarts, ChangePolicy, SilentChange, InstallBinary, vars, Carries, Keeps
<1> QED
  BY <1>1, <1>2, <1>3, <1>4 DEF Next

(***************************************************************************)
(* What a step may do to the host.                                         *)
(***************************************************************************)
Writes(u) == \E p \in Procs :
    /\ op[p].pc = "write" /\ UnitOfOp(p) = u /\ Install(p)
    /\ \E o : op' = Disturb(p, [op EXCEPT ![p] = o])
    /\ UNCHANGED <<revs, used, running, binary, published>>

Restarts(u) ==
    /\ running' \in {[running EXCEPT ![u] = None], [running EXCEPT ![u] = file[u]]}
    /\ UNCHANGED <<revs, used, file, binary, published, installed>>

LEMMA HostChange ==
    ASSUME [Next]_vars
    PROVE  \/ UNCHANGED <<file, running, installed>> /\ (binary' = binary \/ binary' = TRUE)
           \/ \E p \in Procs : Writes(UnitOfOp(p))
           \/ \E u : Restarts(u)
<1>1. CASE \E p \in Procs : Request(p)
  BY <1>1 DEF Request, ChangeInbounds, MoveInbound, CreateServer, DeleteServer,
              RenderRequest, ApplyRequest, RollbackRequest, RefreshRequest
<1>2. CASE \E p \in Procs : Continue(p)
  <2>1. PICK p \in Procs : Continue(p)
    BY <1>2
  <2>2. CASE WriteFile(p)
    <3>1. op' = Disturb(p, [op EXCEPT ![p] = [op[p] EXCEPT !.pc = "restart"]])
      BY <2>2 DEF WriteFile
    <3> QED
      BY <2>2, <3>1 DEF WriteFile, Writes
  <2>3. CASE WriteFails(p) /\ ~UNCHANGED <<file, installed>>
    <3>1. op' = Disturb(p, [op EXCEPT ![p] = [op[p] EXCEPT !.pc = "markFailed",
                                                           !.stage = "write_failed"]])
      BY <2>3 DEF WriteFails
    <3> QED
      BY <2>3, <3>1 DEF WriteFails, Writes
  <2>4. CASE RestartService(p) \/ (RestartFails(p) /\ ~UNCHANGED running)
    BY <2>4 DEF RestartService, RestartFails, Loaded, Restarts
  <2> QED
    BY <2>1, <2>2, <2>3, <2>4
       DEF Continue, Normalize, BuildInbounds, BuildPolicies, CreateRevision, Fetch,
           CheckConfig, WriteFails, RestartFails, MarkFailed, MarkApplied, QueryFails
<1>3. CASE \E u \in Units : UnitRestarts(u)
  <2>1. PICK u \in Units : UnitRestarts(u)
    BY <1>3
  <2>2. running' = [running EXCEPT ![u] = None] \/ running' = [running EXCEPT ![u] = file[u]]
    BY <2>1 DEF UnitRestarts, Loaded
  <2> QED
    BY <2>1, <2>2 DEF UnitRestarts, Restarts
<1>4. CASE \/ \E p \in Procs : Crash(p)
           \/ ChangePolicy \/ SilentChange \/ InstallBinary \/ UNCHANGED vars
  BY <1>4 DEF Crash, ChangePolicy, SilentChange, InstallBinary, vars
<1> QED
  BY <1>1, <1>2, <1>3, <1>4 DEF Next

LEMMA InstalledGrows ==
    ASSUME TypeInv, [Next]_vars
    PROVE  /\ \A u \in Units : installed[u] \subseteq installed'[u]
           /\ published \subseteq published'
<1>1. \A u \in Units : installed[u] \subseteq installed'[u]
  <2>1. CASE \E p \in Procs : Writes(UnitOfOp(p))
    <3>1. PICK p \in Procs : Install(p)
      BY <2>1 DEF Writes
    <3> QED
      BY <3>1 DEF TypeInv, TypeOK, Install
  <2> QED
    BY <2>1, HostChange DEF Restarts
<1>2. published \subseteq published'
  <2>1. CASE \E p \in Procs : Request(p)
    BY <2>1 DEF Request, ChangeInbounds, MoveInbound, CreateServer, DeleteServer,
                RenderRequest, ApplyRequest, RollbackRequest, RefreshRequest
  <2>2. CASE \E p \in Procs : Continue(p)
    BY <2>2 DEF Continue, Normalize, BuildInbounds, BuildPolicies, CreateRevision, Fetch,
                CheckConfig, WriteFile, WriteFails, RestartService, RestartFails,
                MarkFailed, MarkApplied, QueryFails
  <2>3. CASE \/ \E p \in Procs : Crash(p)
             \/ \E u \in Units : UnitRestarts(u)
             \/ ChangePolicy \/ SilentChange \/ InstallBinary \/ UNCHANGED vars
    BY <2>3 DEF Crash, UnitRestarts, ChangePolicy, SilentChange, InstallBinary, vars
  <2> QED
    BY <2>1, <2>2, <2>3 DEF Next
<1> QED
  BY <1>1, <1>2

\* Every row that survives a step keeps its content.
LEMMA ContentKept ==
    ASSUME TypeInv, [Next]_vars
    PROVE  /\ \A r \in DOMAIN revs' :
                 \/ r \in DOMAIN revs /\ revs'[r].cfg = revs[r].cfg
                 \/ r \notin used /\ revs'[r].cfg \in published'
           /\ used \subseteq used'
<1> USE DEF TypeInv, TypeOK
<1>1. CASE UNCHANGED <<revs, used>>
  BY <1>1
<1>2. CASE Deletes
  BY <1>2 DEF Deletes
<1>3. CASE Creates
  BY <1>3 DEF Creates, NewRow
<1>4. CASE Fails
  BY <1>4 DEF Fails, FailedRow, Row
<1>5. CASE Applies
  <2>1. PICK t \in DOMAIN revs : revs' = Applied(t) /\ used' = used
    BY <1>5 DEF Applies
  <2>2. DOMAIN revs' = DOMAIN revs
    BY <2>1 DEF Applied
  <2> QED
    BY <2>1, <2>2, AppliedRow
<1> QED
  BY <1>1, <1>2, <1>3, <1>4, <1>5, RevsChange

LEMMA TargetKnownStep ==
    ASSUME TypeInv, [Next]_vars, TargetKnown
    PROVE  TargetKnown'
<1> SUFFICES ASSUME NEW p \in Procs, op'[p].pc \in {"check", "write", "restart", "markApplied"}
             PROVE  /\ op'[p].target \in used'
                    /\ op'[p].target \in DOMAIN revs' =>
                          revs'[op'[p].target].cfg = op'[p].payload
  BY DEF TargetKnown
<1>1. Carries(p)
  BY CarriesStep
<1>2. CASE Fetched(p)
  BY <1>2 DEF Fetched, TypeInv, TypeOK
<1>3. CASE ~Fetched(p)
  <2>1. /\ op[p].pc \in {"check", "write", "restart", "markApplied"}
        /\ op'[p].target = op[p].target /\ op'[p].payload = op[p].payload
    BY <1>1, <1>3 DEF Carries, Keeps, Advances
  <2> QED
    BY <2>1, ContentKept DEF TargetKnown
<1> QED
  BY <1>2, <1>3

LEMMA PublishedStep ==
    ASSUME TypeInv, [Next]_vars, PayloadPublished
    PROVE  PayloadPublished'
<1>1. \A r \in DOMAIN revs' : revs'[r].cfg \in published'
  BY ContentKept, InstalledGrows DEF PayloadPublished
<1>2. ASSUME NEW p \in Procs, op'[p].pc \in {"check", "write", "restart", "markApplied"}
      PROVE  op'[p].payload \in published'
  <2>1. Carries(p)
    BY CarriesStep
  <2>2. CASE Fetched(p)
    BY <1>1, <2>2 DEF Fetched
  <2>3. CASE ~Fetched(p)
    BY <1>2, <2>1, <2>3, InstalledGrows DEF Carries, Keeps, Advances, PayloadPublished
  <2> QED
    BY <2>2, <2>3
<1> QED
  BY <1>1, <1>2 DEF PayloadPublished

LEMMA InstalledStep ==
    ASSUME TypeInv, [Next]_vars, PayloadInstalled
    PROVE  PayloadInstalled'
<1> SUFFICES ASSUME NEW p \in Procs, op'[p].pc \in {"restart", "markApplied"}
             PROVE  op'[p].payload \in installed'[UnitOf[op'[p].server]]
  BY DEF PayloadInstalled, UnitOfOp
<1>1. Carries(p) /\ TypeInv'
  BY CarriesStep, TypeStep
<1>2. op'[p].server \in Servers /\ UnitOf[op'[p].server] \in Units
  BY <1>1, ServersAssumption DEF TypeInv, PickedServer
<1>3. CASE Advances(p, "write", "restart") /\ Install(p)
  BY <1>2, <1>3 DEF Advances, Install, UnitOfOp, TypeInv, TypeOK
<1>4. CASE Keeps(p) \/ Advances(p, "restart", "markApplied")
  BY <1>2, <1>4, InstalledGrows DEF Keeps, Advances, PayloadInstalled, UnitOfOp
<1> QED
  BY <1>1, <1>3, <1>4 DEF Carries, Fetched, Advances

LEMMA AcceptedStep ==
    ASSUME TypeInv, [Next]_vars, PayloadAccepted, FileAccepted
    PROVE  PayloadAccepted' /\ FileAccepted'
<1> SUFFICES ASSUME ~BinaryMayBeMissing
             PROVE  /\ binary'
                    /\ \A p \in Procs : op'[p].pc = "write" => op'[p].payload \in Valid
                    /\ \A u \in Units : file'[u] # None => file'[u] \in Valid
  BY DEF PayloadAccepted, FileAccepted
<1>1. binary /\ binary'
  BY HostChange DEF PayloadAccepted, Writes, Restarts
<1>2. ASSUME NEW p \in Procs, op'[p].pc = "write"
      PROVE  op'[p].payload \in Valid
  <2>1. Carries(p)
    BY CarriesStep
  <2>2. CASE Keeps(p)
    BY <1>2, <2>2 DEF Keeps, PayloadAccepted
  <2>3. CASE Advances(p, "check", "write") /\ Accepts(op[p].payload)
    BY <1>1, <2>3 DEF Advances, Accepts
  <2> QED
    BY <1>2, <2>1, <2>2, <2>3 DEF Carries, Fetched, Advances
<1>3. ASSUME NEW u \in Units, file'[u] # None
      PROVE  file'[u] \in Valid
  <2>1. CASE \E p \in Procs : Writes(UnitOfOp(p))
    <3>1. PICK p \in Procs : op[p].pc = "write" /\ Install(p)
      BY <2>1 DEF Writes
    <3>2. op[p].payload \in Valid
      BY <3>1 DEF PayloadAccepted
    <3> QED
      BY <1>3, <3>1, <3>2 DEF Install, FileAccepted, TypeInv, TypeOK
  <2> QED
    BY <1>3, <2>1, HostChange DEF Restarts, FileAccepted
<1> QED
  BY <1>1, <1>2, <1>3

LEMMA CurrentInstalledStep ==
    ASSUME TypeInv, [Next]_vars, TargetKnown, PayloadInstalled, CurrentWasInstalled
    PROVE  CurrentWasInstalled'
<1> USE DEF TypeInv, TypeOK
<1>1. \A r \in DOMAIN revs' : r \in DOMAIN revs => revs'[r].cfg = revs[r].cfg
  BY ContentKept
<1>2. \A u \in Units : installed[u] \subseteq installed'[u]
  BY InstalledGrows
<1>3. ASSUME NEW r \in DOMAIN revs', revs'[r].current
      PROVE  /\ r \in DOMAIN revs /\ revs'[r].applied
             /\ \E u \in Units : revs[r].cfg \in installed[u]
  <2>1. CASE UNCHANGED <<revs, used>>
    BY <1>3, <2>1 DEF CurrentWasInstalled
  <2>2. CASE Deletes
    BY <1>3, <2>2 DEF Deletes, CurrentWasInstalled
  <2>3. CASE Creates
    BY <1>3, <2>3 DEF Creates, NewRow, CurrentWasInstalled
  <2>4. CASE Fails
    <3>1. r \in DOMAIN revs /\ revs[r] \in Row
      BY <2>4 DEF Fails
    <3>2. revs'[r] = revs[r] \/ revs'[r] = [revs[r] EXCEPT !.status = "failed"]
      BY <2>4, <3>1 DEF Fails, FailedRow
    <3>3. revs[r].current /\ (revs[r].applied => revs'[r].applied)
      BY <1>3, <3>1, <3>2 DEF Row
    <3> QED
      BY <3>1, <3>3 DEF CurrentWasInstalled
  <2>5. CASE Applies
    <3>1. PICK p \in Procs : /\ op[p].pc = "markApplied" /\ op[p].target \in DOMAIN revs
                             /\ revs' = Applied(op[p].target)
      BY <2>5 DEF Applies
    <3>2. r \in DOMAIN revs
      BY <1>3, <3>1 DEF Applied
    <3>3. CASE r = op[p].target
      <4>1. revs[r].cfg \in installed[UnitOfOp(p)]
        BY <3>1, <3>3 DEF TargetKnown, PayloadInstalled
      <4>2. UnitOfOp(p) \in Units
        BY <3>1, ServersAssumption DEF UnitOfOp, PickedServer
      <4> QED
        BY <3>1, <3>2, <3>3, <4>1, <4>2, AppliedRow
    <3>4. CASE r # op[p].target
      <4>1. revs[r].current /\ (revs[r].applied => revs'[r].applied)
        BY <1>3, <3>1, <3>2, <3>4, AppliedRow
      <4> QED
        BY <3>2, <4>1 DEF CurrentWasInstalled
    <3> QED
      BY <3>3, <3>4
  <2> QED
    BY <2>1, <2>2, <2>3, <2>4, <2>5, RevsChange
<1> QED
  BY <1>1, <1>2, <1>3 DEF CurrentWasInstalled

LEMMA UndisturbedStep ==
    ASSUME TypeInv, [Next]_vars, FileUndisturbed, UndisturbedApplyTakesEffect
    PROVE  FileUndisturbed' /\ UndisturbedApplyTakesEffect'
<1> USE DEF TypeInv, TypeOK
<1> SUFFICES ASSUME NEW q \in Procs, op'[q].pc \in {"restart", "markApplied"},
                    ~op'[q].disturbed
             PROVE  /\ file'[UnitOf[op'[q].server]] = op'[q].payload
                    /\ op'[q].pc = "markApplied" =>
                         running'[UnitOf[op'[q].server]] \in {op'[q].payload, None}
  BY DEF FileUndisturbed, UndisturbedApplyTakesEffect, UnitOfOp
<1>1. Carries(q) /\ TypeInv'
  BY CarriesStep, TypeStep
<1> DEFINE u == UnitOfOp(q)
<1>2. /\ op[q].pc # "fetch" /\ op'[q].server = op[q].server
      /\ op'[q].payload = op[q].payload /\ (op[q].pc = "write" \/ ~op[q].disturbed)
      /\ op[q].pc \in {"write", "restart", "markApplied"}
  BY <1>1 DEF Carries, Keeps, Fetched, Advances
<1>3. op[q].server \in Servers /\ u \in Units
  BY <1>2, ServersAssumption DEF PickedServer, UnitOfOp
<1>4. CASE Advances(q, "write", "restart") /\ Install(q)
  BY <1>3, <1>4 DEF Advances, Install, UnitOfOp
<1>5. CASE Advances(q, "restart", "markApplied") /\ Loaded(u) /\ UNCHANGED file
  <2>1. file[u] = op[q].payload
    BY <1>2, <1>5 DEF Advances, FileUndisturbed
  <2>2. running'[u] \in {file[u], None}
    BY <1>3, <1>5 DEF Loaded
  <2> QED
    BY <1>2, <1>5, <2>1, <2>2 DEF UnitOfOp
<1>6. CASE Keeps(q)
  <2>1. /\ op[q].pc = op'[q].pc /\ file[u] = op[q].payload
        /\ op[q].pc = "markApplied" => running[u] \in {op[q].payload, None}
    BY <1>6 DEF Keeps, FileUndisturbed, UndisturbedApplyTakesEffect
  <2>2. CASE UNCHANGED <<file, running>>
    BY <1>2, <2>1, <2>2 DEF UnitOfOp
  <2>3. CASE \E p \in Procs : Writes(UnitOfOp(p))
    <3>0. PICK p \in Procs : /\ op[p].pc = "write" /\ Install(p)
                             /\ \E o : op' = Disturb(p, [op EXCEPT ![p] = o])
                             /\ UNCHANGED running
      BY <2>3 DEF Writes
    <3>1. PICK o : op' = Disturb(p, [op EXCEPT ![p] = o])
      BY <3>0
    <3>2. p # q /\ op[q] \in Op
      BY <1>6, <3>0, <3>1 DEF Keeps
    <3>3. q \notin RelyOn(UnitOfOp(p))
      <4>1. SUFFICES ASSUME q \in RelyOn(UnitOfOp(p)) PROVE op'[q].disturbed
        OBVIOUS
      <4>2. op'[q] = [op[q] EXCEPT !.disturbed = TRUE]
        BY <3>1, <3>2, <4>1 DEF Disturb
      <4> QED
        BY <3>2, <4>2 DEF Op
    <3>4. UnitOfOp(p) # u
      BY <2>1, <3>3 DEF RelyOn, UnitOfOp
    <3> QED
      BY <1>2, <2>1, <3>0, <3>4 DEF Install, UnitOfOp
  <2>4. CASE \E v : Restarts(v)
    <3>1. file' = file /\ (running'[u] = running[u] \/ running'[u] \in {file[u], None})
      BY <1>3, <2>4 DEF Restarts
    <3> QED
      BY <1>2, <2>1, <3>1 DEF UnitOfOp
  <2> QED
    BY <2>2, <2>3, <2>4, HostChange
<1> QED
  BY <1>1, <1>4, <1>5, <1>6 DEF Carries, Fetched, Advances

LEMMA HostInvariant == Spec => []HostInv
<1>1. Init => HostInv
  <2> SUFFICES ASSUME Init PROVE HostInv
    OBVIOUS
  <2>1. DOMAIN revs = {} /\ \A p \in Procs : op[p].pc = "idle"
    BY DEF Init, NoOp
  <2>2. ~BinaryMayBeMissing => binary
    BY DEF Init
  <2>3. \A u \in Units : file[u] = None
    BY DEF Init
  <2> QED
    BY <2>1, <2>2, <2>3
       DEF HostInv, TargetKnown, PayloadPublished, PayloadAccepted, PayloadInstalled,
           FileUndisturbed, FileAccepted, CurrentWasInstalled, UndisturbedApplyTakesEffect
<1>2. TypeInv /\ HostInv /\ [Next]_vars => HostInv'
  BY TargetKnownStep, PublishedStep, InstalledStep, AcceptedStep, CurrentInstalledStep,
     UndisturbedStep DEF HostInv
<1> QED
  BY <1>1, <1>2, TypeInvariant, PTL DEF Spec

\* With the binary in place from the start, sing-box accepts whatever a config
\* path holds, also when the draft it came from had failed its check.
THEOREM FileAcceptedAlways == Spec => []FileAccepted
BY HostInvariant, PTL DEF HostInv

\* What is marked current has been written to a config path.
THEOREM CurrentWasInstalledAlways == Spec => []CurrentWasInstalled
BY HostInvariant, PTL DEF HostInv

\* Unless another request rewrote the file in between, an application about to
\* be marked successful has its payload in the file and in the service.
THEOREM UndisturbedTakesEffect == Spec => []UndisturbedApplyTakesEffect
BY HostInvariant, PTL DEF HostInv

-----------------------------------------------------------------------------
(***************************************************************************)
(* Refinement of ConfigDeployment.                                         *)
(***************************************************************************)
\* The abstract state depends only on the current rows of a server.
LEMMA SameCurrent ==
    ASSUME NEW s \in Servers,
           \A r : r \in DOMAIN revs' /\ revs'[r].server = s /\ revs'[r].current
                    <=> r \in DOMAIN revs /\ revs[r].server = s /\ revs[r].current,
           \A r \in DOMAIN revs' \cap DOMAIN revs : revs'[r].cfg = revs[r].cfg
    PROVE  CurrentConfigs'[s] = CurrentConfigs[s]
<1> DEFINE C == {q \in RevisionsOf(s) : revs[q].current}
<1>1. C' = C /\ C \subseteq DOMAIN revs' \cap DOMAIN revs
  BY DEF RevisionsOf
<1>2. CurrentConfigs[s] = {revs[r].cfg : r \in C}
  BY DEF CurrentConfigs
<1>3. CurrentConfigs'[s] = {revs'[r].cfg : r \in C'}
  BY DEF CurrentConfigs
<1> HIDE DEF C
<1> QED
  BY <1>1, <1>2, <1>3

LEMMA SameCurrents ==
    ASSUME \A s \in Servers : CurrentConfigs'[s] = CurrentConfigs[s]
    PROVE  CurrentConfigs' = CurrentConfigs
BY DEF CurrentConfigs

LEMMA RevsUnchanged ==
    ASSUME UNCHANGED revs
    PROVE  CurrentConfigs' = CurrentConfigs
BY DEF CurrentConfigs, RevisionsOf

\* Deleting a server retires its current configuration or leaves it behind.
LEMMA DeleteRefines ==
    ASSUME TypeInv, NEW p \in Procs, DeleteServer(p)
    PROVE  [Deployment!Next]_(Deployment!vars)
<1>1. CASE UNCHANGED revs
  BY <1>1, RevsUnchanged DEF DeleteServer, Deployment!vars
<1>2. CASE ~UNCHANGED revs
  <2>1. PICK s \in Servers : revs' = [r \in DOMAIN revs \ RevisionsOf(s) |-> revs[r]]
    BY <1>2 DEF DeleteServer, Live
  <2>2. \A z \in Servers \ {s} : CurrentConfigs'[z] = CurrentConfigs[z]
    <3> TAKE z \in Servers \ {s}
    <3>1. \A r : r \in DOMAIN revs' /\ revs'[r].server = z /\ revs'[r].current
                   <=> r \in DOMAIN revs /\ revs[r].server = z /\ revs[r].current
      BY <2>1 DEF RevisionsOf
    <3> QED
      BY <2>1, <3>1, SameCurrent
  <2>3. CurrentConfigs'[s] = {}
    BY <2>1 DEF CurrentConfigs, RevisionsOf
  <2>4. CurrentConfigs' = [CurrentConfigs EXCEPT ![s] = {}]
    BY <2>2, <2>3 DEF CurrentConfigs
  <2>5. Deployment!Retire(s)
    BY <2>4 DEF Deployment!Retire, DeleteServer
  <2> QED
    BY <2>5 DEF Deployment!Next
<1> QED
  BY <1>1, <1>2

LEMMA CreateRefines ==
    ASSUME TypeInv, NEW p \in Procs, CreateRevision(p)
    PROVE  [Deployment!Next]_(Deployment!vars)
<1>1. PICK r \in RevIds \ used, n \in RevNos, ok \in BOOLEAN :
         revs' = [q \in DOMAIN revs \cup {r} |-> IF q = r THEN NewRow(p, n, ok) ELSE revs[q]]
  BY DEF CreateRevision
<1>2. r \notin DOMAIN revs /\ ~revs'[r].current
  BY <1>1 DEF NewRow, TypeInv, TypeOK
<1>3. ASSUME NEW s \in Servers
      PROVE  CurrentConfigs'[s] = CurrentConfigs[s]
  BY <1>1, <1>2, SameCurrent
<1>4. CurrentConfigs' = CurrentConfigs
  BY <1>3, SameCurrents
<1>5. op[p].payload \in Configs
  BY DEF TypeInv, TypeOK, Op
<1>6. Deployment!Publish(op[p].payload)
  BY <1>4 DEF Deployment!Publish, CreateRevision
<1> QED
  BY <1>5, <1>6 DEF Deployment!Next

LEMMA MarkFailedRefines ==
    ASSUME TypeInv, NEW p \in Procs, MarkFailed(p)
    PROVE  [Deployment!Next]_(Deployment!vars)
<1>1. CASE UNCHANGED revs
  BY <1>1, RevsUnchanged DEF MarkFailed, Deployment!vars
<1>2. CASE ~UNCHANGED revs
  <2>1. DOMAIN revs' = DOMAIN revs
    BY <1>2 DEF MarkFailed
  <2>2. ASSUME NEW r \in DOMAIN revs
        PROVE  /\ revs'[r].server = revs[r].server /\ revs'[r].cfg = revs[r].cfg
               /\ revs'[r].current <=> revs[r].current
    <3>1. revs[r] \in Row
      BY DEF TypeInv, TypeOK
    <3>2. revs'[r] = revs[r] \/ revs'[r] = [revs[r] EXCEPT !.status = "failed"]
      BY <1>2 DEF MarkFailed, FailedRow
    <3> QED
      BY <3>1, <3>2 DEF Row
  <2>3. CurrentConfigs' = CurrentConfigs
    BY <2>1, <2>2, SameCurrent, SameCurrents
  <2> QED
    BY <2>3 DEF MarkFailed, Deployment!vars
<1> QED
  BY <1>1, <1>2

LEMMA MarkAppliedRefines ==
    ASSUME TypeInv, HostInv, NEW p \in Procs, MarkApplied(p)
    PROVE  [Deployment!Next]_(Deployment!vars)
<1>1. CASE UNCHANGED revs
  BY <1>1, RevsUnchanged DEF MarkApplied, Deployment!vars
<1>2. CASE ~UNCHANGED revs
  <2>1. PICK t \in DOMAIN revs : /\ t = op[p].target /\ op[p].pc = "markApplied"
                                 /\ revs' = Applied(t)
    BY <1>2 DEF MarkApplied
  <2>2. PICK s \in Servers : s = revs[t].server
    BY <2>1 DEF TypeInv, TypeOK, Row
  <2>3. DOMAIN revs' = DOMAIN revs
    BY <2>1 DEF Applied
  <2>4. ASSUME NEW r \in DOMAIN revs
        PROVE  /\ revs'[r].server = revs[r].server /\ revs'[r].cfg = revs[r].cfg
               /\ revs'[r].current <=> r = t \/ (revs[r].current /\ revs[r].server # s)
    BY <2>1, <2>2, AppliedRow
  <2>5. \A z \in Servers \ {s} : CurrentConfigs'[z] = CurrentConfigs[z]
    <3> TAKE z \in Servers \ {s}
    <3>1. \A r : r \in DOMAIN revs' /\ revs'[r].server = z /\ revs'[r].current
                   <=> r \in DOMAIN revs /\ revs[r].server = z /\ revs[r].current
      BY <2>2, <2>3, <2>4
    <3> QED
      BY <2>3, <2>4, <3>1, SameCurrent
  <2>6. CurrentConfigs'[s] = {revs[t].cfg}
    <3>1. {q \in RevisionsOf(s) : revs[q].current}' = {t}
      BY <2>1, <2>2, <2>3, <2>4 DEF RevisionsOf
    <3>2. CurrentConfigs'[s] = {revs'[r].cfg : r \in {q \in RevisionsOf(s) : revs[q].current}'}
      BY <2>2 DEF CurrentConfigs
    <3> QED
      BY <2>1, <2>4, <3>1, <3>2
  <2>7. CurrentConfigs' = [CurrentConfigs EXCEPT ![s] = {revs[t].cfg}]
    BY <2>2, <2>5, <2>6 DEF CurrentConfigs
  <2>8. UnitOfOp(p) \in Units /\ revs[t].cfg \in installed[UnitOfOp(p)]
    BY <2>1, ServersAssumption
       DEF HostInv, TargetKnown, PayloadInstalled, UnitOfOp, TypeInv, PickedServer
  <2>9. Deployment!Promote(s)
    BY <2>7, <2>8 DEF Deployment!Promote, MarkApplied
  <2> QED
    BY <2>2, <2>9 DEF Deployment!Next
<1> QED
  BY <1>1, <1>2

LEMMA WriteRefines ==
    ASSUME TypeInv, HostInv, NEW p \in Procs, Writes(UnitOfOp(p))
    PROVE  [Deployment!Next]_(Deployment!vars)
<1>1. PICK q \in Procs : /\ op[q].pc = "write" /\ Install(q)
                         /\ UNCHANGED <<revs, running, published>>
  BY DEF Writes
<1>2. op[q].payload \in published /\ UnitOfOp(q) \in Units
  BY <1>1, ServersAssumption
     DEF HostInv, PayloadPublished, UnitOfOp, TypeInv, PickedServer
<1>3. CurrentConfigs' = CurrentConfigs
  BY <1>1, RevsUnchanged
<1>4. Deployment!Install(UnitOfOp(q))
  BY <1>1, <1>2, <1>3 DEF Deployment!Install, Install
<1> QED
  BY <1>2, <1>4 DEF Deployment!Next

LEMMA RestartRefines ==
    ASSUME TypeInv, NEW u \in Units, Restarts(u)
    PROVE  [Deployment!Next]_(Deployment!vars)
<1>1. CurrentConfigs' = CurrentConfigs
  BY RevsUnchanged DEF Restarts
<1>2. Deployment!Load(u)
  BY <1>1 DEF Deployment!Load, Restarts
<1> QED
  BY <1>2 DEF Deployment!Next

\* Steps that touch neither the revisions nor the host.
LEMMA StutterRefines ==
    ASSUME UNCHANGED <<revs, published, installed, file, running>>
    PROVE  UNCHANGED Deployment!vars
BY RevsUnchanged DEF Deployment!vars

LEMMA StepRefines ==
    ASSUME TypeInv, HostInv, [Next]_vars
    PROVE  [Deployment!Next]_(Deployment!vars)
<1>1. CASE \E p \in Procs : Request(p)
  <2>1. PICK p \in Procs : Request(p)
    BY <1>1
  <2>2. CASE DeleteServer(p)
    BY <2>2, DeleteRefines
  <2> QED
    BY <2>1, <2>2, StutterRefines
       DEF Request, ChangeInbounds, MoveInbound, CreateServer, RenderRequest, ApplyRequest,
           RollbackRequest, RefreshRequest
<1>2. CASE \E p \in Procs : Continue(p)
  <2>1. PICK p \in Procs : Continue(p)
    BY <1>2
  <2>2. CASE CreateRevision(p)
    BY <2>2, CreateRefines
  <2>3. CASE MarkFailed(p)
    BY <2>3, MarkFailedRefines
  <2>4. CASE MarkApplied(p)
    BY <2>4, MarkAppliedRefines
  <2>5. CASE WriteFile(p) \/ (WriteFails(p) /\ Install(p))
    <3>1. CASE WriteFile(p)
      <4>1. op' = Disturb(p, [op EXCEPT ![p] = [op[p] EXCEPT !.pc = "restart"]])
        BY <3>1 DEF WriteFile
      <4> QED
        BY <3>1, <4>1, WriteRefines DEF WriteFile, Writes
    <3>2. CASE WriteFails(p) /\ UNCHANGED <<file, installed>>
      BY <3>2, StutterRefines DEF WriteFails
    <3>3. CASE WriteFails(p) /\ ~UNCHANGED <<file, installed>>
      <4>1. op' = Disturb(p, [op EXCEPT ![p] = [op[p] EXCEPT !.pc = "markFailed",
                                                             !.stage = "write_failed"]])
        BY <3>3 DEF WriteFails
      <4> QED
        BY <3>3, <4>1, WriteRefines DEF WriteFails, Writes
    <3> QED
      BY <2>5, <3>1, <3>2, <3>3
  <2>6. CASE RestartService(p) \/ RestartFails(p)
    <3>1. UnitOfOp(p) \in Units
      BY <2>6, ServersAssumption DEF RestartService, RestartFails, UnitOfOp, TypeInv, PickedServer
    <3>2. CASE UNCHANGED running
      BY <2>6, <3>2, StutterRefines DEF RestartService, RestartFails
    <3>3. CASE ~UNCHANGED running
      <4>1. Restarts(UnitOfOp(p))
        BY <2>6, <3>3 DEF RestartService, RestartFails, Loaded, Restarts
      <4> QED
        BY <3>1, <4>1, RestartRefines
    <3> QED
      BY <3>2, <3>3
  <2> QED
    BY <2>1, <2>2, <2>3, <2>4, <2>5, <2>6, StutterRefines
       DEF Continue, Normalize, BuildInbounds, BuildPolicies, Fetch, CheckConfig,
           WriteFails, QueryFails
<1>3. CASE \E u \in Units : UnitRestarts(u)
  <2>1. PICK u \in Units : UnitRestarts(u)
    BY <1>3
  <2>2. running' = [running EXCEPT ![u] = None] \/ running' = [running EXCEPT ![u] = file[u]]
    BY <2>1 DEF UnitRestarts, Loaded
  <2>3. Restarts(u)
    BY <2>1, <2>2 DEF UnitRestarts, Restarts
  <2> QED
    BY <2>3, RestartRefines
<1>4. CASE \/ \E p \in Procs : Crash(p)
           \/ ChangePolicy \/ SilentChange \/ InstallBinary \/ UNCHANGED vars
  BY <1>4, StutterRefines DEF Crash, ChangePolicy, SilentChange, InstallBinary, vars
<1> QED
  BY <1>1, <1>2, <1>3, <1>4 DEF Next

LEMMA InitRefines ==
    ASSUME Init
    PROVE  Deployment!Init
<1>1. DOMAIN revs = {}
  BY DEF Init
<1>2. \A s \in Servers : CurrentConfigs[s] = {}
  BY <1>1 DEF CurrentConfigs, RevisionsOf
<1>3. CurrentConfigs = [s \in Servers |-> {}]
  BY <1>2 DEF CurrentConfigs
<1> QED
  BY <1>3 DEF Init, Deployment!Init

\* Whatever interleaves, fails or dies: only stored revisions reach a config
\* path, services only load their config path, and only installed content
\* becomes a server's current configuration.
THEOREM WorkflowImplementsDeployment == Spec => ImplementsDeployment
<1>1. Init => Deployment!Init
  BY InitRefines
<1>2. TypeInv /\ HostInv /\ [Next]_vars => [Deployment!Next]_(Deployment!vars)
  BY StepRefines
<1> QED
  BY <1>1, <1>2, TypeInvariant, HostInvariant, PTL
     DEF Spec, ImplementsDeployment, Deployment!Spec

-----------------------------------------------------------------------------
(***************************************************************************)
(* The draft of every change.  What the latest revision of a server does   *)
(* not describe, some request still owes, or the server is in undrafted.   *)
(***************************************************************************)
\* A request on the way to its next draft, and a refresh between two servers.
Stages ==
    \A p \in Procs : /\ op[p].kind = "draft" => op[p].pc \in {"inbounds", "policies", "create"}
                     /\ op[p].pc = "normalize" => op[p].kind = "refresh"

\* A request holds the access part as it is stored, unless it has been overtaken.
ReadKept ==
    \A p \in Procs : op[p].pc \in {"policies", "create"} /\ p \notin overtaken
                        => op[p].payload.access = stored[op[p].server].access

\* p will store the access part of s, and has not read it before the last change.
Owes(p, s) == s \in Due(op[p]) /\ (p \in Renderers({s}) => p \notin overtaken)

Accounted == \A s \in Live \ undrafted : Covered(s) \/ \E p \in Procs : Owes(p, s)

DraftInv == Stages /\ ReadKept /\ Accounted

LEMMA CoveredKept ==
    ASSUME NEW s, stored'[s].access = stored[s].access, RevisionsOf(s)' = RevisionsOf(s),
           \A r \in RevisionsOf(s) : /\ revs'[r].no = revs[r].no
                                     /\ revs'[r].cfg = revs[r].cfg,
           Covered(s)
    PROVE  Covered(s)'
<1>1. ASSUME NEW r, IsLatest(s, r)' PROVE IsLatest(s, r) /\ r \in RevisionsOf(s)
  BY <1>1 DEF IsLatest
<1>2. \A r \in RevisionsOf(s) : r \in DOMAIN revs BY DEF RevisionsOf
<1> QED BY <1>1, <1>2 DEF Covered, Blank

LEMMA DraftOfDue ==
    ASSUME NEW S \in SUBSET Servers
    PROVE  /\ Due(DraftOf(S)) = S /\ DraftOf(S).pc \notin {"normalize", "policies", "create"}
           /\ DraftOf(S).kind = "draft" => DraftOf(S).pc = "inbounds" /\ DraftOf(S).todo = S
BY DEF DraftOf, Due, NoOp

LEMMA NoOpDue == Due(NoOp) = {} /\ NoOp.kind = "none" /\ NoOp.pc = "idle"
BY DEF Due, NoOp

\* What another request sees of a step: nothing, but that its file was rewritten.
SameDraft(q) ==
    /\ op'[q].kind = op[q].kind /\ op'[q].pc = op[q].pc /\ op'[q].server = op[q].server
    /\ op'[q].todo = op[q].todo /\ op'[q].payload = op[q].payload

\* The access part of the servers in S changes, and overtakes every request but p that
\* holds it.
Overtakes(p, S) ==
    /\ \A s \in Servers \ S : stored'[s].access = stored[s].access
    /\ \A q \in Procs \ {p} : q \in overtaken' <=> q \in overtaken \/ q \in Renderers(S)

LEMMA StagesStep ==
    ASSUME Stages, NEW p \in Procs, \A q \in Procs \ {p} : SameDraft(q),
           op'[p].kind = "draft" => op'[p].pc \in {"inbounds", "policies", "create"},
           op'[p].pc = "normalize" => op'[p].kind = "refresh"
    PROVE  Stages'
BY DEF Stages, SameDraft

LEMMA ReadKeptStep ==
    ASSUME TypeInv, ReadKept, NEW p \in Procs, \A q \in Procs \ {p} : SameDraft(q),
           NEW S, Overtakes(p, S),
           op'[p].pc \in {"policies", "create"} /\ p \notin overtaken'
              => op'[p].payload.access = stored'[op'[p].server].access
    PROVE  ReadKept'
<1> SUFFICES ASSUME NEW q \in Procs \ {p}, op'[q].pc \in {"policies", "create"},
                    q \notin overtaken'
             PROVE  op'[q].payload.access = stored'[op'[q].server].access
  BY DEF ReadKept
<1>1. /\ op[q].pc \in {"policies", "create"} /\ op'[q].server = op[q].server
      /\ op'[q].payload.access = op[q].payload.access
  BY DEF SameDraft
<1>2. op[q].server \in Servers /\ q \notin overtaken /\ op[q].server \notin S
  BY <1>1 DEF TypeInv, PickedServer, Overtakes, Renderers
<1> QED BY <1>1, <1>2 DEF ReadKept, Overtakes

\* The servers in S change; of the others p owes what it owed, or they are in undrafted.
LEMMA AccountedStep ==
    ASSUME Accounted, NEW p \in Procs, \A q \in Procs \ {p} : SameDraft(q),
           NEW S, NEW C, Overtakes(p, C), C \subseteq S, Live' \subseteq Servers,
           \A s \in Live' \ S : /\ s \in Live /\ RevisionsOf(s)' = RevisionsOf(s)
                                /\ s \in undrafted => s \in undrafted',
           \A s \in Live' \ S : \A r \in RevisionsOf(s) :
               revs'[r].no = revs[r].no /\ revs'[r].cfg = revs[r].cfg,
           \A s \in Live' \ S : Owes(p, s) => s \in undrafted' \/ Owes(p, s)',
           \A s \in Live' \cap S : s \in undrafted' \/ Covered(s)' \/ Owes(p, s)'
    PROVE  Accounted'
<1> SUFFICES ASSUME NEW s \in Live' \ S, s \notin undrafted'
             PROVE  Covered(s)' \/ \E q \in Procs : Owes(q, s)'
  BY DEF Accounted
<1>1. CASE Covered(s)
  <2>1. stored'[s].access = stored[s].access BY DEF Overtakes
  <2> QED BY <1>1, <2>1, CoveredKept
<1>2. CASE \E q \in Procs \ {p} : Owes(q, s)
  <2>1. PICK q \in Procs \ {p} : Owes(q, s) BY <1>2
  <2>2. Due(op'[q]) = Due(op[q]) BY DEF SameDraft, Due
  <2>3. q \in Renderers({s})' => q \in Renderers({s}) BY DEF SameDraft, Renderers
  <2>4. q \in Renderers({s}) => q \notin Renderers(C) BY DEF Renderers
  <2>5. Due(op[q])' = Due(op'[q]) BY DEF Due
  <2> QED BY <2>1, <2>2, <2>3, <2>4, <2>5 DEF Owes, Overtakes
<1>3. CASE Owes(p, s) BY <1>3
<1> QED BY <1>1, <1>2, <1>3 DEF Accounted

\* A step that changes of the rows only their status, and of the servers only the policies.
LEMMA DraftKept ==
    ASSUME TypeInv, DraftInv, NEW p \in Procs, \A q \in Procs \ {p} : SameDraft(q),
           UNCHANGED srv, Overtakes(p, {}), \A s \in undrafted : s \in undrafted',
           DOMAIN revs' = DOMAIN revs,
           \A r \in DOMAIN revs : /\ revs'[r].server = revs[r].server
                                  /\ revs'[r].no = revs[r].no /\ revs'[r].cfg = revs[r].cfg,
           op'[p].kind = "draft" => op'[p].pc \in {"inbounds", "policies", "create"},
           op'[p].pc = "normalize" => op'[p].kind = "refresh",
           op'[p].pc \in {"policies", "create"} /\ p \notin overtaken'
              => op'[p].payload.access = stored'[op'[p].server].access,
           \A s \in Live : Owes(p, s) => s \in undrafted' \/ Owes(p, s)'
    PROVE  DraftInv'
<1>1. Live' = Live /\ Live \subseteq Servers BY DEF Live
<1>2. \A s : RevisionsOf(s)' = RevisionsOf(s) BY DEF RevisionsOf
<1>3. \A s : \A r \in RevisionsOf(s) : r \in DOMAIN revs BY DEF RevisionsOf
<1>4. Stages' BY StagesStep DEF DraftInv
<1>5. ReadKept' BY ReadKeptStep DEF DraftInv
<1>6. Accounted' BY <1>1, <1>2, <1>3, AccountedStep DEF DraftInv
<1> QED BY <1>4, <1>5, <1>6 DEF DraftInv

\* A request changes the servers in C and drafts those in S; the rest is in undrafted.
LEMMA BeginDrafts ==
    ASSUME TypeInv, DraftInv, NEW p \in Procs, NEW request, NEW S \in SUBSET Servers,
           Begin(p, request, DraftOf(S)), NEW C, Overtakes(p, C), p \notin Renderers(C),
           \A s \in C : s \in S \/ s \in undrafted',
           \A s \in undrafted : s \in undrafted', Live' \subseteq Servers,
           \A s \in Live' \ S : s \in Live /\ RevisionsOf(s)' = RevisionsOf(s),
           \A s \in Live' \ S : \A r \in RevisionsOf(s) :
               revs'[r].no = revs[r].no /\ revs'[r].cfg = revs[r].cfg
    PROVE  DraftInv'
<1>1. op'[p] = DraftOf(S) /\ op[p].pc = "idle" /\ \A q \in Procs \ {p} : SameDraft(q)
  BY DEF Begin, TypeInv, TypeOK, SameDraft
<1>2. Stages' BY <1>1, DraftOfDue, StagesStep DEF DraftInv
<1>3. ReadKept' BY <1>1, DraftOfDue, ReadKeptStep DEF DraftInv
<1>4. \A s : ~Owes(p, s) BY <1>1 DEF Owes, Due, DraftInv, Stages
<1>5. \A s \in S : Owes(p, s)'
  <2>1. Due(op[p])' = S BY <1>1, DraftOfDue DEF Due
  <2>2. \A s : p \notin Renderers({s})' BY <1>1, DraftOfDue DEF Renderers
  <2> QED BY <2>1, <2>2 DEF Owes
<1>6. Accounted'
  <2> DEFINE W == S \cup C
  <2>1. C \subseteq W /\ \A s \in Live' \ W : s \in Live' \ S OBVIOUS
  <2>2. \A s \in Live' \cap W : s \in undrafted' \/ Covered(s)' \/ Owes(p, s)' BY <1>5
  <2> HIDE DEF W
  <2> QED BY <1>1, <1>4, <2>1, <2>2, AccountedStep DEF DraftInv
<1> QED BY <1>2, <1>3, <1>6 DEF DraftInv

\* From the fetch of a revision to its mark nothing is owed, and only rows' states change.
Applying == {"fetch", "check", "write", "restart", "markFailed", "markApplied"}

LEMMA ApplicationMoves ==
    ASSUME TypeInv, NEW p \in Procs, Continue(p), op[p].pc \in Applying
    PROVE  /\ op'[p].kind \in {op[p].kind, "none", "refresh"}
           /\ op'[p].pc \notin {"policies", "create"}
           /\ op'[p].pc = "normalize" => op'[p].kind = "refresh"
           /\ UNCHANGED <<srv, stored>>
<1> DEFINE o == op[p]
<1>0. o \in Op /\ op \in [Procs -> Op] BY DEF TypeInv, TypeOK
<1>1. CASE Finish(p) /\ UNCHANGED <<srv, stored>>
  BY <1>0, <1>1, NoOpDue DEF Finish
<1>2. ASSUME NEW stage \in ApplyErrors, Fail(p, stage), UNCHANGED <<srv, stored>>
      PROVE  op'[p].kind = o.kind /\ op'[p].pc = "markFailed"
  BY <1>0, <1>2 DEF Fail, Op
<1>3. CASE Fetch(p)
  <2>0. UNCHANGED <<srv, stored>> BY <1>3 DEF Fetch
  <2>1. CASE Finish(p) BY <1>1, <2>0, <2>1
  <2>2. CASE \E r \in DOMAIN revs : op' = [op EXCEPT ![p].pc = "check", ![p].target = r,
                                                     ![p].payload = revs[r].cfg]
    <3>1. op'[p].kind = o.kind /\ op'[p].pc = "check" BY <1>0, <2>2 DEF Op
    <3> QED BY <2>0, <3>1
  <2> QED BY <1>3, <2>1, <2>2 DEF Fetch
<1>4. CASE CheckConfig(p)
  <2>1. CASE op' = [op EXCEPT ![p].pc = "write"] BY <1>0, <1>4, <2>1 DEF CheckConfig, Op
  <2> QED BY <1>2, <1>4, <2>1 DEF CheckConfig, ApplyErrors
<1>5. CASE WriteFile(p)
  <2>1. op'[p] = [op[p] EXCEPT !.pc = "restart"] BY <1>0, <1>5 DEF WriteFile, Disturb
  <2> QED BY <1>0, <1>5, <2>1 DEF WriteFile, Op
<1>6. CASE WriteFails(p)
  <2>1. CASE op'[p] = [op[p] EXCEPT !.pc = "markFailed", !.stage = "write_failed"]
    BY <1>0, <1>6, <2>1 DEF WriteFails, Op
  <2>2. CASE op' = Disturb(p, [op EXCEPT ![p].pc = "markFailed", ![p].stage = "write_failed"])
    BY <1>0, <2>1, <2>2 DEF Disturb
  <2> QED BY <1>2, <1>6, <2>2 DEF WriteFails, ApplyErrors
<1>7. CASE RestartService(p) BY <1>0, <1>7 DEF RestartService, Op
<1>8. CASE RestartFails(p) BY <1>2, <1>8 DEF RestartFails, ApplyErrors
<1>9. CASE MarkFailed(p) BY <1>1, <1>9 DEF MarkFailed
<1>10. CASE MarkApplied(p)
  <2>1. CASE op' = [op EXCEPT ![p] = [NoOp EXCEPT !.kind = "refresh", !.pc = "normalize",
                                                  !.todo = o.todo]]
    BY <1>0, <1>10, <2>1 DEF MarkApplied, NoOp
  <2> QED BY <1>1, <1>10, <2>1 DEF MarkApplied, AfterApply
<1>11. CASE QueryFails(p) BY <1>1, <1>11 DEF QueryFails, GiveUp
<1>12. ~(Normalize(p) \/ BuildInbounds(p) \/ BuildPolicies(p) \/ CreateRevision(p))
  BY DEF Applying, Normalize, BuildInbounds, BuildPolicies, CreateRevision
<1> QED
  BY <1>3, <1>4, <1>5, <1>6, <1>7, <1>8, <1>9, <1>10, <1>11, <1>12 DEF Continue

LEMMA ApplicationKeepsRows ==
    ASSUME TypeInv, NEW p \in Procs, Continue(p), op[p].pc \in Applying
    PROVE  /\ DOMAIN revs' = DOMAIN revs
           /\ \A r \in DOMAIN revs : /\ revs'[r].server = revs[r].server
                                     /\ revs'[r].no = revs[r].no /\ revs'[r].cfg = revs[r].cfg
<1>0. revs \in [DOMAIN revs -> Row] BY DEF TypeInv, TypeOK
<1>1. CASE UNCHANGED revs BY <1>1
<1>2. CASE MarkFailed(p) BY <1>0, <1>1, <1>2 DEF MarkFailed, FailedRow, Row
<1>3. CASE MarkApplied(p)
  <2>1. CASE op[p].target \in DOMAIN revs /\ revs' = Applied(op[p].target)
    BY <2>1, AppliedRow
  <2> QED BY <1>1, <1>3, <2>1 DEF MarkApplied
<1> QED
  BY <1>1, <1>2, <1>3
     DEF Continue, Applying, Normalize, BuildInbounds, BuildPolicies, CreateRevision, QueryFails,
         Fetch, CheckConfig, WriteFile, WriteFails, RestartService, RestartFails

\* A step of p leaves to the other requests their drafts.
LEMMA OthersSame ==
    ASSUME TypeInv, NEW p \in Procs, Continue(p) \/ Crash(p)
    PROVE  \A q \in Procs \ {p} : SameDraft(q)
<1> SUFFICES ASSUME NEW q \in Procs \ {p} PROVE SameDraft(q)
  OBVIOUS
<1>0. op \in [Procs -> Op] /\ op[q] \in Op BY DEF TypeInv, TypeOK
<1>1. CASE op'[q] = op[q] BY <1>1 DEF SameDraft
<1>2. CASE op'[q] = [op[q] EXCEPT !.disturbed = TRUE] BY <1>0, <1>2 DEF SameDraft, Op
<1>3. ASSUME NEW f, op' = Disturb(p, f), f[q] = op[q] PROVE SameDraft(q)
  BY <1>1, <1>2, <1>3 DEF Disturb
<1>4. CASE WriteFile(p) \/ WriteFails(p)
  <2>1. CASE op' = Disturb(p, [op EXCEPT ![p].pc = "restart"]) BY <1>0, <1>3, <2>1
  <2>2. CASE op' = Disturb(p, [op EXCEPT ![p].pc = "markFailed", ![p].stage = "write_failed"])
    BY <1>0, <1>3, <2>2
  <2> QED BY <1>0, <1>1, <1>4, <2>1, <2>2 DEF WriteFile, WriteFails, Fail
<1>5. CASE ~(WriteFile(p) \/ WriteFails(p))
  BY <1>0, <1>1, <1>5
     DEF Continue, Normalize, BuildInbounds, BuildPolicies, CreateRevision, AfterCreate, Fetch,
         CheckConfig, RestartService, RestartFails, Fail, MarkFailed, MarkApplied, AfterApply,
         QueryFails, Crash, GiveUp, Finish
<1> QED BY <1>4, <1>5

LEMMA RequestDrafts ==
    ASSUME TypeInv, DraftInv, NEW p \in Procs, Request(p)
    PROVE  DraftInv'
<1> USE DEF TypeInv, TypeOK
<1>0. Live \subseteq Servers BY DEF Live
<1>1. ASSUME NEW S, AccessRevised(S), op[p].pc = "idle"
      PROVE  Overtakes(p, S) /\ p \notin Renderers(S)
  BY <1>1 DEF AccessRevised, Overtakes, Renderers
<1>2. ASSUME UNCHANGED <<stored, overtaken>>
      PROVE  Overtakes(p, {}) /\ p \notin Renderers({})
  BY <1>2 DEF Overtakes, Renderers
<1>3. ASSUME UNCHANGED <<srv, revs>>
      PROVE  /\ Live' = Live /\ \A s : RevisionsOf(s)' = RevisionsOf(s)
             /\ \A r : revs'[r].no = revs[r].no /\ revs'[r].cfg = revs[r].cfg
  BY <1>3 DEF Live, RevisionsOf
<1>4. CASE ChangeInbounds(p)
  <2>1. PICK S \in SUBSET Live \ {{}} : Begin(p, "change", DraftOf(S)) /\ AccessRevised(S)
    BY <1>4 DEF ChangeInbounds
  <2>2. UNCHANGED <<srv, revs, undrafted>> /\ op[p].pc = "idle"
    BY <1>4, <2>1 DEF ChangeInbounds, Begin
  <2>3. S \in SUBSET Servers BY <1>0
  <2> QED BY <1>0, <1>1, <1>3, <2>1, <2>2, <2>3, BeginDrafts
<1>5. CASE MoveInbound(p)
  <2>1. PICK from \in Live, to \in Live :
          /\ Begin(p, "move", DraftOf({to})) /\ AccessRevised({from, to})
          /\ undrafted' = undrafted \cup {from}
    BY <1>5 DEF MoveInbound
  <2>2. UNCHANGED <<srv, revs>> /\ op[p].pc = "idle" BY <1>5, <2>1 DEF MoveInbound, Begin
  <2>3. {to} \in SUBSET Servers BY <1>0
  <2> QED BY <1>0, <1>1, <1>3, <2>1, <2>2, <2>3, BeginDrafts
<1>6. CASE CreateServer(p)
  <2>1. PICK s \in Servers : srv' = [srv EXCEPT ![s] = "live"] /\ Begin(p, "create", DraftOf({s}))
    BY <1>6 DEF CreateServer
  <2>2. UNCHANGED <<stored, revs, overtaken, undrafted>>
    BY <1>6 DEF CreateServer, drafting
  <2>3. Live' = Live \cup {s} BY <2>1 DEF Live
  <2>4. \A t : RevisionsOf(t)' = RevisionsOf(t) BY <2>2 DEF RevisionsOf
  <2>5. {s} \in SUBSET Servers /\ Live' \subseteq Servers BY <1>0, <2>3
  <2> QED BY <1>2, <2>1, <2>2, <2>3, <2>4, <2>5, BeginDrafts
<1>7. CASE DeleteServer(p)
  <2>1. PICK s \in Live, cascade \in BOOLEAN :
          /\ srv' = [srv EXCEPT ![s] = "deleted"]
          /\ revs' = IF cascade THEN [r \in DOMAIN revs \ RevisionsOf(s) |-> revs[r]]
                     ELSE revs
          /\ Begin(p, "delete", DraftOf(Live \ {s}))
    BY <1>7 DEF DeleteServer
  <2>2. Live' = Live \ {s} BY <2>1 DEF Live
  <2>3. UNCHANGED <<stored, overtaken, undrafted>> BY <1>7 DEF DeleteServer, drafting
  <2>4. Live \ {s} \in SUBSET Servers BY <1>0
  <2> QED BY <1>2, <2>1, <2>2, <2>3, <2>4, BeginDrafts
<1>8. CASE RenderRequest(p)
  <2>1. PICK s \in Live : Begin(p, "render", DraftOf({s})) BY <1>8 DEF RenderRequest
  <2>2. UNCHANGED <<srv, stored, revs, overtaken, undrafted>>
    BY <1>8 DEF RenderRequest, drafting
  <2>3. {s} \in SUBSET Servers BY <1>0
  <2> QED BY <1>0, <1>2, <1>3, <2>1, <2>2, <2>3, BeginDrafts
<1>9. CASE ApplyRequest(p) \/ RollbackRequest(p) \/ RefreshRequest(p)
  <2>1. UNCHANGED <<srv, stored, revs, overtaken, undrafted>> /\ op[p].pc = "idle"
    BY <1>9 DEF ApplyRequest, RollbackRequest, RefreshRequest, Begin, drafting
  <2>2. /\ op'[p].kind \in {"apply", "rollback", "refresh"}
        /\ op'[p].pc \in {"fetch", "inbounds", "normalize"}
        /\ op'[p].pc = "normalize" => op'[p].kind = "refresh"
    <3>1. CASE ApplyRequest(p) BY <3>1 DEF ApplyRequest, Begin, NoOp
    <3>2. CASE RollbackRequest(p) BY <3>2 DEF RollbackRequest, Begin, NoOp
    <3>3. CASE RefreshRequest(p) BY <3>3 DEF RefreshRequest, Begin, NoOp
    <3> QED BY <1>9, <3>1, <3>2, <3>3
  <2>3. \A q \in Procs \ {p} : SameDraft(q)
    BY <1>9 DEF ApplyRequest, RollbackRequest, RefreshRequest, Begin, SameDraft
  <2>4. \A s : ~Owes(p, s) BY <2>1 DEF Owes, Due, DraftInv, Stages
  <2>5. op'[p].kind # "draft" /\ op'[p].pc \notin {"policies", "create"} BY <2>2
  <2> QED BY <1>2, <2>1, <2>2, <2>3, <2>4, <2>5, DraftKept
<1> QED BY <1>4, <1>5, <1>6, <1>7, <1>8, <1>9 DEF Request

LEMMA GiveUpDrafts ==
    ASSUME TypeInv, DraftInv, NEW p \in Procs, QueryFails(p) \/ Crash(p)
    PROVE  DraftInv'
<1>1. GiveUp(p) /\ UNCHANGED <<srv, stored, revs, overtaken>> BY DEF QueryFails, Crash
<1>2. op'[p] = NoOp BY <1>1 DEF GiveUp, Finish, TypeInv, TypeOK
<1>3. \A q \in Procs \ {p} : SameDraft(q) BY <1>1 DEF GiveUp, Finish, SameDraft, TypeInv, TypeOK
<1>4. \A s : Owes(p, s) => s \in undrafted' BY <1>1 DEF GiveUp, Owes
<1>5. Overtakes(p, {}) /\ \A s \in undrafted : s \in undrafted'
  BY <1>1 DEF Overtakes, Renderers, GiveUp
<1>6. /\ op'[p].kind # "draft" /\ op'[p].pc \notin {"normalize", "policies", "create"}
  BY <1>2, NoOpDue
<1> QED BY <1>1, <1>3, <1>4, <1>5, <1>6, DraftKept

LEMMA NormalizeDrafts ==
    ASSUME TypeInv, DraftInv, NEW p \in Procs, Normalize(p)
    PROVE  DraftInv'
<1> DEFINE o == op[p]
<1>0. o \in Op /\ op \in [Procs -> Op] /\ Live \subseteq Servers
  BY DEF TypeInv, TypeOK, Live
<1>1. PICK s \in o.todo :
        /\ IF s \in Live THEN AccessRevised({s}) ELSE UNCHANGED <<stored, overtaken>>
        /\ op' = [op EXCEPT ![p].pc = "inbounds", ![p].server = s]
  BY DEF Normalize
<1>2. o.kind = "refresh" /\ o.pc = "normalize" BY DEF Normalize, DraftInv, Stages
<1>3. op'[p].kind = "refresh" /\ op'[p].pc = "inbounds" /\ op'[p].server = s
  BY <1>0, <1>1, <1>2 DEF Op
<1>4. UNCHANGED <<srv, revs, undrafted>> BY DEF Normalize
<1>5. Live' = Live /\ \A t : RevisionsOf(t)' = RevisionsOf(t) BY <1>4 DEF Live, RevisionsOf
<1>6. \A q \in Procs \ {p} : SameDraft(q) BY OthersSame DEF Continue
<1>7. PICK C \in SUBSET {s} : Overtakes(p, C)
  <2>1. CASE s \in Live
    <3>1. Overtakes(p, {s}) BY <1>1, <2>1 DEF AccessRevised, Overtakes
    <3> QED BY <3>1
  <2>2. CASE s \notin Live
    <3>1. Overtakes(p, {}) BY <1>1, <2>2 DEF Overtakes, Renderers
    <3> QED BY <3>1
  <2> QED BY <2>1, <2>2
<1>8. \A t : ~Owes(p, t) BY <1>2 DEF Owes, Due
<1>9. Owes(p, s)'
  <2>1. Due(op[p])' = {s} BY <1>3 DEF Due
  <2>2. p \notin Renderers({s})' BY <1>3 DEF Renderers
  <2> QED BY <2>1, <2>2 DEF Owes
<1>10. Stages' BY <1>3, <1>6, StagesStep DEF DraftInv
<1>11. ReadKept' BY <1>3, <1>6, <1>7, ReadKeptStep DEF DraftInv
<1>12. Accounted'
  BY <1>0, <1>4, <1>5, <1>6, <1>7, <1>8, <1>9, AccountedStep DEF DraftInv
<1> QED BY <1>10, <1>11, <1>12 DEF DraftInv

LEMMA BuildDrafts ==
    ASSUME TypeInv, DraftInv, NEW p \in Procs, BuildInbounds(p) \/ BuildPolicies(p)
    PROVE  DraftInv'
<1> DEFINE o == op[p]
<1>0. /\ o \in Op /\ op \in [Procs -> Op] /\ stored \in [Servers -> Configs]
      /\ Live \subseteq Servers
  BY DEF TypeInv, TypeOK, Live
<1>1. UNCHANGED <<srv, stored, revs>> BY DEF BuildInbounds, BuildPolicies
<1>2. \A q \in Procs \ {p} : SameDraft(q) BY OthersSame DEF Continue
<1>3. CASE BuildInbounds(p)
  <2>1. PICK s \in NextServers(p) :
          IF s \in Live
          THEN /\ op' = [op EXCEPT ![p].pc = "policies", ![p].server = s,
                                   ![p].payload.access = stored[s].access]
               /\ UNCHANGED undrafted
          ELSE GiveUp(p)
    BY <1>3 DEF BuildInbounds
  <2>2. o.pc = "inbounds" /\ overtaken' = overtaken \ {p} BY <1>3 DEF BuildInbounds
  <2>3. Overtakes(p, {}) BY <1>1, <2>2 DEF Overtakes, Renderers
  <2>4. CASE s \in Live
    <3>1. /\ op'[p].kind = o.kind /\ op'[p].pc = "policies" /\ op'[p].server = s
          /\ op'[p].todo = o.todo /\ op'[p].payload.access = stored[s].access
      BY <1>0, <2>1, <2>4 DEF Op, Configs
    <3>2. Due(op'[p]) = Due(o) BY <2>1, <2>2, <3>1 DEF Due, NextServers
    <3>3. Due(op[p])' = Due(op'[p]) BY DEF Due
    <3>4. \A t : Owes(p, t) => Owes(p, t)' BY <2>2, <3>2, <3>3 DEF Owes
    <3>5. UNCHANGED undrafted BY <2>1, <2>4
    <3> QED BY <1>1, <1>2, <2>3, <3>1, <3>4, <3>5, DraftKept
  <2>5. CASE s \notin Live
    <3>1. GiveUp(p) BY <2>1, <2>5
    <3>2. op'[p] = NoOp BY <1>0, <3>1 DEF GiveUp, Finish
    <3>3. \A t : Owes(p, t) => t \in undrafted' BY <3>1 DEF GiveUp, Owes
    <3>4. \A t \in undrafted : t \in undrafted' BY <3>1 DEF GiveUp
    <3>5. op'[p].kind # "draft" /\ op'[p].pc \notin {"normalize", "policies", "create"}
      BY <3>2, NoOpDue
    <3> QED BY <1>1, <1>2, <2>3, <3>3, <3>4, <3>5, DraftKept
  <2> QED BY <2>4, <2>5
<1>4. CASE BuildPolicies(p)
  <2>1. o.pc = "policies" /\ UNCHANGED <<overtaken, undrafted>>
    BY <1>4 DEF BuildPolicies, drafting
  <2>2. /\ op'[p].kind = o.kind /\ op'[p].pc = "create" /\ op'[p].server = o.server
        /\ op'[p].todo = o.todo /\ op'[p].payload.access = o.payload.access
    <3>1. PICK v \in 0..MaxPolicy :
            op' = [op EXCEPT ![p].pc = "create", ![p].payload.policy = v]
      BY <1>4 DEF BuildPolicies
    <3> QED BY <1>0, <3>1 DEF Op, Configs
  <2>3. Due(op'[p]) = Due(o) BY <2>1, <2>2 DEF Due
  <2>4. Due(op[p])' = Due(op'[p]) BY DEF Due
  <2>5. \A t : p \in Renderers({t})' <=> p \in Renderers({t}) BY <2>1, <2>2 DEF Renderers
  <2>6. \A t : Owes(p, t) => Owes(p, t)' BY <2>1, <2>3, <2>4, <2>5 DEF Owes
  <2>7. p \notin overtaken' => op'[p].payload.access = stored'[op'[p].server].access
    BY <1>1, <2>1, <2>2 DEF DraftInv, ReadKept
  <2>8. Overtakes(p, {}) BY <1>1, <2>1 DEF Overtakes, Renderers
  <2> QED BY <1>1, <1>2, <2>1, <2>2, <2>6, <2>7, <2>8, DraftKept
<1> QED BY <1>3, <1>4

\* The new revision is the latest; it covers its server unless p has been overtaken.
LEMMA CreateDrafts ==
    ASSUME TypeInv, DraftInv, NEW p \in Procs, CreateRevision(p)
    PROVE  DraftInv'
<1> DEFINE o == op[p]
<1>0. /\ o \in Op /\ op \in [Procs -> Op] /\ revs \in [DOMAIN revs -> Row]
      /\ Live \subseteq Servers
  BY DEF TypeInv, TypeOK, Live
<1>1. PICK t \in Servers : t = o.server BY DEF CreateRevision, TypeInv, PickedServer
<1>2. PICK r \in RevIds \ used, n \in RevNos, ok \in BOOLEAN :
        /\ IsNextNo(t, n)
        /\ revs' = [q \in DOMAIN revs \cup {r} |->
                      IF q = r THEN NewRow(p, n, ok) ELSE revs[q]]
        /\ AfterCreate(p, r)
  BY <1>1 DEF CreateRevision
<1>3. /\ o.pc = "create" /\ UNCHANGED <<srv, stored, overtaken>> /\ r \notin DOMAIN revs
      /\ undrafted' = IF p \in overtaken THEN undrafted \cup {t} ELSE undrafted \ {t}
  BY <1>1 DEF CreateRevision, TypeInv, TypeOK
<1>4. DOMAIN revs' = DOMAIN revs \cup {r} /\ \A q \in DOMAIN revs : revs'[q] = revs[q]
  BY <1>2, <1>3
<1>5. revs'[r].server = t /\ revs'[r].no = n /\ revs'[r].cfg = o.payload
  BY <1>1, <1>2 DEF NewRow
<1>6. RevisionsOf(t)' # {} /\ \A q : IsLatest(t, q)' => q = r
  <2>1. r \in RevisionsOf(t)' BY <1>4, <1>5 DEF RevisionsOf
  <2>2. ASSUME NEW q, IsLatest(t, q)', q # r PROVE FALSE
    <3>1. q \in DOMAIN revs' /\ revs'[q].server = t /\ n <= revs'[q].no
      BY <1>5, <2>1, <2>2 DEF IsLatest, RevisionsOf
    <3>2. q \in DOMAIN revs /\ revs[q].server = t /\ n <= revs[q].no
      BY <1>4, <2>2, <3>1
    <3>3. revs[q].no < n BY <1>2, <3>2 DEF IsNextNo, RevisionsOf
    <3>4. revs[q].no \in Nat /\ n \in Nat BY <1>0, <3>2, BoundsAssumption DEF Row, RevNos
    <3> QED BY <3>2, <3>3, <3>4
  <2> QED BY <2>1, <2>2
<1>7. p \notin overtaken => Covered(t)'
  <2>1. ASSUME p \notin overtaken PROVE Covered(t)'
    <3>1. o.payload.access = stored[t].access BY <1>1, <1>3, <2>1 DEF DraftInv, ReadKept
    <3> QED BY <1>3, <1>5, <1>6, <3>1 DEF Covered
  <2> QED BY <2>1
<1>8. ASSUME NEW s \in Live' \ {t}
      PROVE  /\ RevisionsOf(s)' = RevisionsOf(s)
             /\ \A q \in RevisionsOf(s) : revs'[q] = revs[q]
  BY <1>3, <1>4, <1>5, <1>8 DEF RevisionsOf
<1> DEFINE rest == o.todo \ {t}
<1>9. /\ Due(op'[p]) = IF o.kind = "draft" THEN rest ELSE {}
      /\ op'[p].kind = "draft" => op'[p].pc = "inbounds"
      /\ op'[p].pc \notin {"normalize", "policies", "create"}
  <2>1. CASE o.kind # "draft"
    <3>1. op'[p].pc = "fetch" /\ op'[p].kind = o.kind
      BY <1>0, <1>2, <2>1 DEF AfterCreate, Op
    <3>2. Due(op'[p]) = {} BY <2>1, <3>1 DEF Due
    <3> QED BY <2>1, <3>1, <3>2
  <2>2. CASE o.kind = "draft" /\ rest # {}
    <3>1. op'[p] = DraftOf(rest) BY <1>0, <1>1, <1>2, <2>2 DEF AfterCreate
    <3>2. rest \in SUBSET Servers BY <1>0 DEF Op
    <3> QED BY <2>2, <3>1, <3>2, DraftOfDue
  <2>3. CASE o.kind = "draft" /\ rest = {}
    <3>1. op'[p] = NoOp BY <1>0, <1>1, <1>2, <2>3 DEF AfterCreate, Finish
    <3> QED BY <2>3, <3>1, NoOpDue
  <2> QED BY <2>1, <2>2, <2>3
<1>10. \A s \in Due(o) : s = t \/ s \in Due(op'[p])
  <2>1. CASE o.kind = "draft" BY <1>9, <2>1 DEF Due
  <2>2. CASE o.kind # "draft" BY <1>1, <2>2 DEF Due
  <2> QED BY <2>1, <2>2
<1>11. \A s : s # t /\ Owes(p, s) => Owes(p, s)'
  <2>1. Due(op[p])' = Due(op'[p]) BY DEF Due
  <2>2. \A s : p \notin Renderers({s})' BY <1>9 DEF Renderers
  <2> QED BY <1>10, <2>1, <2>2 DEF Owes
<1>12. \A q \in Procs \ {p} : SameDraft(q) BY OthersSame DEF Continue
<1>13. Overtakes(p, {}) BY <1>3 DEF Overtakes, Renderers
<1>14. Live' = Live BY <1>3 DEF Live
<1>15. Stages' BY <1>9, <1>12, StagesStep DEF DraftInv
<1>16. ReadKept' BY <1>9, <1>12, <1>13, ReadKeptStep DEF DraftInv
<1>17. Accounted'
  <2> DEFINE S == {t}  C == {}
  <2>1. \A s \in Live' \ S : /\ s \in Live /\ RevisionsOf(s)' = RevisionsOf(s)
                             /\ s \in undrafted => s \in undrafted'
    BY <1>3, <1>8, <1>14
  <2>2. \A s \in Live' \ S : \A q \in RevisionsOf(s) :
           revs'[q].no = revs[q].no /\ revs'[q].cfg = revs[q].cfg
    BY <1>8
  <2>3. \A s \in Live' \ S : Owes(p, s) => s \in undrafted' \/ Owes(p, s)' BY <1>11
  <2>4. \A s \in Live' \cap S : s \in undrafted' \/ Covered(s)' \/ Owes(p, s)'
    <3>1. t \in undrafted' \/ Covered(t)' BY <1>3, <1>7
    <3> QED BY <3>1
  <2>5. C \subseteq S /\ Overtakes(p, C) BY <1>13
  <2>6. Accounted /\ Live' \subseteq Servers BY <1>0, <1>14 DEF DraftInv
  <2> HIDE DEF S, C
  <2> QED BY <1>12, <2>1, <2>2, <2>3, <2>4, <2>5, <2>6, AccountedStep
<1> QED BY <1>15, <1>16, <1>17 DEF DraftInv

LEMMA ContinueDrafts ==
    ASSUME TypeInv, DraftInv, NEW p \in Procs, Continue(p)
    PROVE  DraftInv'
<1>1. CASE Normalize(p) BY <1>1, NormalizeDrafts
<1>2. CASE BuildInbounds(p) \/ BuildPolicies(p) BY <1>2, BuildDrafts
<1>3. CASE CreateRevision(p) BY <1>3, CreateDrafts
<1>4. CASE QueryFails(p) BY <1>4, GiveUpDrafts
<1>5. CASE op[p].pc \in Applying /\ ~QueryFails(p)
  <2>1. op[p].kind # "draft" /\ Due(op[p]) = {}
    BY <1>5 DEF Applying, DraftInv, Stages, Due
  <2>2. /\ op'[p].kind # "draft" /\ op'[p].pc \notin {"policies", "create"}
        /\ op'[p].pc = "normalize" => op'[p].kind = "refresh"
        /\ UNCHANGED <<srv, stored>>
    BY <1>5, <2>1, ApplicationMoves
  <2>3. UNCHANGED <<overtaken, undrafted>>
    BY <1>5 DEF Continue, Applying, Normalize, BuildInbounds, BuildPolicies, CreateRevision, Fetch,
                CheckConfig, WriteFile, WriteFails, RestartService, RestartFails, MarkFailed,
                MarkApplied, drafting
  <2>4. Overtakes(p, {}) BY <2>2, <2>3 DEF Overtakes, Renderers
  <2>5. \A s : ~Owes(p, s) BY <2>1 DEF Owes
  <2>6. \A q \in Procs \ {p} : SameDraft(q) BY OthersSame
  <2> QED BY <1>5, <2>2, <2>3, <2>4, <2>5, <2>6, ApplicationKeepsRows, DraftKept
<1> QED
  BY <1>1, <1>2, <1>3, <1>4, <1>5
     DEF Continue, Applying, Fetch, CheckConfig, WriteFile, WriteFails, RestartService,
         RestartFails, MarkFailed, MarkApplied

\* The clock, the host and the handlers that draft nothing.
LEMMA OutsideDrafts ==
    ASSUME TypeInv, DraftInv,
           \/ \E u \in Units : UnitRestarts(u)
           \/ ChangePolicy \/ SilentChange \/ InstallBinary \/ UNCHANGED vars
    PROVE  DraftInv'
<1>0. UNCHANGED <<srv, revs, op>> /\ Live \subseteq Servers /\ op \in [Procs -> Op]
  BY DEF UnitRestarts, ChangePolicy, SilentChange, InstallBinary, vars, Live, TypeInv, TypeOK
<1>1. PICK p \in Procs : TRUE BY ServersAssumption
<1>2. \A q \in Procs : SameDraft(q) BY <1>0 DEF SameDraft
<1>3. /\ Live' = Live /\ \A t : RevisionsOf(t)' = RevisionsOf(t)
      /\ \A q \in Procs : Due(op[q])' = Due(op[q])
      /\ \A S : Renderers(S)' = Renderers(S)
  BY <1>0 DEF Live, RevisionsOf, Due, Renderers
<1>4. CASE SilentChange
  <2>1. PICK S \in SUBSET Live : AccessRevised(S) /\ undrafted' = undrafted \cup S
    BY <1>4 DEF SilentChange
  <2>2. \A s \in Servers \ S : stored'[s].access = stored[s].access
    BY <2>1 DEF AccessRevised
  <2>3. overtaken' = overtaken \cup Renderers(S) BY <2>1 DEF AccessRevised
  <2>4. Overtakes(p, S) BY <2>2, <2>3 DEF Overtakes
  <2>5. Stages' BY <1>0 DEF DraftInv, Stages
  <2>6. ReadKept'
    <3> SUFFICES ASSUME NEW q \in Procs, op[q].pc \in {"policies", "create"}, q \notin overtaken'
                 PROVE  op[q].payload.access = stored'[op[q].server].access
      BY <1>0 DEF ReadKept
    <3>1. op[q].server \in Servers \ S /\ q \notin overtaken
      BY <2>3 DEF TypeInv, PickedServer, Renderers
    <3> QED BY <2>2, <3>1 DEF DraftInv, ReadKept
  <2>7. \A s \in Live' \ S : Owes(p, s) => Owes(p, s)'
    <3> SUFFICES ASSUME NEW s \in Live' \ S, Owes(p, s) PROVE Owes(p, s)' OBVIOUS
    <3>1. p \in Renderers({s}) => p \notin Renderers(S) BY DEF Renderers
    <3> QED BY <1>3, <2>3, <3>1 DEF Owes
  <2>8. Accounted'
    BY <1>0, <1>2, <1>3, <2>1, <2>4, <2>7, AccountedStep DEF DraftInv
  <2> QED BY <2>5, <2>6, <2>8 DEF DraftInv
<1>5. CASE ~SilentChange
  <2>1. UNCHANGED <<overtaken, undrafted>>
    BY <1>5 DEF UnitRestarts, ChangePolicy, InstallBinary, vars, drafting
  <2>2. \A s \in Servers : stored'[s].access = stored[s].access
    BY <1>5 DEF UnitRestarts, ChangePolicy, InstallBinary, vars, TypeInv, TypeOK, Configs
  <2>3. Overtakes(p, {}) BY <2>1, <2>2 DEF Overtakes, Renderers
  <2>4. \A s : Owes(p, s) => Owes(p, s)' BY <1>3, <2>1 DEF Owes
  <2>5. op[p].pc \in {"policies", "create"} /\ p \notin overtaken'
          => op[p].payload.access = stored'[op[p].server].access
    BY <2>1, <2>2 DEF DraftInv, ReadKept, TypeInv, PickedServer
  <2>6. /\ op[p].kind = "draft" => op[p].pc \in {"inbounds", "policies", "create"}
        /\ op[p].pc = "normalize" => op[p].kind = "refresh"
    BY DEF DraftInv, Stages
  <2> QED BY <1>0, <1>2, <2>1, <2>3, <2>4, <2>5, <2>6, DraftKept
<1> QED BY <1>4, <1>5

\* However many requests change, render, apply, fail and die at once: between requests the
\* latest revision of every server outside undrafted describes its inbounds and users as
\* they are stored.
THEOREM DraftCoversInboundsAlways == Spec => []DraftCoversInbounds
<1>1. Init => DraftInv
  <2> SUFFICES ASSUME Init PROVE DraftInv OBVIOUS
  <2>1. /\ \A p \in Procs : op[p] = NoOp
        /\ \A s \in Servers : stored[s] = Blank /\ DOMAIN revs = {}
    BY DEF Init
  <2>2. \A s \in Live : Covered(s) BY <2>1 DEF Covered, RevisionsOf, Live
  <2> QED BY <2>1, <2>2, NoOpDue DEF DraftInv, Stages, ReadKept, Accounted
<1>2. TypeInv /\ DraftInv /\ [Next]_vars => DraftInv'
  BY RequestDrafts, ContinueDrafts, GiveUpDrafts, OutsideDrafts DEF Next
<1>3. DraftInv => DraftCoversInbounds
  BY DEF DraftCoversInbounds, Quiet, DraftInv, Stages, Accounted, Owes, Due
<1> QED BY <1>1, <1>2, <1>3, TypeInvariant, PTL DEF Spec

-----------------------------------------------------------------------------
(***************************************************************************)
(* Requests that run one after the other on one server.                    *)
(***************************************************************************)
\* One request at a time on the one server, and no failure but that of the check.
SingleServer ==
    /\ \A p, q \in Procs : p = q
    /\ \A s, t \in Servers : s = t
    /\ Faults \subseteq {"check"}

NoneCurrent == \A r \in DOMAIN revs : ~revs[r].current

Shown == \A s \in Live, r \in DOMAIN revs : IsCurrent(s, r) => file[UnitOf[s]] = revs[r].cfg

\* Revisions are of servers that have been created.
Hosted(o) ==
    /\ \A r \in DOMAIN revs : srv[revs[r].server] # "absent"
    /\ o.pc \notin {"idle", "normalize", "inbounds"} => srv[o.server] # "absent"

\* What a request knows of the revision it applies: before the binary is there nothing is
\* current, and afterwards the check has accepted what is written.
Taking(o) ==
    /\ NoneCurrent \/ binary
    /\ o.pc \in {"check", "write", "restart", "markApplied"} =>
          o.target \in DOMAIN revs /\ revs[o.target].cfg = o.payload
    /\ o.pc \in {"write", "restart"} => NoneCurrent \/ o.payload \in Valid
    /\ o.pc \in {"restart", "markApplied"} => file[UnitOf[o.server]] = o.payload
    /\ o.pc = "markApplied" => binary
    /\ o.pc \notin {"restart", "markApplied"} => Shown

DiskInv == \A p \in Procs : Hosted(op[p]) /\ Taking(op[p])

\* A step that makes no row current and leaves the file alone.
LEMMA ShownKept ==
    ASSUME \A s \in Live' : s \in Live, file' = file,
           \A r \in DOMAIN revs' : revs'[r].current =>
              /\ r \in DOMAIN revs /\ revs[r].current
              /\ revs'[r].cfg = revs[r].cfg /\ revs'[r].server = revs[r].server
    PROVE  /\ Shown => Shown'
           /\ NoneCurrent => NoneCurrent'
BY DEF Shown, NoneCurrent, IsCurrent, RevisionsOf

LEMMA RequestTakes ==
    ASSUME SingleServer, TypeInv, NEW p \in Procs, Hosted(op[p]), Taking(op[p]), Request(p)
    PROVE  Hosted(op[p])' /\ Taking(op[p])'
<1>0. op \in [Procs -> Op] /\ revs \in [DOMAIN revs -> Row] BY DEF TypeInv, TypeOK
<1>1. op[p].pc = "idle" /\ UNCHANGED <<file, binary>>
  BY DEF Request, ChangeInbounds, MoveInbound, CreateServer, DeleteServer, RenderRequest,
         ApplyRequest, RollbackRequest, RefreshRequest, Begin
<1>2. /\ op'[p].pc \in {"idle", "inbounds", "fetch", "normalize"}
      /\ op'[p].pc = "fetch" => op'[p].server \in Live /\ srv' = srv
  <2>1. ASSUME NEW request, NEW S, Begin(p, request, DraftOf(S))
        PROVE  op'[p].pc \in {"idle", "inbounds"}
    BY <1>0, <2>1 DEF Begin, DraftOf, NoOp
  <2>2. CASE ChangeInbounds(p) \/ MoveInbound(p) \/ CreateServer(p) \/ DeleteServer(p)
             \/ RenderRequest(p)
    BY <2>1, <2>2 DEF ChangeInbounds, MoveInbound, CreateServer, DeleteServer, RenderRequest
  <2>3. CASE ApplyRequest(p) BY <1>0, <2>3 DEF ApplyRequest, Begin, NoOp
  <2>4. CASE RollbackRequest(p) BY <1>0, <2>4 DEF RollbackRequest, Begin, NoOp
  <2>5. CASE RefreshRequest(p) BY <1>0, <2>5 DEF RefreshRequest, Begin, NoOp
  <2> QED BY <2>2, <2>3, <2>4, <2>5 DEF Request
<1>3. Shown /\ (NoneCurrent \/ binary) BY <1>1 DEF Taking
<1>4. /\ \A r \in DOMAIN revs' : r \in DOMAIN revs /\ revs'[r] = revs[r]
      /\ \A s \in Servers : srv'[s] = "absent" => srv[s] = "absent"
  BY DEF TypeInv, TypeOK, Request, ChangeInbounds, MoveInbound, CreateServer, DeleteServer,
         RenderRequest, ApplyRequest, RollbackRequest, RefreshRequest
<1>5. \A r \in DOMAIN revs : revs[r].server \in Servers /\ srv[revs[r].server] # "absent"
  BY <1>0 DEF Hosted, Row
<1>6. Hosted(op[p])' BY <1>2, <1>4, <1>5 DEF Hosted, Live
<1>7. Shown'
  <2>1. CASE CreateServer(p)
    <3>1. PICK s \in Servers : srv[s] = "absent" BY <2>1 DEF CreateServer
    <3>2. \A r \in DOMAIN revs : revs[r].server = s BY <1>5, <3>1 DEF SingleServer
    <3>3. DOMAIN revs' = {} BY <1>4, <1>5, <3>1, <3>2
    <3> QED BY <3>3 DEF Shown
  <2>2. CASE ~CreateServer(p)
    <3>1. \A s \in Live' : s \in Live
      BY <2>2 DEF TypeInv, TypeOK, Live, Request, ChangeInbounds, MoveInbound, DeleteServer,
                  RenderRequest, ApplyRequest, RollbackRequest, RefreshRequest
    <3> QED BY <1>1, <1>3, <1>4, <3>1, ShownKept
  <2> QED BY <2>1, <2>2
<1>8. NoneCurrent' \/ binary' BY <1>1, <1>3, <1>4 DEF NoneCurrent
<1> QED BY <1>2, <1>6, <1>7, <1>8 DEF Taking

LEMMA ContinueTakes ==
    ASSUME SingleServer, TypeInv, NEW p \in Procs, Hosted(op[p]), Taking(op[p]), Continue(p)
    PROVE  Hosted(op[p])' /\ Taking(op[p])'
<1> DEFINE o == op[p]
<1>0. /\ o \in Op /\ op \in [Procs -> Op] /\ revs \in [DOMAIN revs -> Row]
      /\ o.pc \notin {"idle", "normalize", "inbounds"} => o.server \in Servers
  BY DEF TypeInv, TypeOK, PickedServer
<1>1. srv' = srv /\ Live' = Live
  <2>1. srv' = srv
    BY DEF Continue, Normalize, BuildInbounds, BuildPolicies, CreateRevision, Fetch, CheckConfig,
           WriteFile, WriteFails, RestartService, RestartFails, MarkFailed, MarkApplied, QueryFails
  <2> QED BY <2>1 DEF Live
<1>2. CASE Normalize(p) \/ BuildInbounds(p) \/ BuildPolicies(p)
  <2>1. UNCHANGED <<revs, file, binary>> /\ o.pc \in {"normalize", "inbounds", "policies"}
    BY <1>2 DEF Normalize, BuildInbounds, BuildPolicies
  <2>2. /\ op'[p].pc \in {"idle", "inbounds", "policies", "create"}
        /\ op'[p].pc \in {"policies", "create"} => srv[op'[p].server] # "absent"
    <3>1. CASE Normalize(p) BY <1>0, <3>1 DEF Normalize, Op
    <3>2. CASE BuildInbounds(p)
      <4>1. CASE GiveUp(p) BY <1>0, <4>1, NoOpDue DEF GiveUp, Finish
      <4>2. ASSUME NEW s \in Live, op' = [op EXCEPT ![p].pc = "policies", ![p].server = s,
                                                    ![p].payload.access = stored[s].access]
            PROVE  op'[p].pc = "policies" /\ srv[op'[p].server] # "absent"
        BY <1>0, <4>2 DEF Op, Live
      <4> QED BY <3>2, <4>1, <4>2 DEF BuildInbounds
    <3>3. CASE BuildPolicies(p) BY <1>0, <3>3 DEF BuildPolicies, Op, Hosted
    <3> QED BY <1>2, <3>1, <3>2, <3>3
  <2>3. Shown /\ (NoneCurrent \/ binary) BY <2>1 DEF Taking
  <2>4. Shown' /\ (NoneCurrent' \/ binary') BY <1>1, <2>1, <2>3, ShownKept
  <2>5. Hosted(op[p])' BY <1>1, <2>1, <2>2 DEF Hosted
  <2> QED BY <2>2, <2>4, <2>5 DEF Taking
<1>3. CASE Fetch(p)
  <2>1. UNCHANGED <<revs, file, binary>> /\ o.pc = "fetch" BY <1>3 DEF Fetch
  <2>2. Shown /\ (NoneCurrent \/ binary) BY <2>1 DEF Taking
  <2>3. Shown' /\ (NoneCurrent' \/ binary') BY <1>1, <2>1, <2>2, ShownKept
  <2>4. CASE Finish(p)
    <3>1. op'[p].pc = "idle" BY <1>0, <2>4, NoOpDue DEF Finish
    <3> QED BY <1>1, <2>1, <2>3, <3>1 DEF Hosted, Taking
  <2>5. CASE \E r \in DOMAIN revs : op' = [op EXCEPT ![p].pc = "check", ![p].target = r,
                                                     ![p].payload = revs[r].cfg]
    <3>1. PICK r \in DOMAIN revs : op' = [op EXCEPT ![p].pc = "check", ![p].target = r,
                                                    ![p].payload = revs[r].cfg]
      BY <2>5
    <3>2. /\ op'[p].pc = "check" /\ op'[p].target = r /\ op'[p].payload = revs[r].cfg
          /\ op'[p].server = o.server
      BY <1>0, <3>1 DEF Op
    <3> QED BY <1>1, <2>1, <2>3, <3>2 DEF Hosted, Taking
  <2> QED BY <1>3, <2>4, <2>5 DEF Fetch
<1>4. CASE CreateRevision(p)
  <2>1. PICK r \in RevIds \ used, n \in RevNos, ok \in BOOLEAN :
          /\ revs' = [q \in DOMAIN revs \cup {r} |->
                        IF q = r THEN NewRow(p, n, ok) ELSE revs[q]]
          /\ AfterCreate(p, r)
    BY <1>4 DEF CreateRevision
  <2>2. UNCHANGED <<file, binary>> /\ o.pc = "create" BY <1>4 DEF CreateRevision
  <2>3. /\ DOMAIN revs' = DOMAIN revs \cup {r} /\ ~revs'[r].current
        /\ revs'[r].server = o.server /\ \A q \in DOMAIN revs \ {r} : revs'[q] = revs[q]
    BY <2>1 DEF NewRow
  <2>4. Shown /\ (NoneCurrent \/ binary) /\ srv[o.server] # "absent"
    BY <2>2 DEF Taking, Hosted
  <2>5. Shown' /\ (NoneCurrent' \/ binary')
    BY <1>1, <2>2, <2>3, <2>4, ShownKept
  <2>6. /\ op'[p].pc \in {"fetch", "inbounds", "idle"}
        /\ op'[p].pc = "fetch" => op'[p].server = o.server
    <3>1. CASE o.kind # "draft" BY <1>0, <2>1, <3>1 DEF AfterCreate, Op
    <3>2. CASE o.kind = "draft" /\ o.todo \ {o.server} # {}
      <4>1. op'[p] = DraftOf(o.todo \ {o.server}) BY <1>0, <2>1, <3>2 DEF AfterCreate
      <4> QED BY <4>1 DEF DraftOf, NoOp
    <3>3. CASE o.kind = "draft" /\ o.todo \ {o.server} = {}
      <4>1. op'[p] = NoOp BY <1>0, <2>1, <3>3 DEF AfterCreate, Finish
      <4> QED BY <4>1, NoOpDue
    <3> QED BY <3>1, <3>2, <3>3
  <2>7. Hosted(op[p])' BY <1>1, <2>3, <2>4, <2>6 DEF Hosted
  <2> QED BY <2>5, <2>6, <2>7 DEF Taking
<1>5. CASE CheckConfig(p)
  <2>1. UNCHANGED <<revs, file, binary>> /\ o.pc = "check" BY <1>5 DEF CheckConfig
  <2>2. Shown /\ (NoneCurrent \/ binary) /\ o.target \in DOMAIN revs
        /\ revs[o.target].cfg = o.payload /\ srv[o.server] # "absent"
    BY <2>1 DEF Taking, Hosted
  <2>3. Shown' /\ (NoneCurrent' \/ binary') BY <1>1, <2>1, <2>2, ShownKept
  <2>4. /\ op'[p].target = o.target /\ op'[p].payload = o.payload /\ op'[p].server = o.server
        /\ op'[p].pc \in {"markFailed", "write"}
        /\ op'[p].pc = "write" => Accepts(o.payload)
    <3>1. CASE Accepts(o.payload) /\ op' = [op EXCEPT ![p].pc = "write"]
      BY <1>0, <3>1 DEF Op
    <3>2. CASE Fail(p, "config_validation_failed") BY <1>0, <3>2 DEF Fail, Op
    <3> QED BY <1>5, <3>1, <3>2 DEF CheckConfig
  <2>5. op'[p].pc = "write" => NoneCurrent' \/ o.payload \in Valid
    BY <2>1, <2>2, <2>4 DEF Accepts, NoneCurrent
  <2>6. Hosted(op[p])' BY <1>1, <2>1, <2>2, <2>4 DEF Hosted
  <2> QED BY <2>1, <2>2, <2>3, <2>4, <2>5, <2>6 DEF Taking
<1>6. CASE WriteFile(p)
  <2>1. UNCHANGED <<revs, binary>> /\ o.pc = "write" /\ Install(p) BY <1>6 DEF WriteFile
  <2>2. op'[p] = [o EXCEPT !.pc = "restart"] BY <1>0, <1>6 DEF WriteFile, Disturb
  <2>3. /\ op'[p].pc = "restart" /\ op'[p].target = o.target /\ op'[p].payload = o.payload
        /\ op'[p].server = o.server
    BY <1>0, <2>2 DEF Op
  <2>4. UnitOf[o.server] \in Units /\ file \in [Units -> Configs \cup {None}]
    BY <1>0, <2>1, ServersAssumption DEF TypeInv, TypeOK
  <2>5. file'[UnitOf[o.server]] = o.payload BY <2>1, <2>4 DEF Install, UnitOfOp
  <2>6. Hosted(op[p])' BY <1>1, <2>1, <2>3 DEF Hosted
  <2> QED BY <2>1, <2>3, <2>5, <2>6 DEF Taking, NoneCurrent
<1>7. CASE RestartService(p)
  <2>1. UNCHANGED <<revs, file, binary>> /\ o.pc = "restart" /\ binary
    BY <1>7 DEF RestartService, Startable
  <2>2. /\ op'[p].pc = "markApplied" /\ op'[p].target = o.target
        /\ op'[p].payload = o.payload /\ op'[p].server = o.server
    BY <1>0, <1>7 DEF RestartService, Op
  <2>3. Hosted(op[p])' BY <1>1, <2>1, <2>2 DEF Hosted
  <2> QED BY <2>1, <2>2, <2>3 DEF Taking
<1>8. CASE RestartFails(p)
  <2>1. UNCHANGED <<revs, file, binary>> /\ o.pc = "restart" BY <1>8 DEF RestartFails
  <2>2. ~(binary /\ file[UnitOf[o.server]] \in Valid)
    BY <1>8 DEF RestartFails, Startable, UnitOfOp, SingleServer
  <2>3. NoneCurrent BY <2>1, <2>2 DEF Taking
  <2>4. op'[p].pc = "markFailed" /\ op'[p].server = o.server
    BY <1>0, <1>8 DEF RestartFails, Fail, Op
  <2>5. Hosted(op[p])' BY <1>1, <2>1, <2>4 DEF Hosted
  <2> QED BY <2>1, <2>3, <2>4, <2>5 DEF Taking, Shown, NoneCurrent, IsCurrent
<1>9. CASE MarkFailed(p)
  <2>1. UNCHANGED <<file, binary>> /\ o.pc = "markFailed" /\ op'[p] = NoOp
    BY <1>0, <1>9 DEF MarkFailed, Finish
  <2>2. /\ DOMAIN revs' = DOMAIN revs
        /\ \A r \in DOMAIN revs : /\ revs'[r].current = revs[r].current
                                  /\ revs'[r].cfg = revs[r].cfg
                                  /\ revs'[r].server = revs[r].server
    BY <1>0, <1>9 DEF MarkFailed, FailedRow, Row
  <2>3. Shown /\ (NoneCurrent \/ binary) BY <2>1 DEF Taking
  <2>4. Shown' /\ (NoneCurrent' \/ binary') BY <1>1, <2>1, <2>2, <2>3, ShownKept
  <2> QED BY <1>1, <2>1, <2>2, <2>4, NoOpDue DEF Hosted, Taking
<1>10. CASE MarkApplied(p)
  <2>1. /\ UNCHANGED <<file, binary>> /\ o.pc = "markApplied" /\ binary
        /\ o.target \in DOMAIN revs /\ revs[o.target].cfg = o.payload
        /\ file[UnitOf[o.server]] = o.payload /\ o.server \in Servers
    BY <1>0, <1>10 DEF MarkApplied, Taking
  <2>2. revs' = Applied(o.target) BY <1>10, <2>1 DEF MarkApplied, SingleServer
  <2>3. op'[p].pc \in {"idle", "normalize"}
    <3>1. CASE Finish(p) BY <1>0, <3>1, NoOpDue DEF Finish
    <3>2. CASE AfterApply(p) BY <1>0, <3>1, <3>2 DEF AfterApply, NoOp
    <3> QED BY <1>10, <3>1, <3>2 DEF MarkApplied
  <2>4. /\ DOMAIN revs' = DOMAIN revs
        /\ \A r \in DOMAIN revs :
              /\ revs'[r].server = revs[r].server /\ revs'[r].cfg = revs[r].cfg
              /\ revs'[r].current
                    => r = o.target \/ revs[r].server # revs[o.target].server
    BY <2>1, <2>2, AppliedRow
  <2>5. \A r \in DOMAIN revs : revs[r].server = o.server
    BY <1>0, <2>1 DEF Row, SingleServer
  <2>6. Shown'
    <3> SUFFICES ASSUME NEW s \in Live', NEW r \in DOMAIN revs', IsCurrent(s, r)'
                 PROVE  file'[UnitOf[s]] = revs'[r].cfg
      BY DEF Shown
    <3>1. r = o.target BY <2>1, <2>4, <2>5 DEF IsCurrent
    <3>2. s = o.server BY <2>1 DEF SingleServer, Live
    <3> QED BY <2>1, <2>4, <3>1, <3>2
  <2>7. Hosted(op[p])' BY <1>1, <2>3, <2>4 DEF Hosted
  <2> QED BY <2>1, <2>3, <2>6, <2>7 DEF Taking
<1>11. ~WriteFails(p) /\ ~QueryFails(p) BY DEF WriteFails, QueryFails, SingleServer
<1> QED
  BY <1>2, <1>3, <1>4, <1>5, <1>6, <1>7, <1>8, <1>9, <1>10, <1>11 DEF Continue

LEMMA DiskStep == ASSUME SingleServer, TypeInv, DiskInv, [Next]_vars PROVE DiskInv'
<1> SUFFICES ASSUME NEW p \in Procs PROVE Hosted(op[p])' /\ Taking(op[p])' BY DEF DiskInv
<1>0. Hosted(op[p]) /\ Taking(op[p]) /\ \A q \in Procs : q = p BY DEF DiskInv, SingleServer
<1>1. CASE \E q \in Procs : Request(q) BY <1>0, <1>1, RequestTakes
<1>2. CASE \E q \in Procs : Continue(q) BY <1>0, <1>2, ContinueTakes
<1>3. CASE \E q \in Procs : Crash(q) BY <1>3 DEF Crash, SingleServer
<1>4. CASE \/ \E u \in Units : UnitRestarts(u)
           \/ ChangePolicy \/ SilentChange \/ InstallBinary \/ UNCHANGED vars
  <2>1. UNCHANGED <<srv, revs, file, op>> /\ (binary => binary')
    BY <1>4 DEF UnitRestarts, ChangePolicy, SilentChange, InstallBinary, vars
  <2>2. (NoneCurrent' <=> NoneCurrent) /\ (Shown' <=> Shown)
    BY <2>1 DEF NoneCurrent, Shown, Live, IsCurrent, RevisionsOf
  <2> QED BY <1>0, <2>1, <2>2 DEF Hosted, Taking
<1> QED BY <1>1, <1>2, <1>3, <1>4 DEF Next

\* When requests run one after the other on one server and only checks fail, the current
\* revision is what the config path of the server holds, also when the binary was missing
\* at first, drafts were stored that it rejects, or older revisions were applied again.
THEOREM CurrentRevisionOnDiskSerially ==
    ASSUME SingleServer PROVE Spec => []CurrentRevisionIsOnDisk
<1>1. Init => DiskInv
  <2> SUFFICES ASSUME Init, NEW p \in Procs PROVE Hosted(op[p]) /\ Taking(op[p]) BY DEF DiskInv
  <2>1. op[p].pc = "idle" /\ DOMAIN revs = {} BY NoOpDue DEF Init
  <2> QED BY <2>1 DEF Hosted, Taking, Shown, NoneCurrent
<1>2. TypeInv /\ DiskInv /\ [Next]_vars => DiskInv' BY DiskStep
<1>3. DiskInv => CurrentRevisionIsOnDisk
  BY ServersAssumption DEF DiskInv, Taking, Shown, CurrentRevisionIsOnDisk, Quiet
<1> QED BY <1>1, <1>2, <1>3, TypeInvariant, PTL DEF Spec
=============================================================================
