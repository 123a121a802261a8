------------------------- MODULE SubscriptionsProofs -------------------------
(***************************************************************************)
(* Theorems of Subscriptions, for any sets of tokens, requests and clients *)
(* and any failures.                                                       *)
(*                                                                         *)
(* TypeInv types the state and says where the token of a request may       *)
(* point.  TokenInv adds what a request knows of the token it works with,  *)
(* CopyInv what a fetch knows of the content and of its client's copy.     *)
(* The last part is about requests that run one after the other: Rendering *)
(* says what one then knows of the content, Showing of the token that was  *)
(* shown, Sole of the tokens a rotation has left.                          *)
(***************************************************************************)
EXTENDS Subscriptions, TLAPS

\* What the fields of a request mean while the token rows are R.
Shape(o, R) ==
    /\ o.pc = "idle" => o = NoOp
    /\ o.kind = "fetch" <=> o.client \in Clients
    /\ o.kind = "fetch" => o.pc \in {"resolve", "build", "rendered"}
    /\ o.pc = "resolve" => o.kind = "fetch"
    /\ o.pc \in {"secret", "primary", "promote", "resolve"} => o.token \in R
    /\ o.hint \cup o.flagged \cup o.rest \subseteq R

TypeInv == TypeOK /\ \A p \in Procs : Shape(op[p], DOMAIN rows)

LEMMA NoOpShape ==
    NoOp \in Op /\ \A R : Shape(NoOp, R)
BY NamesAssumption, BoundsAssumption
   DEF NoOp, Op, Shape, NoETag, ETags, Fresh, Documents

LEMMA ShapeGrows ==
    ASSUME NEW o, NEW R, NEW S, R \subseteq S, Shape(o, R)
    PROVE  Shape(o, S)
BY DEF Shape

LEMMA BegunType ==
    ASSUME TypeOK, NEW kind \in RequestKinds,
           NEW pc \in {"revoke", "insert", "dirty", "user", "resolve"}
    PROVE  /\ Begun(kind, pc) \in Op
           /\ Begun(kind, pc).kind = kind /\ Begun(kind, pc).pc = pc
           /\ Begun(kind, pc).client = None
           /\ Begun(kind, pc).hint \cup Begun(kind, pc).flagged \cup Begun(kind, pc).rest = {}
<1>1. Dead \in SUBSET Tokens
  BY DEF TypeOK, Dead
<1>2. [part \in Parts |-> {stored[part]}] \in [Parts -> SUBSET (0..MaxPart)]
  BY DEF TypeOK, Content
<1> QED
  BY <1>1, <1>2, NoOpShape DEF Begun, NoOp, Op

-----------------------------------------------------------------------------
(***************************************************************************)
(* Type correctness.                                                       *)
(***************************************************************************)
\* A step that replaces one request and keeps or extends the rows.
LEMMA OneRequest ==
    ASSUME TypeInv, NEW p \in Procs, NEW o \in Op, op' = [op EXCEPT ![p] = o],
           DOMAIN rows \subseteq DOMAIN rows', Shape(o, DOMAIN rows')
    PROVE  op' \in [Procs -> Op] /\ \A q \in Procs : Shape(op'[q], DOMAIN rows')
<1>1. op' \in [Procs -> Op]
  BY DEF TypeInv, TypeOK
<1>2. ASSUME NEW q \in Procs PROVE Shape(op'[q], DOMAIN rows')
  <2>1. CASE q = p
    BY <2>1 DEF TypeInv, TypeOK
  <2>2. CASE q # p
    BY <2>2, ShapeGrows DEF TypeInv, TypeOK
  <2> QED
    BY <2>1, <2>2
<1> QED
  BY <1>1, <1>2

LEMMA RequestType ==
    ASSUME TypeInv, NEW p \in Procs, OperatorRequest(p) \/ FetchRequest(p)
    PROVE  TypeInv'
<1>0. UNCHANGED <<stored, rows, primaryId, version, needRefresh, cache, rendered, shown>>
  BY DEF OperatorRequest, FetchRequest
<1>1. PICK o \in Op : op' = [op EXCEPT ![p] = o] /\ Shape(o, DOMAIN rows)
  <2>1. CASE OperatorRequest(p)
    <3>1. PICK o : /\ Begin(p, o)
                   /\ o \in {Begun("rotate", "revoke"), Begun("issue", "insert"),
                             Begun("revoke", "revoke"), Begun("view", "user"),
                             Begun("refresh", "dirty")}
      BY <2>1 DEF OperatorRequest
    <3>2. PICK kind \in RequestKinds, pc \in {"revoke", "insert", "dirty", "user"} :
             o = Begun(kind, pc) /\ kind # "fetch"
      BY <3>1 DEF RequestKinds
    <3>3. /\ o \in Op /\ o.kind = kind /\ o.pc = pc /\ o.client = None
          /\ o.hint \cup o.flagged \cup o.rest = {}
      BY <3>2, BegunType DEF TypeInv
    <3>4. None \notin Clients
      BY NamesAssumption
    <3>5. Shape(o, DOMAIN rows)
      BY <3>2, <3>3, <3>4 DEF Shape
    <3> QED
      BY <3>1, <3>3, <3>5 DEF Begin
  <2>2. CASE FetchRequest(p)
    <3> DEFINE b == Begun("fetch", "resolve")
    <3>1. PICK c \in Clients, t \in DOMAIN rows :
             Begin(p, [b EXCEPT !.client = c, !.token = t, !.etag = cache[c]])
      BY <2>2 DEF FetchRequest
    <3>2. cache[c] \in ETags /\ t \in Tokens
      BY DEF TypeInv, TypeOK
    <3>3. b \in Op /\ b.kind = "fetch" /\ b.pc = "resolve"
          /\ b.hint \cup b.flagged \cup b.rest = {}
      BY BegunType DEF RequestKinds, TypeInv
    <3> DEFINE o == [b EXCEPT !.client = c, !.token = t, !.etag = cache[c]]
    <3> HIDE DEF b
    <3>4. o \in Op
      BY <3>2, <3>3 DEF Op
    <3>5. Shape(o, DOMAIN rows)
      BY <3>2, <3>3 DEF Shape, Op
    <3> QED
      BY <3>1, <3>4, <3>5 DEF Begin
  <2> QED
    BY <2>1, <2>2
<1>2. op' \in [Procs -> Op] /\ \A q \in Procs : Shape(op'[q], DOMAIN rows')
  BY <1>0, <1>1, OneRequest
<1> QED
  BY <1>0, <1>2 DEF TypeInv, TypeOK

LEMMA ReviseType ==
    ASSUME TypeInv, NEW f \in [Procs -> Op], \A q \in Procs : Shape(f[q], DOMAIN rows),
           Revise(f, op')
    PROVE  /\ stored' \in Content
           /\ op' \in [Procs -> Op]
           /\ \A q \in Procs : Shape(op'[q], DOMAIN rows)
<1>1. PICK part \in Parts, v \in 0..MaxPart :
         /\ stored' = [stored EXCEPT ![part] = v]
         /\ op' = [q \in Procs |-> IF f[q].pc = "idle" THEN f[q]
                                   ELSE [f[q] EXCEPT !.since[part] = @ \cup {v}]]
  BY DEF Revise
<1>2. ASSUME NEW q \in Procs
      PROVE  op'[q] \in Op /\ Shape(op'[q], DOMAIN rows)
  <2> DEFINE s == [f[q].since EXCEPT ![part] = @ \cup {v}]
  <2>1. s \in [Parts -> SUBSET (0..MaxPart)]
    BY DEF Op
  <2>2. op'[q] = IF f[q].pc = "idle" THEN f[q] ELSE [f[q] EXCEPT !.since = s]
    BY <1>1
  <2> HIDE DEF s
  <2>3. op'[q] \in Op
    BY <2>1, <2>2 DEF Op
  <2>4. Shape(op'[q], DOMAIN rows)
    BY <2>2 DEF Op, Shape
  <2> QED
    BY <2>3, <2>4
<1>3. stored' \in Content
  BY <1>1 DEF TypeInv, TypeOK, Content
<1> QED
  BY <1>1, <1>2, <1>3

LEMMA ChangeType ==
    ASSUME TypeInv, (\E p \in Procs : Change(p)) \/ UnmarkedChange
    PROVE  TypeInv'
<1>0. UNCHANGED <<rows, primaryId, version, needRefresh, cache, rendered, shown>>
  BY DEF Change, UnmarkedChange
<1>1. ASSUME NEW p \in Procs, Change(p) PROVE TypeInv'
  <2> DEFINE b == Begun("change", "dirty")
             f == [op EXCEPT ![p] = b]
  <2>1. b \in Op /\ b.kind = "change" /\ b.pc = "dirty" /\ b.client = None
        /\ b.hint \cup b.flagged \cup b.rest = {}
    BY BegunType DEF RequestKinds, TypeInv
  <2>2. Revise(f, op')
    BY <1>1 DEF Change
  <2> HIDE DEF b
  <2>3. Shape(b, DOMAIN rows)
    BY <2>1, NamesAssumption DEF Shape
  <2>4. f \in [Procs -> Op] /\ \A q \in Procs : Shape(f[q], DOMAIN rows)
    BY <2>1, <2>3 DEF TypeInv, TypeOK
  <2> HIDE DEF f
  <2> QED
    BY <1>0, <2>2, <2>4, ReviseType DEF TypeInv, TypeOK
<1>2. ASSUME UnmarkedChange PROVE TypeInv'
  <2>1. Revise(op, op')
    BY <1>2 DEF UnmarkedChange
  <2> QED
    BY <1>0, <2>1, ReviseType DEF TypeInv, TypeOK
<1> QED
  BY <1>1, <1>2

\* What one step of a request does to the request and to the token rows.
LEMMA ContinueType ==
    ASSUME TypeInv, NEW p \in Procs, Continue(p) \/ Crash(p)
    PROVE  TypeInv'
<1> DEFINE Typed(o) == o \in Op /\ Shape(o, DOMAIN rows') /\ op' = [op EXCEPT ![p] = o]
<1>0. /\ op \in [Procs -> Op] /\ op[p] \in Op /\ Shape(op[p], DOMAIN rows)
      /\ rows \in [DOMAIN rows -> Row] /\ DOMAIN rows \subseteq Tokens
      /\ primaryId \in DOMAIN rows \cup {None}
  BY DEF TypeInv, TypeOK
<1>1. SUFFICES /\ \E o : Typed(o)
               /\ rows' \in [DOMAIN rows' -> Row]
               /\ DOMAIN rows \subseteq DOMAIN rows' /\ DOMAIN rows' \subseteq Tokens
               /\ primaryId' \in DOMAIN rows' \cup {None}
               /\ stored' \in Content /\ version' \in Nat \ {0} /\ needRefresh' \in BOOLEAN
               /\ cache' \in [Clients -> ETags] /\ rendered' \in Documents
               /\ shown' \in Tokens \cup {None}
  BY OneRequest DEF TypeInv, TypeOK
<1>2. ASSUME Finish(p) PROVE Typed(NoOp)
  BY <1>2, NoOpShape DEF Finish
<1>3. CASE StatementFails(p) \/ Crash(p)
  BY <1>2, <1>3 DEF StatementFails, Crash, TypeInv, TypeOK
<1>4. CASE Revoke(p)
  <2>1. rows' \in [DOMAIN rows -> Row] /\ DOMAIN rows' = DOMAIN rows
    BY <1>0, <1>4 DEF Revoke, Revoked, Row
  <2>2. \E o : Typed(o)
    <3>1. CASE Finish(p)
      BY <1>2, <3>1
    <3>2. CASE Goto(p, "insert") /\ op[p].kind = "rotate"
      <4> DEFINE o == [op[p] EXCEPT !.pc = "insert"]
      <4>1. Typed(o)
        BY <1>0, <2>1, <3>2 DEF Goto, Op, Shape
      <4> QED
        BY <4>1
    <3> QED
      BY <1>4, <3>1, <3>2 DEF Revoke
  <2> QED
    BY <1>0, <1>4, <2>1, <2>2 DEF Revoke, TypeInv, TypeOK
<1>5. CASE Insert(p)
  <2>1. PICK t \in Tokens \ DOMAIN rows, e \in Expiries(p) :
           /\ rows' = [u \in DOMAIN rows \cup {t} |->
                         IF u = t THEN [primary |-> FALSE, revoked |-> FALSE,
                                        secret |-> FALSE, expires |-> e, expired |-> FALSE]
                         ELSE rows[u]]
           /\ AfterInsert(p, t)
    BY <1>5 DEF Insert
  <2>2. e \in BOOLEAN
    BY DEF Expiries
  <2>3. DOMAIN rows' = DOMAIN rows \cup {t} /\ rows' \in [DOMAIN rows' -> Row]
    BY <1>0, <2>1, <2>2 DEF Row
  <2> DEFINE o == [op[p] EXCEPT !.token = t, !.pc = "secret"]
  <2>4. Typed(o)
    BY <1>0, <1>5, <2>1, <2>3 DEF Insert, AfterInsert, Op, Shape
  <2> QED
    BY <1>0, <1>5, <2>3, <2>4 DEF Insert, TypeInv, TypeOK
<1>6. CASE StoreSecret(p)
  <2>1. rows' \in [DOMAIN rows -> Row] /\ DOMAIN rows' = DOMAIN rows
    BY <1>0, <1>6 DEF StoreSecret, Row
  <2>2. \E o : Typed(o)
    <3>1. CASE Finish(p)
      BY <1>2, <3>1
    <3>2. CASE Goto(p, "primary") /\ op[p].kind # "fetch"
      <4> DEFINE o == [op[p] EXCEPT !.pc = "primary"]
      <4>1. Typed(o)
        BY <1>0, <1>6, <2>1, <3>2 DEF StoreSecret, Goto, Op, Shape
      <4> QED
        BY <4>1
    <3> QED
      BY <1>0, <1>6, <3>1, <3>2 DEF StoreSecret, Shape
  <2> QED
    BY <1>0, <1>6, <2>1, <2>2 DEF StoreSecret, TypeInv, TypeOK
<1>7. ASSUME MakePrimary(op[p].token), op[p].token \in DOMAIN rows
      PROVE  /\ rows' \in [DOMAIN rows -> Row] /\ DOMAIN rows' = DOMAIN rows
             /\ primaryId' \in DOMAIN rows
  BY <1>0, <1>7 DEF MakePrimary, Flagged, Row
<1>8. CASE SetPrimary(p)
  <2>1. /\ rows' \in [DOMAIN rows -> Row] /\ DOMAIN rows' = DOMAIN rows
        /\ primaryId' \in DOMAIN rows
    BY <1>0, <1>7, <1>8 DEF SetPrimary, Shape
  <2>2. PICK pc \in {"dirty", "build"} : Goto(p, pc)
    BY <1>8 DEF SetPrimary
  <2> DEFINE o == [op[p] EXCEPT !.pc = pc]
  <2>3. Typed(o)
    BY <1>0, <1>8, <2>1, <2>2 DEF SetPrimary, Goto, Op, Shape
  <2> QED
    BY <1>0, <1>8, <2>1, <2>3 DEF SetPrimary, TypeInv, TypeOK
<1>9. CASE MarkDirty(p)
  <2>1. \E o : Typed(o)
    <3>1. CASE Finish(p)
      BY <1>2, <3>1
    <3>2. CASE Goto(p, "user") /\ op[p].kind = "refresh"
      <4> DEFINE o == [op[p] EXCEPT !.pc = "user"]
      <4>1. Typed(o)
        BY <1>0, <1>9, <3>2 DEF MarkDirty, Goto, Op, Shape
      <4> QED
        BY <4>1
    <3> QED
      BY <1>9, <3>1, <3>2 DEF MarkDirty
  <2>2. shown' \in Tokens \cup {None}
    BY <1>0, <1>9 DEF MarkDirty, TypeInv, TypeOK, Op
  <2>3. version' \in Nat \ {0} /\ needRefresh' \in BOOLEAN
    BY <1>9 DEF MarkDirty, Dirtied, TypeInv, TypeOK
  <2>4. UNCHANGED <<stored, rows, primaryId, cache, rendered>>
    BY <1>9 DEF MarkDirty
  <2> QED
    BY <1>0, <2>1, <2>2, <2>3, <2>4 DEF TypeInv, TypeOK
<1>10. stored["user"] \in 0..MaxPart /\ stored["access"] \in 0..MaxPart
  BY DEF TypeInv, TypeOK, Content, Parts
<1>11. CASE ReadUser(p)
  <2> DEFINE b == [op[p].body EXCEPT !["user"] = stored["user"]]
             o == [op[p] EXCEPT !.pc = "ensure", !.body = b]
  <2>1. b \in Documents
    BY <1>0, <1>10 DEF Op, Documents
  <2>2. op' = [op EXCEPT ![p] = o]
    BY <1>0, <1>11 DEF ReadUser
  <2> HIDE DEF b
  <2>3. Typed(o)
    BY <1>0, <1>11, <2>1, <2>2 DEF ReadUser, Op, Shape
  <2> QED
    BY <1>0, <1>11, <2>3 DEF ReadUser, TypeInv, TypeOK
<1>12. CASE ReadSubscription(p)
  <2> DEFINE h == {primaryId} \ {None}
             x == {t \in DOMAIN rows : rows[t].expired}
             o == [op[p] EXCEPT !.pc = "list", !.hint = h, !.past = x]
  <2>1. h \subseteq DOMAIN rows /\ x \subseteq Tokens
    BY <1>0
  <2>2. op' = [op EXCEPT ![p] = o]
    BY <1>0, <1>12 DEF ReadSubscription
  <2> HIDE DEF h, x
  <2>3. Typed(o)
    BY <1>0, <1>12, <2>1, <2>2 DEF ReadSubscription, Op, Shape
  <2> QED
    BY <1>0, <1>12, <2>3 DEF ReadSubscription, TypeInv, TypeOK
<1>13. CASE ListTokens(p)
  <2>1. PICK f \in SUBSET DOMAIN rows, r \in SUBSET DOMAIN rows :
           op' = [op EXCEPT ![p] = [op[p] EXCEPT !.pc = "try", !.flagged = f, !.rest = r]]
    <3>1. CASE Goto(p, "try")
      <4>1. op' = [op EXCEPT ![p] = [op[p] EXCEPT !.pc = "try", !.flagged = op[p].flagged,
                                                  !.rest = op[p].rest]]
        BY <1>0, <3>1 DEF Goto, Op
      <4> QED
        BY <1>0, <4>1 DEF Shape
    <3>2. CASE ~Goto(p, "try")
      <4> DEFINE f == {t \in DOMAIN rows : rows[t].primary}
      <4>1. op' = [op EXCEPT ![p] = [op[p] EXCEPT !.pc = "try", !.flagged = f,
                                                  !.rest = DOMAIN rows]]
        BY <1>0, <1>13, <3>2 DEF ListTokens
      <4> QED
        BY <4>1
    <3> QED
      BY <3>1, <3>2
  <2> DEFINE o == [op[p] EXCEPT !.pc = "try", !.flagged = f, !.rest = r]
  <2>2. Typed(o)
    BY <1>0, <1>13, <2>1 DEF ListTokens, Op, Shape
  <2> QED
    BY <1>0, <1>13, <2>2 DEF ListTokens, TypeInv, TypeOK
<1>14. CASE TryToken(p)
  <2>1. PICK t \in Candidates(op[p]) :
          \/ /\ Showable(p, t)
             /\ op' = [op EXCEPT ![p].token = t,
                                 ![p].pc = IF rows[t].primary THEN "build" ELSE "promote"]
          \/ op' = [op EXCEPT ![p].hint = @ \ {t}, ![p].flagged = @ \ {t},
                              ![p].rest = @ \ {t}]
    BY <1>14 DEF TryToken
  <2>2. t \in DOMAIN rows
    BY <1>0, <2>1 DEF Candidates, Shape
  <2>3. \E o : Typed(o)
    <3>1. CASE /\ Showable(p, t)
               /\ op' = [op EXCEPT ![p].token = t,
                                   ![p].pc = IF rows[t].primary THEN "build" ELSE "promote"]
      <4> DEFINE o == [op[p] EXCEPT !.token = t,
                                    !.pc = IF rows[t].primary THEN "build" ELSE "promote"]
      <4>1. Typed(o)
        BY <1>0, <1>14, <2>2, <3>1 DEF TryToken, Showable, Op, Shape
      <4> QED
        BY <4>1
    <3>2. CASE op' = [op EXCEPT ![p].hint = @ \ {t}, ![p].flagged = @ \ {t},
                                ![p].rest = @ \ {t}]
      <4> DEFINE o == [op[p] EXCEPT !.hint = @ \ {t}, !.flagged = @ \ {t}, !.rest = @ \ {t}]
      <4>1. Typed(o)
        BY <1>0, <1>14, <3>2 DEF TryToken, Op, Shape
      <4> QED
        BY <4>1
    <3> QED
      BY <2>1, <3>1, <3>2
  <2> QED
    BY <1>0, <1>14, <2>3 DEF TryToken, TypeInv, TypeOK
<1>15. CASE NoTokenLeft(p)
  <2> DEFINE o == [op[p] EXCEPT !.pc = "insert"]
  <2>1. Typed(o)
    BY <1>0, <1>15 DEF NoTokenLeft, Goto, Op, Shape
  <2> QED
    BY <1>0, <1>15, <2>1 DEF NoTokenLeft, TypeInv, TypeOK
<1>16. CASE Promote(p)
  <2>1. /\ rows' \in [DOMAIN rows -> Row] /\ DOMAIN rows' = DOMAIN rows
        /\ primaryId' \in DOMAIN rows \cup {None}
    BY <1>0, <1>7, <1>16 DEF Promote, Shape
  <2> DEFINE o == [op[p] EXCEPT !.pc = "build"]
  <2>2. Typed(o)
    BY <1>0, <1>16, <2>1 DEF Promote, Goto, Op, Shape
  <2> QED
    BY <1>0, <1>16, <2>1, <2>2 DEF Promote, TypeInv, TypeOK
<1>17. CASE Resolve(p)
  <2>1. \E o : Typed(o)
    <3>1. CASE Finish(p)
      BY <1>2, <3>1
    <3>2. CASE ~Finish(p)
      <4> DEFINE b == [op[p].body EXCEPT !["user"] = stored["user"]]
                 o == [op[p] EXCEPT !.pc = "build", !.body = b, !.version = version]
      <4>1. b \in Documents
        BY <1>0, <1>10 DEF Op, Documents
      <4>2. op' = [op EXCEPT ![p] = o]
        BY <1>0, <1>17, <3>2 DEF Resolve
      <4> HIDE DEF b
      <4>3. Typed(o)
        BY <1>0, <1>17, <4>1, <4>2 DEF Resolve, Op, Shape, TypeInv, TypeOK
      <4> QED
        BY <4>3
    <3> QED
      BY <3>1, <3>2
  <2> QED
    BY <1>0, <1>17, <2>1 DEF Resolve, TypeInv, TypeOK
<1>18. CASE Build(p)
  <2>1. \E o : Typed(o)
    <3>1. CASE Finish(p)
      BY <1>2, <3>1
    <3>2. CASE ~Finish(p)
      <4>1. PICK entry \in AccessRead :
               op' = [op EXCEPT ![p].pc = "rendered",
                                ![p].body = [op[p].body EXCEPT !["access"] = entry]]
        BY <1>18, <3>2 DEF Build, Answer
      <4> DEFINE b == [op[p].body EXCEPT !["access"] = entry]
                 o == [op[p] EXCEPT !.pc = "rendered", !.body = b]
      <4>2. b \in Documents /\ op' = [op EXCEPT ![p] = o]
        BY <1>0, <1>10, <4>1 DEF Op, Documents, AccessRead
      <4> HIDE DEF b
      <4>3. Typed(o)
        BY <1>0, <1>18, <4>2 DEF Build, Op, Shape
      <4> QED
        BY <4>3
    <3> QED
      BY <3>1, <3>2
  <2> QED
    BY <1>0, <1>18, <2>1 DEF Build, TypeInv, TypeOK
<1>19. CASE MarkRendered(p)
  <2>1. Typed(NoOp)
    BY <1>2, <1>19 DEF MarkRendered
  <2>2. op[p].body \in Documents /\ op[p].version \in Nat /\ op[p].token \in Tokens \cup {None}
    BY <1>0 DEF Op
  <2>3. ETagOf(op[p], op[p].body) \in ETags
    BY <2>2 DEF ETagOf, ETags
  <2>4. cache' \in [Clients -> ETags] /\ shown' \in Tokens \cup {None}
    BY <1>19, <2>2, <2>3 DEF MarkRendered, TypeInv, TypeOK
  <2>5. needRefresh' \in BOOLEAN /\ rendered' \in Documents
    BY <1>19, <2>2 DEF MarkRendered, TypeInv, TypeOK
  <2> QED
    BY <1>0, <1>19, <2>1, <2>4, <2>5 DEF MarkRendered, TypeInv, TypeOK
<1> QED
  BY <1>3, <1>4, <1>5, <1>6, <1>8, <1>9, <1>11, <1>12, <1>13, <1>14, <1>15, <1>16,
     <1>17, <1>18, <1>19 DEF Continue

LEMMA ExpireType ==
    ASSUME TypeInv, NEW t \in DOMAIN rows, Expire(t)
    PROVE  TypeInv'
<1>1. rows' \in [DOMAIN rows -> Row] /\ DOMAIN rows' = DOMAIN rows
  BY DEF Expire, TypeInv, TypeOK, Row
<1> QED
  BY <1>1 DEF Expire, TypeInv, TypeOK

LEMMA TypeStep == TypeInv /\ [Next]_vars => TypeInv'
<1> SUFFICES ASSUME TypeInv, [Next]_vars PROVE TypeInv'
  OBVIOUS
<1>1. CASE UNCHANGED vars
  BY <1>1 DEF vars, TypeInv, TypeOK
<1> QED
  BY <1>1, RequestType, ChangeType, ContinueType, ExpireType DEF Next

LEMMA TypeInvariant == Spec => []TypeInv
<1>1. Init => TypeInv
  BY NoOpShape, BoundsAssumption
     DEF Init, TypeInv, TypeOK, Content, Documents, Fresh, ETags, NoETag, Row
<1> QED
  BY <1>1, TypeStep, PTL DEF Spec

\* Every variable keeps its type; the version of the artifacts is never reset.
THEOREM TypeCorrect == Spec => []TypeOK
BY TypeInvariant, PTL DEF TypeInv

-----------------------------------------------------------------------------
(***************************************************************************)
(* Tokens: one primary, which can be shown, and no dead token is served.   *)
(***************************************************************************)
\* A token once revoked or expired stays so, and a kept plaintext stays kept.
LEMMA RowsGrow ==
    ASSUME TypeInv, [Next]_vars, NEW t \in DOMAIN rows
    PROVE  /\ t \in DOMAIN rows'
           /\ rows[t].revoked => rows'[t].revoked
           /\ rows[t].expired => rows'[t].expired
           /\ rows[t].secret => rows'[t].secret
<1>0. rows \in [DOMAIN rows -> Row] /\ op \in [Procs -> Op]
  BY DEF TypeInv, TypeOK
<1>1. CASE \E p \in Procs : Revoke(p)
  BY <1>0, <1>1 DEF Revoke, Revoked, Row
<1>2. CASE \E p \in Procs : Insert(p)
  BY <1>0, <1>2 DEF Insert
<1>3. CASE \E p \in Procs : StoreSecret(p)
  BY <1>0, <1>3 DEF StoreSecret, Row
<1>4. CASE \E p \in Procs : SetPrimary(p) \/ Promote(p)
  BY <1>0, <1>4 DEF SetPrimary, Promote, MakePrimary, Flagged, Row
<1>5. CASE \E u \in DOMAIN rows : Expire(u)
  BY <1>0, <1>5 DEF Expire, Row
<1>6. CASE UNCHANGED rows
  BY <1>6
<1>7. \/ UNCHANGED rows \/ \E u \in DOMAIN rows : Expire(u)
      \/ \E p \in Procs : Revoke(p) \/ Insert(p) \/ StoreSecret(p) \/ SetPrimary(p)
                          \/ Promote(p)
  BY DEF Next, vars, OperatorRequest, FetchRequest, Change, UnmarkedChange, Continue,
         MarkDirty, ReadUser, ReadSubscription, ListTokens, TryToken, NoTokenLeft,
         Resolve, Build, MarkRendered, StatementFails, Crash
<1> QED
  BY <1>1, <1>2, <1>3, <1>4, <1>5, <1>6, <1>7

\* Points of a request at which it holds no token it could answer with.
Bare == {"revoke", "insert", "user", "ensure", "dirty", "resolve"}

\* How a step takes the request o to n, as far as tokens are concerned.
Settles(q, o, n) ==
    \/ o.pc = "secret" /\ n.pc = "primary" /\ n.token = o.token /\ rows'[o.token].secret
    \/ /\ o.pc \in {"primary", "promote", "build"} /\ n.pc \in {"build", "rendered"}
       /\ n.token = o.token
    \/ /\ o.pc = "try" /\ n.pc \in {"promote", "build"}
       /\ n.token \in DOMAIN rows /\ Showable(q, n.token)
    \/ o.pc = "resolve" /\ n.pc = "build" /\ n.token = o.token /\ Alive(o.token)

Searches(o, n) ==
    \/ n.pc = "secret" /\ n.token \notin DOMAIN rows
    \/ o.pc = "ensure" /\ n.pc = "list" /\ n.past = {t \in DOMAIN rows : rows[t].expired}
    \/ o.pc = "list" /\ n.pc = "try" /\ n.past = o.past
    \/ n.pc \in Bare

TokenMove(q) ==
    \/ op'[q] = NoOp
    \/ op'[q].dead = Dead /\ op'[q].pc \in Bare
    \/ /\ op'[q].dead = op[q].dead
       /\ \/ /\ op'[q].pc = op[q].pc /\ op'[q].token = op[q].token
             /\ op'[q].past = op[q].past
          \/ Settles(q, op[q], op'[q])
          \/ Searches(op[q], op'[q])

LEMMA TokenMoves ==
    ASSUME TypeInv, [Next]_vars, NEW q \in Procs
    PROVE  TokenMove(q)
<1>0. op \in [Procs -> Op] /\ \A p \in Procs : op[p] \in Op /\ Shape(op[p], DOMAIN rows)
  BY DEF TypeInv, TypeOK
<1>1. CASE UNCHANGED op
  BY <1>0, <1>1 DEF TokenMove
<1>2. ASSUME NEW p \in Procs, OperatorRequest(p) \/ FetchRequest(p)
      PROVE  TokenMove(q)
  <2>1. PICK kind \in RequestKinds, pc \in {"revoke", "insert", "dirty", "user", "resolve"} :
           \/ Begin(p, Begun(kind, pc))
           \/ \E c \in Clients, t \in DOMAIN rows :
                Begin(p, [Begun(kind, pc) EXCEPT !.client = c, !.token = t,
                                                 !.etag = cache[c]])
    BY <1>2 DEF OperatorRequest, FetchRequest, RequestKinds
  <2>2. Begun(kind, pc).dead = Dead /\ Begun(kind, pc).pc = pc
    BY DEF Begun, NoOp
  <2> DEFINE b == Begun(kind, pc)
  <2>3. b \in Op /\ b.dead = Dead /\ b.pc = pc
    <3>1. b \in Op /\ b.pc = pc
      BY BegunType DEF TypeInv
    <3> QED
      BY <2>2, <3>1
  <2>4. \/ op' = [op EXCEPT ![p] = b]
        \/ \E c \in Clients, t \in DOMAIN rows :
              op' = [op EXCEPT ![p] = [b EXCEPT !.client = c, !.token = t, !.etag = cache[c]]]
    BY <2>1 DEF Begin
  <2> HIDE DEF b
  <2>5. CASE op' = [op EXCEPT ![p] = b]
    BY <1>0, <2>3, <2>5 DEF TokenMove, Bare
  <2>6. CASE \E c \in Clients, t \in DOMAIN rows :
               op' = [op EXCEPT ![p] = [b EXCEPT !.client = c, !.token = t, !.etag = cache[c]]]
    <3>1. PICK c \in Clients, t \in DOMAIN rows :
             op' = [op EXCEPT ![p] = [b EXCEPT !.client = c, !.token = t, !.etag = cache[c]]]
      BY <2>6
    <3> DEFINE o == [b EXCEPT !.client = c, !.token = t, !.etag = cache[c]]
    <3>2. o.dead = Dead /\ o.pc = pc
      BY <2>3 DEF Op
    <3>3. op' = [op EXCEPT ![p] = o]
      BY <3>1
    <3> HIDE DEF o
    <3> QED
      BY <1>0, <3>2, <3>3 DEF TokenMove, Bare
  <2> QED
    BY <2>4, <2>5, <2>6
<1>3. ASSUME NEW f \in [Procs -> Op], Revise(f, op')
      PROVE  /\ op'[q].dead = f[q].dead /\ op'[q].pc = f[q].pc
             /\ op'[q].token = f[q].token /\ op'[q].past = f[q].past
  BY <1>3 DEF Revise, Op
<1>4. ASSUME NEW p \in Procs, Change(p) PROVE TokenMove(q)
  <2> DEFINE b == Begun("change", "dirty")
             f == [op EXCEPT ![p] = b]
  <2>1. b \in Op /\ b.dead = Dead /\ b.pc = "dirty"
    <3>1. b \in Op /\ b.pc = "dirty"
      BY BegunType DEF RequestKinds, TypeInv
    <3>2. b.dead = Dead
      BY DEF Begun, NoOp
    <3> QED
      BY <3>1, <3>2
  <2>2. Revise(f, op')
    BY <1>4 DEF Change
  <2> HIDE DEF b
  <2>3. f \in [Procs -> Op] /\ (q = p => f[q] = b) /\ (q # p => f[q] = op[q])
    BY <1>0, <2>1
  <2> HIDE DEF f
  <2> QED
    BY <1>3, <2>1, <2>2, <2>3 DEF TokenMove, Bare
<1>5. CASE UnmarkedChange
  BY <1>0, <1>3, <1>5 DEF UnmarkedChange, TokenMove
<1>6. ASSUME NEW p \in Procs, Continue(p) \/ Crash(p), q # p PROVE TokenMove(q)
  <2>1. \E o : op' = [op EXCEPT ![p] = o]
    BY <1>6 DEF Continue, Revoke, Insert, AfterInsert, StoreSecret, SetPrimary, MarkDirty,
           ReadUser, ReadSubscription, ListTokens, TryToken, NoTokenLeft, Promote, Resolve,
           Build, Answer, MarkRendered, StatementFails, Crash, Finish, Goto
  <2> QED
    BY <1>0, <1>6, <2>1 DEF TokenMove
<1>7. ASSUME Continue(q) \/ Crash(q) PROVE TokenMove(q)
  <2>0. op[q] \in Op /\ Shape(op[q], DOMAIN rows)
    BY <1>0
  <2>1. ASSUME Finish(q) PROVE TokenMove(q)
    BY <1>0, <2>1 DEF Finish, TokenMove
  <2>2. ASSUME NEW pc, Goto(q, pc)
        PROVE  /\ op'[q].dead = op[q].dead /\ op'[q].pc = pc
               /\ op'[q].token = op[q].token /\ op'[q].past = op[q].past
    BY <1>0, <2>2 DEF Goto, Op
  <2>3. CASE Crash(q) \/ StatementFails(q) \/ MarkRendered(q)
    BY <2>1, <2>3 DEF Crash, StatementFails, MarkRendered
  <2>4. CASE Revoke(q) \/ MarkDirty(q) \/ NoTokenLeft(q)
    BY <2>1, <2>2, <2>4 DEF Revoke, MarkDirty, NoTokenLeft, TokenMove, Searches, Bare
  <2>5. CASE Insert(q)
    <3>1. PICK t \in Tokens \ DOMAIN rows : op' = [op EXCEPT ![q].token = t, ![q].pc = "secret"]
      BY <2>5 DEF Insert, AfterInsert
    <3> QED
      BY <1>0, <3>1 DEF TokenMove, Searches, Op
  <2>6. CASE StoreSecret(q)
    <3>1. rows'[op[q].token].secret
      BY <2>0, <2>6 DEF StoreSecret, Shape, TypeInv, TypeOK, Row
    <3> QED
      BY <2>1, <2>2, <2>6, <3>1 DEF StoreSecret, TokenMove, Settles
  <2>7. CASE SetPrimary(q) \/ Promote(q)
    BY <2>2, <2>7 DEF SetPrimary, Promote, TokenMove, Settles, Searches, Bare
  <2>8. CASE ReadUser(q)
    BY <1>0, <2>8 DEF ReadUser, TokenMove, Searches, Bare, Op
  <2>9. CASE ReadSubscription(q)
    BY <1>0, <2>9 DEF ReadSubscription, TokenMove, Searches, Op
  <2>10. CASE ListTokens(q)
    <3>1. CASE Goto(q, "try")
      BY <2>2, <2>10, <3>1 DEF ListTokens, TokenMove, Searches
    <3>2. CASE ~Goto(q, "try")
      <4> DEFINE o == [op[q] EXCEPT !.pc = "try",
                                    !.flagged = {t \in DOMAIN rows : rows[t].primary},
                                    !.rest = DOMAIN rows]
      <4>1. op' = [op EXCEPT ![q] = o]
        BY <2>10, <3>2 DEF ListTokens
      <4>2. o.dead = op[q].dead /\ o.pc = "try" /\ o.past = op[q].past /\ op[q].pc = "list"
        BY <2>0, <2>10 DEF ListTokens, Op
      <4> HIDE DEF o
      <4> QED
        BY <1>0, <4>1, <4>2 DEF TokenMove, Searches
    <3> QED
      BY <3>1, <3>2
  <2>11. CASE TryToken(q)
    <3>1. PICK t \in Candidates(op[q]) :
            \/ /\ Showable(q, t)
               /\ op' = [op EXCEPT ![q].token = t,
                                   ![q].pc = IF rows[t].primary THEN "build" ELSE "promote"]
            \/ op' = [op EXCEPT ![q].hint = @ \ {t}, ![q].flagged = @ \ {t},
                                ![q].rest = @ \ {t}]
      BY <2>11 DEF TryToken
    <3>2. t \in DOMAIN rows /\ op[q].pc = "try"
      BY <2>0, <2>11, <3>1 DEF TryToken, Candidates, Shape
    <3>3. CASE /\ Showable(q, t)
               /\ op' = [op EXCEPT ![q].token = t,
                                   ![q].pc = IF rows[t].primary THEN "build" ELSE "promote"]
      BY <1>0, <3>2, <3>3 DEF TokenMove, Settles, Op
    <3>4. CASE op' = [op EXCEPT ![q].hint = @ \ {t}, ![q].flagged = @ \ {t},
                                ![q].rest = @ \ {t}]
      BY <1>0, <3>4 DEF TokenMove, Op
    <3> QED
      BY <3>1, <3>3, <3>4
  <2>12. CASE Resolve(q)
    <3>1. CASE Finish(q)
      BY <2>1, <3>1
    <3>2. CASE ~Finish(q)
      BY <1>0, <2>12, <3>2 DEF Resolve, TokenMove, Settles, Op
    <3> QED
      BY <3>1, <3>2
  <2>13. CASE Build(q)
    <3>1. CASE Finish(q)
      BY <2>1, <3>1
    <3>2. CASE ~Finish(q)
      BY <1>0, <2>13, <3>2 DEF Build, Answer, TokenMove, Settles, Op
    <3> QED
      BY <3>1, <3>2
  <2> QED
    BY <1>7, <2>3, <2>4, <2>5, <2>6, <2>7, <2>8, <2>9, <2>10, <2>11, <2>12, <2>13
       DEF Continue
<1>8. CASE \E t \in DOMAIN rows : Expire(t)
  BY <1>1, <1>8 DEF Expire
<1> QED
  BY <1>1, <1>2, <1>4, <1>5, <1>6, <1>7, <1>8 DEF Next, vars

\* What a request knows of the token it works with.
TokenKnown(o) ==
    /\ o.dead \subseteq Dead
    /\ o.pc \in {"secret", "primary", "promote", "build", "rendered"} => o.token \notin o.dead
    /\ o.pc \in {"list", "try"} => \A t \in o.dead : rows[t].revoked \/ t \in o.past
    /\ o.pc \in {"primary", "promote"} => rows[o.token].secret

TokenInv ==
    /\ OnePrimary
    /\ PrimaryIsRecoverable
    /\ \A p \in Procs : TokenKnown(op[p])

\* Whatever another request does, what is known of a token stays true.
LEMMA TokenKnownStep ==
    ASSUME TypeInv, TokenInv, [Next]_vars, NEW q \in Procs
    PROVE  TokenKnown(op[q])'
<1>0. /\ TokenKnown(op[q]) /\ Shape(op[q], DOMAIN rows)
      /\ rows \in [DOMAIN rows -> Row] /\ op[q] \in Op
  BY DEF TypeInv, TypeOK, TokenInv
<1>1. \A t \in DOMAIN rows : /\ t \in DOMAIN rows'
                             /\ rows[t].revoked => rows'[t].revoked
                             /\ rows[t].expired => rows'[t].expired
                             /\ rows[t].secret => rows'[t].secret
  BY RowsGrow
<1>2. Dead \subseteq Dead' /\ Dead \subseteq DOMAIN rows
  BY <1>1 DEF Dead
<1>3. CASE op'[q] = NoOp
  BY <1>3 DEF TokenKnown, NoOp
<1>4. CASE op'[q].dead = Dead /\ op'[q].pc \in Bare
  BY <1>2, <1>4 DEF TokenKnown, Bare
<1>5. ASSUME op'[q].dead = op[q].dead PROVE (op[q].dead \subseteq Dead)'
  BY <1>0, <1>2, <1>5 DEF TokenKnown
<1>6. CASE /\ op'[q].dead = op[q].dead /\ op'[q].pc = op[q].pc
           /\ op'[q].token = op[q].token /\ op'[q].past = op[q].past
  <2>1. op[q].pc \in {"primary", "promote"} => rows'[op[q].token].secret
    BY <1>0, <1>1 DEF TokenKnown, Shape
  <2>2. op[q].pc \in {"list", "try"} =>
           \A t \in op[q].dead : rows'[t].revoked \/ t \in op[q].past
    BY <1>0, <1>1, <1>2 DEF TokenKnown
  <2> QED
    BY <1>0, <1>5, <1>6, <2>1, <2>2 DEF TokenKnown
<1>7. CASE op'[q].dead = op[q].dead /\ Settles(q, op[q], op'[q])
  <2>1. CASE op[q].pc = "secret" /\ op'[q].pc = "primary"
             /\ op'[q].token = op[q].token /\ rows'[op[q].token].secret
    BY <1>0, <1>5, <1>7, <2>1 DEF TokenKnown
  <2>2. CASE op[q].pc \in {"primary", "promote", "build"} /\ op'[q].pc \in {"build", "rendered"}
             /\ op'[q].token = op[q].token
    BY <1>0, <1>5, <1>7, <2>2 DEF TokenKnown
  <2>3. CASE op[q].pc = "try" /\ op'[q].pc \in {"promote", "build"}
             /\ op'[q].token \in DOMAIN rows /\ Showable(q, op'[q].token)
    <3>1. op'[q].token \notin op[q].dead
      BY <1>0, <2>3 DEF TokenKnown, Showable
    <3>2. rows'[op'[q].token].secret
      BY <1>1, <2>3 DEF Showable
    <3> QED
      BY <1>5, <1>7, <2>3, <3>1, <3>2 DEF TokenKnown
  <2>4. CASE op[q].pc = "resolve" /\ op'[q].pc = "build" /\ op'[q].token = op[q].token
             /\ Alive(op[q].token)
    BY <1>0, <1>5, <1>7, <2>4 DEF TokenKnown, Alive, Dead
  <2> QED
    BY <1>7, <2>1, <2>2, <2>3, <2>4 DEF Settles
<1>8. CASE op'[q].dead = op[q].dead /\ Searches(op[q], op'[q])
  <2>1. CASE op'[q].pc = "secret" /\ op'[q].token \notin DOMAIN rows
    BY <1>0, <1>2, <1>5, <1>8, <2>1 DEF TokenKnown
  <2>2. CASE op[q].pc = "ensure" /\ op'[q].pc = "list"
             /\ op'[q].past = {t \in DOMAIN rows : rows[t].expired}
    <3>1. \A t \in op[q].dead : rows[t].revoked \/ t \in op'[q].past
      BY <1>0, <2>2 DEF TokenKnown, Dead
    <3>2. \A t \in op[q].dead : rows'[t].revoked \/ t \in op'[q].past
      BY <1>0, <1>1, <1>2, <3>1 DEF TokenKnown
    <3> QED
      BY <1>5, <1>8, <2>2, <3>2 DEF TokenKnown
  <2>3. CASE op[q].pc = "list" /\ op'[q].pc = "try" /\ op'[q].past = op[q].past
    <3>1. \A t \in op[q].dead : rows'[t].revoked \/ t \in op'[q].past
      BY <1>0, <1>1, <1>2, <2>3 DEF TokenKnown
    <3> QED
      BY <1>5, <1>8, <2>3, <3>1 DEF TokenKnown
  <2>4. CASE op'[q].pc \in Bare
    BY <1>5, <1>8, <2>4 DEF TokenKnown, Bare
  <2> QED
    BY <1>8, <2>1, <2>2, <2>3, <2>4 DEF Searches
<1> QED
  BY TokenMoves, <1>3, <1>4, <1>6, <1>7, <1>8 DEF TokenMove

\* The flags and primary_token_id move together, to a token whose secret is kept.
LEMMA PrimaryStep ==
    ASSUME TypeInv, TokenInv, [Next]_vars
    PROVE  OnePrimary' /\ PrimaryIsRecoverable'
<1>0. /\ rows \in [DOMAIN rows -> Row] /\ primaryId \in DOMAIN rows \cup {None}
      /\ DOMAIN rows \subseteq Tokens /\ None \notin Tokens
      /\ op \in [Procs -> Op] /\ OnePrimary /\ PrimaryIsRecoverable
  BY NamesAssumption DEF TypeInv, TypeOK, TokenInv
<1>1. ASSUME primaryId' = primaryId PROVE PrimaryIsRecoverable'
  BY <1>0, <1>1, RowsGrow DEF PrimaryIsRecoverable
<1>2. ASSUME NEW t \in DOMAIN rows, rows[t].secret, MakePrimary(t)
      PROVE  OnePrimary' /\ PrimaryIsRecoverable'
  <2>1. \A u \in DOMAIN rows' : rows'[u].primary = (u = t)
    BY <1>0, <1>2 DEF MakePrimary, Flagged, Row
  <2>2. rows'[t].secret /\ primaryId' = t
    BY <1>0, <1>2 DEF MakePrimary, Flagged, Row
  <2> QED
    BY <2>1, <2>2 DEF OnePrimary, PrimaryIsRecoverable
<1>3. CASE \E p \in Procs : Revoke(p)
  <2>1. DOMAIN rows' = DOMAIN rows /\ primaryId' = primaryId
        /\ \A t \in DOMAIN rows : rows'[t].primary = rows[t].primary
    BY <1>0, <1>3 DEF Revoke, Revoked, Row
  <2> QED
    BY <1>0, <1>1, <2>1 DEF OnePrimary
<1>4. CASE \E p \in Procs : Insert(p)
  <2>1. PICK t \in Tokens \ DOMAIN rows :
          /\ DOMAIN rows' = DOMAIN rows \cup {t} /\ primaryId' = primaryId
          /\ rows'[t].primary = FALSE
          /\ \A u \in DOMAIN rows : rows'[u] = rows[u]
    BY <1>4 DEF Insert
  <2>2. primaryId # t
    BY <1>0, <2>1
  <2>3. ~rows'[t].primary
    BY <2>1
  <2> QED
    BY <1>0, <1>1, <2>1, <2>2, <2>3 DEF OnePrimary
<1>5. CASE \E p \in Procs : StoreSecret(p)
  <2>1. DOMAIN rows' = DOMAIN rows /\ primaryId' = primaryId
        /\ \A t \in DOMAIN rows : rows'[t].primary = rows[t].primary
    BY <1>0, <1>5 DEF StoreSecret, Row
  <2> QED
    BY <1>0, <1>1, <2>1 DEF OnePrimary
<1>6. CASE \E p \in Procs : SetPrimary(p) \/ Promote(p)
  <2>1. PICK p \in Procs : SetPrimary(p) \/ Promote(p)
    BY <1>6
  <2>2. op[p].pc \in {"primary", "promote"}
    BY <2>1 DEF SetPrimary, Promote
  <2>3. op[p].token \in DOMAIN rows /\ rows[op[p].token].secret
    BY <2>2 DEF TypeInv, Shape, TokenInv, TokenKnown
  <2>4. MakePrimary(op[p].token) \/ UNCHANGED <<rows, primaryId>>
    BY <2>1 DEF SetPrimary, Promote
  <2> QED
    BY <1>0, <1>1, <1>2, <2>3, <2>4 DEF OnePrimary
<1>7. CASE \E t \in DOMAIN rows : Expire(t)
  <2>1. DOMAIN rows' = DOMAIN rows /\ primaryId' = primaryId
        /\ \A t \in DOMAIN rows : rows'[t].primary = rows[t].primary
    BY <1>0, <1>7 DEF Expire, Row
  <2> QED
    BY <1>0, <1>1, <2>1 DEF OnePrimary
<1>8. CASE UNCHANGED <<rows, primaryId>>
  BY <1>0, <1>8 DEF OnePrimary, PrimaryIsRecoverable
<1>9. \/ UNCHANGED <<rows, primaryId>> \/ \E u \in DOMAIN rows : Expire(u)
      \/ \E p \in Procs : Revoke(p) \/ Insert(p) \/ StoreSecret(p) \/ SetPrimary(p)
                          \/ Promote(p)
  BY DEF Next, vars, OperatorRequest, FetchRequest, Change, UnmarkedChange, Continue,
         MarkDirty, ReadUser, ReadSubscription, ListTokens, TryToken, NoTokenLeft,
         Resolve, Build, MarkRendered, StatementFails, Crash
<1> QED
  BY <1>3, <1>4, <1>5, <1>6, <1>7, <1>8, <1>9

LEMMA TokenInvariant == Spec => []TokenInv
<1>1. Init => TokenInv
  BY DEF Init, TokenInv, OnePrimary, PrimaryIsRecoverable, TokenKnown, NoOp
<1>2. TypeInv /\ TokenInv /\ [Next]_vars => TokenInv'
  BY TokenKnownStep, PrimaryStep DEF TokenInv
<1> QED
  BY <1>1, <1>2, TypeInvariant, PTL DEF Spec

\* primary_token_id and the flags of the rows always name the same token.
THEOREM OnePrimaryAlways == Spec => []OnePrimary
BY TokenInvariant, PTL DEF TokenInv

\* The plaintext of the primary token can always be shown again.
THEOREM PrimaryRecoverableAlways == Spec => []PrimaryIsRecoverable
BY TokenInvariant, PTL DEF TokenInv

\* No request settles on a token that was dead when it began, however many
\* requests issue, rotate, revoke and search at once and wherever they die.
THEOREM DeadTokensServeNothingAlways == Spec => []DeadTokensServeNothing
<1>1. TokenInv => DeadTokensServeNothing
  BY DEF TokenInv, TokenKnown, DeadTokensServeNothing
<1> QED
  BY <1>1, TokenInvariant, PTL

-----------------------------------------------------------------------------
(***************************************************************************)
(* Copies: what a fetch answers was stored while it ran.                   *)
(***************************************************************************)
\* What a fetch knows of the content and of its client's copy.
CopyKnown(o) ==
    /\ o.pc # "idle" => \A part \in Parts : stored[part] \in o.since[part]
    /\ o.kind = "fetch" =>
          /\ o.pc \in {"build", "rendered"} => o.body["user"] \in o.since["user"]
          /\ o.pc = "rendered" => o.body["access"] \in o.since["access"] \cup {None}
          /\ cache[o.client] = o.etag

CopyInv ==
    /\ \A p \in Procs : CopyKnown(op[p])
    /\ \A p, q \in Procs : /\ op[p].kind = "fetch" /\ op[q].kind = "fetch"
                           /\ op[p].client = op[q].client
                           => p = q

\* What one step of the request q does to it, as far as copies are concerned.
CopyMove(q) ==
    \/ op'[q] = NoOp
    \/ /\ op[q].pc # "idle"
       /\ op'[q].kind = op[q].kind /\ op'[q].client = op[q].client
       /\ op'[q].etag = op[q].etag /\ op'[q].since = op[q].since
       /\ UNCHANGED cache
       /\ op[q].kind = "fetch" =>
             \/ op'[q].pc = "build" /\ op'[q].body["user"] = stored["user"]
             \/ /\ op[q].pc = "build" /\ op'[q].pc = "rendered"
                /\ op'[q].body["user"] = op[q].body["user"]
                /\ op'[q].body["access"] \in {stored["access"], None}

LEMMA CopyMoves ==
    ASSUME TypeInv, NEW q \in Procs, Continue(q) \/ Crash(q)
    PROVE  CopyMove(q)
<1>0. /\ op \in [Procs -> Op] /\ op[q] \in Op /\ Shape(op[q], DOMAIN rows)
  BY DEF TypeInv, TypeOK
<1>1. ASSUME Finish(q) PROVE CopyMove(q)
  BY <1>0, <1>1 DEF Finish, CopyMove
<1>2. ASSUME NEW pc, Goto(q, pc), UNCHANGED cache, op[q].pc \notin {"idle", "resolve", "build"},
             op[q].pc # "rendered"
      PROVE  CopyMove(q)
  BY <1>0, <1>2 DEF Goto, CopyMove, Op, Shape
<1>3. CASE Crash(q) \/ StatementFails(q) \/ MarkRendered(q)
  BY <1>1, <1>3 DEF Crash, StatementFails, MarkRendered
<1>4. CASE Revoke(q) \/ StoreSecret(q) \/ SetPrimary(q) \/ MarkDirty(q)
           \/ NoTokenLeft(q) \/ Promote(q)
  BY <1>1, <1>2, <1>4
     DEF Revoke, StoreSecret, SetPrimary, MarkDirty, NoTokenLeft, Promote
<1>5. CASE Insert(q)
  <2>1. PICK t \in Tokens \ DOMAIN rows :
           op' = [op EXCEPT ![q].token = t, ![q].pc = "secret"]
    BY <1>5 DEF Insert, AfterInsert
  <2> QED
    BY <1>0, <1>5, <2>1 DEF Insert, CopyMove, Op, Shape
<1>6. CASE ReadUser(q)
  BY <1>0, <1>6 DEF ReadUser, CopyMove, Op, Shape
<1>7. CASE ReadSubscription(q)
  BY <1>0, <1>7 DEF ReadSubscription, CopyMove, Op, Shape
<1>8. CASE ListTokens(q)
  <2>1. CASE Goto(q, "try")
    BY <1>2, <1>8, <2>1 DEF ListTokens
  <2>2. CASE ~Goto(q, "try")
    <3> DEFINE o == [op[q] EXCEPT !.pc = "try",
                                  !.flagged = {t \in DOMAIN rows : rows[t].primary},
                                  !.rest = DOMAIN rows]
    <3>1. op' = [op EXCEPT ![q] = o] /\ UNCHANGED cache /\ op[q].pc = "list"
      BY <1>8, <2>2 DEF ListTokens
    <3>2. /\ o.kind = op[q].kind /\ o.client = op[q].client
          /\ o.etag = op[q].etag /\ o.since = op[q].since
      BY <1>0 DEF Op
    <3> HIDE DEF o
    <3> QED
      BY <1>0, <3>1, <3>2 DEF CopyMove, Shape
  <2> QED
    BY <2>1, <2>2
<1>9. CASE TryToken(q)
  <2>1. PICK t \in Candidates(op[q]) :
          \/ op' = [op EXCEPT ![q].token = t,
                              ![q].pc = IF rows[t].primary THEN "build" ELSE "promote"]
          \/ op' = [op EXCEPT ![q].hint = @ \ {t}, ![q].flagged = @ \ {t},
                              ![q].rest = @ \ {t}]
    BY <1>9 DEF TryToken
  <2> QED
    BY <1>0, <1>9, <2>1 DEF TryToken, CopyMove, Op, Shape
<1>10. CASE Resolve(q)
  <2>1. CASE Finish(q)
    BY <1>1, <2>1
  <2>2. CASE ~Finish(q)
    <3> DEFINE b == [op[q].body EXCEPT !["user"] = stored["user"]]
    <3>1. b["user"] = stored["user"]
      BY <1>0 DEF Op, Documents, Parts
    <3>2. op' = [op EXCEPT ![q] = [op[q] EXCEPT !.pc = "build", !.body = b,
                                                !.version = version]]
      BY <1>0, <1>10, <2>2 DEF Resolve
    <3> HIDE DEF b
    <3> QED
      BY <1>0, <1>10, <3>1, <3>2 DEF Resolve, CopyMove, Op
  <2> QED
    BY <2>1, <2>2
<1>11. CASE Build(q)
  <2>1. CASE Finish(q)
    BY <1>1, <2>1
  <2>2. CASE ~Finish(q)
    <3>0. PICK entry \in AccessRead :
             op' = [op EXCEPT ![q].pc = "rendered",
                              ![q].body = [op[q].body EXCEPT !["access"] = entry]]
      BY <1>11, <2>2 DEF Build, Answer
    <3> DEFINE b == [op[q].body EXCEPT !["access"] = entry]
    <3>1. b["user"] = op[q].body["user"] /\ b["access"] \in {stored["access"], None}
      BY <1>0 DEF Op, Documents, Parts, AccessRead
    <3>2. op' = [op EXCEPT ![q] = [op[q] EXCEPT !.pc = "rendered", !.body = b]]
      BY <1>0, <3>0
    <3> HIDE DEF b
    <3> QED
      BY <1>0, <1>11, <3>1, <3>2 DEF Build, CopyMove, Op
  <2> QED
    BY <2>1, <2>2
<1> QED
  BY <1>3, <1>4, <1>5, <1>6, <1>7, <1>8, <1>9, <1>10, <1>11 DEF Continue

\* A step of one request.
LEMMA CopyContinue ==
    ASSUME TypeInv, CopyInv, NEW p \in Procs, Continue(p) \/ Crash(p)
    PROVE  CopyInv'
<1>0. /\ op \in [Procs -> Op] /\ cache \in [Clients -> ETags]
      /\ \A r \in Procs : op[r] \in Op /\ Shape(op[r], DOMAIN rows) /\ CopyKnown(op[r])
  BY DEF TypeInv, TypeOK, CopyInv
<1>1. UNCHANGED stored /\ \A r \in Procs : r # p => op'[r] = op[r]
  <2>1. \E o : op' = [op EXCEPT ![p] = o]
    BY DEF Continue, Revoke, Insert, AfterInsert, StoreSecret, SetPrimary, MarkDirty,
           ReadUser, ReadSubscription, ListTokens, TryToken, NoTokenLeft, Promote, Resolve,
           Build, Answer, MarkRendered, StatementFails, Crash, Finish, Goto
  <2>2. UNCHANGED stored
    BY DEF Continue, Revoke, Insert, StoreSecret, SetPrimary, MarkDirty,
           ReadUser, ReadSubscription, ListTokens, TryToken, NoTokenLeft, Promote, Resolve,
           Build, MarkRendered, StatementFails, Crash
  <2> QED
    BY <1>0, <2>1, <2>2
<1>2. \/ UNCHANGED cache
      \/ /\ op[p].kind = "fetch" /\ op'[p] = NoOp
         /\ \E e : cache' = [cache EXCEPT ![op[p].client] = e]
  BY <1>0 DEF Continue, Revoke, Insert, StoreSecret, SetPrimary, MarkDirty,
         ReadUser, ReadSubscription, ListTokens, TryToken, NoTokenLeft, Promote, Resolve,
         Build, MarkRendered, StatementFails, Crash, Finish
<1>3. CopyMove(p)
  BY CopyMoves
<1>4. NoOp.kind = "none" /\ NoOp.pc = "idle"
  BY DEF NoOp
<1>5. CopyKnown(op[p])'
  <2>1. CASE op'[p] = NoOp
    BY <1>4, <2>1 DEF CopyKnown
  <2>2. CASE op'[p] # NoOp
    BY <1>0, <1>1, <1>3, <2>2 DEF CopyMove, CopyKnown, Parts
  <2> QED
    BY <2>1, <2>2
<1>6. ASSUME NEW r \in Procs, r # p PROVE CopyKnown(op[r])'
  <2>1. op[r].kind = "fetch" => cache'[op[r].client] = op[r].etag
    <3>1. CASE UNCHANGED cache
      BY <1>0, <3>1 DEF CopyKnown
    <3>2. CASE /\ op[p].kind = "fetch"
               /\ \E e : cache' = [cache EXCEPT ![op[p].client] = e]
      BY <1>0, <1>6, <3>2 DEF CopyKnown, CopyInv, Shape
    <3> QED
      BY <1>2, <3>1, <3>2
  <2> QED
    BY <1>0, <1>1, <1>6, <2>1 DEF CopyKnown
<1>7. \A r \in Procs : op'[r].kind = "fetch" =>
         op[r].kind = "fetch" /\ op'[r].client = op[r].client
  BY <1>1, <1>3, <1>4 DEF CopyMove
<1> QED
  BY <1>5, <1>6, <1>7 DEF CopyInv

\* The content changes under the requests of f.
LEMMA CopyRevise ==
    ASSUME TypeInv, NEW f \in [Procs -> Op], Revise(f, op'), UNCHANGED cache,
           \A q \in Procs : CopyKnown(f[q]),
           \A p, q \in Procs : f[p].kind = "fetch" /\ f[q].kind = "fetch"
                               /\ f[p].client = f[q].client => p = q
    PROVE  CopyInv'
<1>1. PICK part \in Parts, v \in 0..MaxPart :
         /\ stored' = [stored EXCEPT ![part] = v]
         /\ op' = [q \in Procs |-> IF f[q].pc = "idle" THEN f[q]
                                   ELSE [f[q] EXCEPT !.since[part] = @ \cup {v}]]
  BY DEF Revise
<1>2. ASSUME NEW q \in Procs
      PROVE  /\ CopyKnown(op[q])'
             /\ op'[q].kind = f[q].kind /\ op'[q].client = f[q].client
  <2> DEFINE s == [f[q].since EXCEPT ![part] = @ \cup {v}]
  <2>1. op'[q] = IF f[q].pc = "idle" THEN f[q] ELSE [f[q] EXCEPT !.since = s]
    BY <1>1
  <2>2. /\ \A u \in Parts : stored'[u] = IF u = part THEN v ELSE stored[u]
        /\ s[part] = f[q].since[part] \cup {v}
        /\ \A u \in Parts : u # part => s[u] = f[q].since[u]
    BY <1>1 DEF TypeInv, TypeOK, Content, Op
  <2> HIDE DEF s
  <2>3. /\ op'[q].kind = f[q].kind /\ op'[q].client = f[q].client /\ op'[q].pc = f[q].pc
        /\ op'[q].body = f[q].body /\ op'[q].etag = f[q].etag
        /\ f[q].pc # "idle" => op'[q].since = s
    BY <2>1 DEF Op
  <2>4. f[q].pc # "idle" => /\ \A u \in Parts : stored'[u] \in s[u]
                            /\ \A u \in Parts : f[q].since[u] \subseteq s[u]
    BY <2>2 DEF CopyKnown
  <2> QED
    BY <2>3, <2>4 DEF CopyKnown, Parts
<1> QED
  BY <1>2 DEF CopyInv

LEMMA BegunCopy ==
    ASSUME TypeInv, NEW kind \in RequestKinds,
           NEW pc \in {"revoke", "insert", "dirty", "user", "resolve"}
    PROVE  \A part \in Parts : stored[part] \in Begun(kind, pc).since[part]
BY DEF Begun, NoOp

\* A request of an operator or of a client begins.
LEMMA CopyBegin ==
    ASSUME TypeInv, CopyInv, NEW p \in Procs, OperatorRequest(p) \/ FetchRequest(p)
    PROVE  CopyInv'
<1>0. /\ op \in [Procs -> Op] /\ UNCHANGED <<stored, cache>>
      /\ \A r \in Procs : CopyKnown(op[r]) /\ Shape(op[r], DOMAIN rows)
  BY DEF TypeInv, TypeOK, CopyInv, OperatorRequest, FetchRequest
<1>1. ASSUME NEW o, op' = [op EXCEPT ![p] = o], CopyKnown(o),
             o.kind = "fetch" => \A r \in Procs : op[r].client # o.client
      PROVE  CopyInv'
  <2>1. \A r \in Procs : op'[r] = IF r = p THEN o ELSE op[r]
    BY <1>0, <1>1
  <2>2. \A r \in Procs : CopyKnown(op[r])'
    BY <1>0, <1>1, <2>1 DEF CopyKnown
  <2> QED
    BY <1>1, <2>1, <2>2 DEF CopyInv
<1>2. CASE OperatorRequest(p)
  <2>1. PICK o : /\ Begin(p, o)
                 /\ o \in {Begun("rotate", "revoke"), Begun("issue", "insert"),
                           Begun("revoke", "revoke"), Begun("view", "user"),
                           Begun("refresh", "dirty")}
    BY <1>2 DEF OperatorRequest
  <2>2. PICK kind \in RequestKinds, pc \in {"revoke", "insert", "dirty", "user"} :
           o = Begun(kind, pc) /\ kind # "fetch"
    BY <2>1 DEF RequestKinds
  <2>3. o.kind # "fetch" /\ \A part \in Parts : stored[part] \in o.since[part]
    BY <2>2, BegunType, BegunCopy DEF TypeInv
  <2> QED
    BY <1>1, <2>1, <2>3 DEF Begin, CopyKnown
<1>3. CASE FetchRequest(p)
  <2> DEFINE b == Begun("fetch", "resolve")
  <2>1. PICK c \in Clients, t \in DOMAIN rows :
           /\ \A q \in Procs : op[q].client # c
           /\ Begin(p, [b EXCEPT !.client = c, !.token = t, !.etag = cache[c]])
    BY <1>3 DEF FetchRequest
  <2>2. b \in Op /\ b.kind = "fetch" /\ b.pc = "resolve"
    BY BegunType DEF RequestKinds, TypeInv
  <2>3. \A part \in Parts : stored[part] \in b.since[part]
    BY BegunCopy DEF RequestKinds
  <2> DEFINE o == [b EXCEPT !.client = c, !.token = t, !.etag = cache[c]]
  <2> HIDE DEF b
  <2>4. /\ o.kind = "fetch" /\ o.pc = "resolve" /\ o.client = c /\ o.etag = cache[c]
        /\ o.since = b.since
    BY <2>2 DEF Op
  <2>5. op' = [op EXCEPT ![p] = o]
    BY <2>1 DEF Begin
  <2> HIDE DEF o
  <2> QED
    BY <1>1, <2>1, <2>3, <2>4, <2>5 DEF CopyKnown
<1> QED
  BY <1>2, <1>3

LEMMA CopyStep == TypeInv /\ CopyInv /\ [Next]_vars => CopyInv'
<1> SUFFICES ASSUME TypeInv, CopyInv, [Next]_vars PROVE CopyInv'
  OBVIOUS
<1>0. op \in [Procs -> Op]
  BY DEF TypeInv, TypeOK
<1>1. CASE UNCHANGED <<stored, cache, op>>
  BY <1>1 DEF CopyInv, CopyKnown
<1>2. ASSUME NEW p \in Procs, Change(p) PROVE CopyInv'
  <2> DEFINE b == Begun("change", "dirty")
             f == [op EXCEPT ![p] = b]
  <2>1. b \in Op /\ b.kind = "change" /\ \A part \in Parts : stored[part] \in b.since[part]
    BY BegunType, BegunCopy DEF RequestKinds, TypeInv
  <2>2. Revise(f, op') /\ UNCHANGED cache
    BY <1>2 DEF Change
  <2> HIDE DEF b
  <2>3. f \in [Procs -> Op] /\ \A q \in Procs : f[q] = IF q = p THEN b ELSE op[q]
    BY <1>0, <2>1
  <2>4. \A q \in Procs : CopyKnown(f[q])
    BY <2>1, <2>3 DEF CopyInv, CopyKnown
  <2>5. \A q, r \in Procs : f[q].kind = "fetch" /\ f[r].kind = "fetch"
                            /\ f[q].client = f[r].client => q = r
    BY <2>1, <2>3 DEF CopyInv
  <2> HIDE DEF f
  <2> QED
    BY <2>2, <2>3, <2>4, <2>5, CopyRevise
<1>3. CASE UnmarkedChange
  BY <1>0, <1>3, CopyRevise DEF UnmarkedChange, CopyInv
<1>4. CASE \E t \in DOMAIN rows : Expire(t)
  BY <1>1, <1>4 DEF Expire
<1> QED
  BY <1>1, <1>2, <1>3, <1>4, CopyBegin, CopyContinue DEF Next, vars

LEMMA CopyInvariant == Spec => []CopyInv
<1>1. Init => CopyInv
  BY DEF Init, CopyInv, CopyKnown, NoOp
<1> QED
  BY <1>1, CopyStep, TypeInvariant, PTL DEF Spec

\* Whatever a fetch is answered, every entry its client's copy then shows is as
\* it was at some moment during the request, for any number of clients, requests
\* and versions.
THEOREM AnswersCurrent == Spec => AnswersAreCurrent
<1> DEFINE Step ==
      \A p \in Procs :
          /\ op[p].kind = "fetch"
          /\ (Build(p) \/ MarkRendered(p)) /\ op'[p].pc = "idle"
          => ShowsOnly(cache'[op[p].client].body, op[p].since)
<1>1. ASSUME TypeInv, CopyInv, [Next]_vars PROVE Step
  <2> SUFFICES ASSUME NEW p \in Procs, op[p].kind = "fetch",
                      Build(p) \/ MarkRendered(p), op'[p].pc = "idle"
               PROVE  ShowsOnly(cache'[op[p].client].body, op[p].since)
    OBVIOUS
  <2>0. /\ op \in [Procs -> Op] /\ op[p] \in Op /\ Shape(op[p], DOMAIN rows)
        /\ CopyKnown(op[p]) /\ cache \in [Clients -> ETags]
    <3>1. op \in [Procs -> Op] /\ cache \in [Clients -> ETags]
      BY <1>1 DEF TypeInv, TypeOK
    <3>2. Shape(op[p], DOMAIN rows)
      BY <1>1 DEF TypeInv
    <3>3. CopyKnown(op[p])
      BY <1>1 DEF CopyInv
    <3> QED
      BY <3>1, <3>2, <3>3
  <2>1. CASE Build(p)
    <3>1. PICK entry \in AccessRead :
             Answer(p, [op[p].body EXCEPT !["access"] = entry])
      BY <2>1 DEF Build
    <3> DEFINE body == [op[p].body EXCEPT !["access"] = entry]
    <3>2. CASE Matches(op[p], body)
      <4>1. cache[op[p].client].body = body /\ UNCHANGED cache
        BY <2>0, <2>1, <3>2 DEF Build, Matches, ETagOf, CopyKnown
      <4>2. body["user"] = op[p].body["user"] /\ body["access"] \in {stored["access"], None}
        BY <2>0 DEF Op, Documents, Parts, AccessRead
      <4>3. op[p].body["user"] \in op[p].since["user"]
            /\ stored["access"] \in op[p].since["access"]
        BY <2>0, <2>1 DEF Build, CopyKnown, Parts
      <4> HIDE DEF body
      <4> QED
        BY <4>1, <4>2, <4>3 DEF Parts, ShowsOnly
    <3>3. CASE ~Matches(op[p], body)
      <4>1. op' = [op EXCEPT ![p].pc = "rendered", ![p].body = body]
        BY <3>1, <3>3 DEF Answer
      <4> HIDE DEF body
      <4> QED
        BY <2>0, <4>1 DEF Op
    <3> QED
      BY <3>2, <3>3
  <2>2. CASE MarkRendered(p)
    <3>1. cache' = [cache EXCEPT ![op[p].client] = ETagOf(op[p], op[p].body)]
          /\ op[p].pc = "rendered"
      BY <2>2 DEF MarkRendered
    <3>2. cache'[op[p].client].body = op[p].body
      BY <2>0, <3>1 DEF ETagOf, Shape
    <3> QED
      BY <2>0, <3>1, <3>2 DEF CopyKnown, Parts, ShowsOnly
  <2> QED
    BY <2>1, <2>2
<1>2. TypeInv /\ CopyInv /\ [Next]_vars => [Step]_vars
  BY <1>1
<1> QED
  BY <1>2, TypeInvariant, CopyInvariant, PTL DEF Spec, AnswersAreCurrent
-----------------------------------------------------------------------------
(***************************************************************************)
(* Requests that run one after the other.                                  *)
(***************************************************************************)
Alone == \A p, q \in Procs : p = q

\* The points that requests of each kind pass.
Course(o) ==
    /\ o.kind \notin {"unmarked", "expire"}
    /\ o.kind = "none" => o.pc = "idle"
    /\ o.kind = "rotate" => o.pc \in {"revoke", "insert", "secret", "primary", "dirty"}
    /\ o.kind = "issue" => o.pc \in {"insert", "secret"}
    /\ o.kind = "revoke" => o.pc = "revoke"
    /\ o.kind = "change" => o.pc = "dirty"
    /\ o.kind = "view" => o.pc \notin {"idle", "revoke", "dirty", "resolve"}
    /\ o.kind = "refresh" => o.pc \notin {"idle", "revoke", "resolve"}

LEMMA NoOpCourse == NoOp.kind = "none" /\ NoOp.pc = "idle" /\ Course(NoOp)
BY DEF NoOp, Course

\* A request begins.
LEMMA BegunAt ==
    ASSUME TypeInv, NEW p \in Procs, OperatorRequest(p) \/ FetchRequest(p) \/ Change(p)
    PROVE  /\ op[p].pc = "idle"
           /\ \/ op'[p].kind = "rotate" /\ op'[p].pc = "revoke"
              \/ op'[p].kind = "issue" /\ op'[p].pc = "insert"
              \/ op'[p].kind = "revoke" /\ op'[p].pc = "revoke"
              \/ op'[p].kind = "view" /\ op'[p].pc = "user"
              \/ op'[p].kind = "refresh" /\ op'[p].pc = "dirty"
              \/ op'[p].kind = "fetch" /\ op'[p].pc = "resolve"
              \/ op'[p].kind = "change" /\ op'[p].pc = "dirty"
           /\ op'[p].kind # "change" => UNCHANGED stored
           /\ UNCHANGED <<rows, primaryId, version, needRefresh, cache, rendered, shown>>
<1>0. op \in [Procs -> Op]
  BY DEF TypeInv, TypeOK
<1>1. CASE OperatorRequest(p)
  <2>1. PICK kind \in {"rotate", "issue", "revoke", "view", "refresh"},
             pc \in {"revoke", "insert", "user", "dirty"} :
           /\ Begin(p, Begun(kind, pc))
           /\ <<kind, pc>> \in {<<"rotate", "revoke">>, <<"issue", "insert">>,
                               <<"revoke", "revoke">>, <<"view", "user">>,
                               <<"refresh", "dirty">>}
    BY <1>1 DEF OperatorRequest
  <2>2. Begun(kind, pc).kind = kind /\ Begun(kind, pc).pc = pc
    BY BegunType DEF RequestKinds, TypeInv
  <2> QED
    BY <1>0, <1>1, <2>1, <2>2 DEF OperatorRequest, Begin
<1>2. CASE FetchRequest(p)
  <2> DEFINE b == Begun("fetch", "resolve")
  <2>1. PICK c \in Clients, t \in DOMAIN rows :
           Begin(p, [b EXCEPT !.client = c, !.token = t, !.etag = cache[c]])
    BY <1>2 DEF FetchRequest
  <2>2. b \in Op /\ b.kind = "fetch" /\ b.pc = "resolve"
    BY BegunType DEF RequestKinds, TypeInv
  <2> HIDE DEF b
  <2> QED
    BY <1>0, <1>2, <2>1, <2>2 DEF FetchRequest, Begin, Op
<1>3. CASE Change(p)
  <2> DEFINE b == Begun("change", "dirty")
  <2>1. b \in Op /\ b.kind = "change" /\ b.pc = "dirty"
    BY BegunType DEF RequestKinds, TypeInv
  <2> HIDE DEF b
  <2>2. Revise([op EXCEPT ![p] = b], op') /\ op[p].pc = "idle"
    BY <1>3 DEF Change, b
  <2>3. \E part \in Parts, v \in 0..MaxPart : op'[p] = [b EXCEPT !.since[part] = @ \cup {v}]
    BY <1>0, <2>1, <2>2 DEF Revise
  <2> QED
    BY <1>3, <2>1, <2>2, <2>3 DEF Change, Op
<1> QED
  BY <1>1, <1>2, <1>3

\* Content changes under a request: only what it has seen of the changes is recorded.
LEMMA UnmarkedKeeps ==
    ASSUME TypeInv, NEW p \in Procs, UnmarkedChange
    PROVE  \E s : op'[p] \in {op[p], [op[p] EXCEPT !.since = s]}
<1>1. PICK part \in Parts, v \in 0..MaxPart :
         op' = [q \in Procs |-> IF op[q].pc = "idle" THEN op[q]
                                ELSE [op[q] EXCEPT !.since[part] = @ \cup {v}]]
  BY DEF UnmarkedChange, Revise
<1> QED
  BY <1>1

\* One step of a request: where it goes on, and that it is the same request.
Proceeds(o, n) ==
    /\ n.kind = o.kind
    /\ \/ o.pc = "revoke" /\ o.kind = "rotate" /\ n.pc = "insert"
       \/ o.pc = "insert" /\ n.pc = "secret"
       \/ o.pc = "secret" /\ o.kind # "issue" /\ n.pc = "primary" /\ n.token = o.token
       \/ o.pc = "primary" /\ n.token = o.token
          /\ n.pc = IF o.kind = "rotate" THEN "dirty" ELSE "build"
       \/ o.pc = "dirty" /\ o.kind = "refresh" /\ n.pc = "user"
       \/ o.pc = "user" /\ n.pc = "ensure"
       \/ o.pc = "ensure" /\ n.pc = "list"
       \/ o.pc = "list" /\ n.pc = "try" /\ n.hint = o.hint /\ n.past = o.past
       \/ o.pc = "try" /\ n.pc \in {"try", "insert", "promote", "build"} /\ n.past = o.past
       \/ o.pc = "promote" /\ n.pc = "build" /\ n.token = o.token
       \/ o.pc = "resolve" /\ n.pc = "build"
       \/ o.pc = "build" /\ n.pc = "rendered" /\ n.token = o.token

LEMMA Proceeding ==
    ASSUME TypeInv, NEW p \in Procs, Continue(p) \/ Crash(p)
    PROVE  /\ op[p].pc # "idle"
           /\ op'[p] = NoOp \/ Proceeds(op[p], op'[p])
<1>0. /\ op \in [Procs -> Op] /\ op[p] \in Op
  BY DEF TypeInv, TypeOK
<1>1. CASE Crash(p) \/ StatementFails(p) \/ MarkRendered(p)
  BY <1>0, <1>1 DEF Crash, StatementFails, MarkRendered, Finish
<1>2. CASE Revoke(p) \/ StoreSecret(p) \/ SetPrimary(p) \/ MarkDirty(p) \/ NoTokenLeft(p)
           \/ Promote(p)
  <2>1. CASE Finish(p)
    BY <1>0, <1>2, <2>1 DEF Finish, Revoke, StoreSecret, SetPrimary, MarkDirty, NoTokenLeft,
                            Promote
  <2>2. CASE ~Finish(p)
    BY <1>0, <1>2, <2>2 DEF Revoke, StoreSecret, SetPrimary, MarkDirty, NoTokenLeft, Promote,
                            Goto, Proceeds, Op
  <2> QED
    BY <2>1, <2>2
<1>3. CASE Insert(p)
  BY <1>0, <1>3 DEF Insert, AfterInsert, Proceeds, Op
<1>4. CASE ReadUser(p)
  BY <1>0, <1>4 DEF ReadUser, Proceeds, Op
<1>5. CASE ReadSubscription(p)
  BY <1>0, <1>5 DEF ReadSubscription, Proceeds, Op
<1>6. CASE ListTokens(p)
  <2>1. CASE Goto(p, "try")
    BY <1>0, <1>6, <2>1 DEF ListTokens, Goto, Proceeds, Op
  <2>2. CASE ~Goto(p, "try")
    <3> DEFINE F == {t \in DOMAIN rows : rows[t].primary}
               n == [op[p] EXCEPT !.pc = "try", !.flagged = F, !.rest = DOMAIN rows]
    <3>1. op'[p] = n /\ op[p].pc = "list"
      BY <1>0, <1>6, <2>2 DEF ListTokens
    <3>2. n.kind = op[p].kind /\ n.pc = "try" /\ n.hint = op[p].hint /\ n.past = op[p].past
      BY <1>0 DEF Op
    <3> HIDE DEF n
    <3> QED
      BY <3>1, <3>2 DEF Proceeds
  <2> QED
    BY <2>1, <2>2
<1>7. CASE TryToken(p)
  <2>1. PICK t \in Candidates(op[p]) :
          \/ op' = [op EXCEPT ![p].token = t,
                              ![p].pc = IF rows[t].primary THEN "build" ELSE "promote"]
          \/ op' = [op EXCEPT ![p].hint = @ \ {t}, ![p].flagged = @ \ {t},
                              ![p].rest = @ \ {t}]
    BY <1>7 DEF TryToken
  <2> QED
    BY <1>0, <1>7, <2>1 DEF TryToken, Proceeds, Op
<1>8. CASE Resolve(p)
  <2>1. CASE Finish(p)
    BY <1>0, <1>8, <2>1 DEF Resolve, Finish
  <2>2. CASE ~Finish(p)
    BY <1>0, <1>8, <2>2 DEF Resolve, Proceeds, Op
  <2> QED
    BY <2>1, <2>2
<1>9. CASE Build(p)
  <2>1. CASE Finish(p)
    BY <1>0, <1>9, <2>1 DEF Build, Finish
  <2>2. CASE ~Finish(p)
    <3>1. PICK b : op' = [op EXCEPT ![p].pc = "rendered", ![p].body = b]
      BY <1>9, <2>2 DEF Build, Answer
    <3> QED
      BY <1>0, <1>9, <3>1 DEF Build, Proceeds, Op
  <2> QED
    BY <2>1, <2>2
<1> QED
  BY <1>1, <1>2, <1>3, <1>4, <1>5, <1>6, <1>7, <1>8, <1>9 DEF Continue

LEMMA CourseStep ==
    ASSUME Alone, TypeInv, NEW p \in Procs, Course(op[p]), [Next]_vars
    PROVE  Course(op[p])'
<1>0. op \in [Procs -> Op] /\ op[p] \in Op /\ Shape(op[p], DOMAIN rows)
  BY DEF TypeInv, TypeOK
<1>1. CASE OperatorRequest(p) \/ FetchRequest(p) \/ Change(p)
  BY <1>1, BegunAt DEF Course
<1>2. CASE Continue(p) \/ Crash(p)
  <2>1. CASE op'[p] = NoOp
    BY <2>1, NoOpCourse DEF Course
  <2>2. CASE Proceeds(op[p], op'[p])
    BY <1>0, <2>2 DEF Proceeds, Course, Shape
  <2> QED
    BY <1>2, <2>1, <2>2, Proceeding
<1>3. CASE UnmarkedChange
  <2>1. PICK s : op'[p] \in {op[p], [op[p] EXCEPT !.since = s]}
    BY <1>3, UnmarkedKeeps
  <2>2. op'[p].kind = op[p].kind /\ op'[p].pc = op[p].pc
    BY <1>0, <2>1 DEF Op
  <2> QED
    BY <2>2 DEF Course
<1>4. CASE UNCHANGED op
  BY <1>4 DEF Course
<1> QED
  BY <1>1, <1>2, <1>3, <1>4 DEF Alone, Next, vars, Expire
-----------------------------------------------------------------------------
\* What a request on its own knows of the content: the documents are marked clean
\* when they show what is stored, except between a change and its mark.
Rendering(o) ==
    /\ o.kind # "change" /\ ~needRefresh => rendered = stored
    /\ /\ o.kind \in {"view", "refresh", "fetch"}
       /\ o.pc \notin {"dirty", "user", "resolve"}
       => o.body["user"] = stored["user"]
    /\ o.pc = "rendered" => o.body = stored

RenderInv == \A p \in Procs : Course(op[p]) /\ Rendering(op[p])

\* How a step of a request moves what it has read.
LEMMA Reading ==
    ASSUME TypeInv, NEW p \in Procs, Continue(p), op'[p] # NoOp, Faults = {}
    PROVE  /\ op[p].pc \notin {"user", "resolve", "build"} => op'[p].body = op[p].body
           /\ op[p].pc \in {"user", "resolve"} => op'[p].body["user"] = stored["user"]
           /\ op[p].pc = "build" => op'[p].body = [op[p].body EXCEPT !["access"] = stored["access"]]
<1>0. /\ op \in [Procs -> Op] /\ op[p] \in Op
  BY DEF TypeInv, TypeOK
<1>1. ~Finish(p)
  BY <1>0 DEF Finish
<1>2. CASE Revoke(p) \/ StoreSecret(p) \/ SetPrimary(p) \/ MarkDirty(p) \/ NoTokenLeft(p)
           \/ Promote(p)
  BY <1>0, <1>1, <1>2 DEF Revoke, StoreSecret, SetPrimary, MarkDirty, NoTokenLeft, Promote,
                          Goto, Op
<1>3. CASE Insert(p)
  BY <1>0, <1>3 DEF Insert, AfterInsert, Op
<1>4. CASE ReadUser(p)
  <2> DEFINE b == [op[p].body EXCEPT !["user"] = stored["user"]]
  <2>1. b["user"] = stored["user"]
    BY <1>0 DEF Op, Documents, Parts
  <2>2. op'[p].body = b /\ op[p].pc = "user"
    BY <1>0, <1>4 DEF ReadUser, Op
  <2> QED
    BY <2>1, <2>2
<1>5. CASE ReadSubscription(p)
  BY <1>0, <1>5 DEF ReadSubscription, Op
<1>6. CASE ListTokens(p)
  <2> DEFINE F == {t \in DOMAIN rows : rows[t].primary}
             n == [op[p] EXCEPT !.pc = "try", !.flagged = F, !.rest = DOMAIN rows]
  <2>1. op'[p] = n /\ op[p].pc = "list"
    BY <1>0, <1>6 DEF ListTokens
  <2>2. n.body = op[p].body
    BY <1>0 DEF Op
  <2> HIDE DEF n
  <2> QED
    BY <2>1, <2>2
<1>7. CASE TryToken(p)
  <2>1. PICK t \in Candidates(op[p]) :
          \/ op' = [op EXCEPT ![p].token = t,
                              ![p].pc = IF rows[t].primary THEN "build" ELSE "promote"]
          \/ op' = [op EXCEPT ![p].hint = @ \ {t}, ![p].flagged = @ \ {t},
                              ![p].rest = @ \ {t}]
    BY <1>7 DEF TryToken
  <2> QED
    BY <1>0, <1>7, <2>1 DEF TryToken, Op
<1>8. CASE Resolve(p)
  <2> DEFINE b == [op[p].body EXCEPT !["user"] = stored["user"]]
  <2>1. b["user"] = stored["user"]
    BY <1>0 DEF Op, Documents, Parts
  <2>2. op'[p].body = b /\ op[p].pc = "resolve"
    BY <1>0, <1>1, <1>8 DEF Resolve, Op
  <2> QED
    BY <2>1, <2>2
<1>9. CASE Build(p)
  <2>1. AccessRead = {stored["access"]}
    BY DEF AccessRead
  <2> DEFINE b == [op[p].body EXCEPT !["access"] = stored["access"]]
  <2>2. op' = [op EXCEPT ![p].pc = "rendered", ![p].body = b] /\ op[p].pc = "build"
    BY <1>1, <1>9, <2>1 DEF Build, Answer
  <2> HIDE DEF b
  <2>3. op'[p].body = b
    BY <1>0, <2>2 DEF Op
  <2> QED
    BY <2>2, <2>3 DEF b
<1> QED
  BY <1>1, <1>2, <1>3, <1>4, <1>5, <1>6, <1>7, <1>8, <1>9 DEF Continue, MarkRendered, StatementFails

LEMMA RenderStep ==
    ASSUME Alone, Faults = {}, "unmarked" \notin Requests, TypeInv, NEW p \in Procs,
           Course(op[p]), Rendering(op[p]), [Next]_vars
    PROVE  Rendering(op[p])'
<1>0. /\ op \in [Procs -> Op] /\ op[p] \in Op /\ Shape(op[p], DOMAIN rows) /\ stored \in Content
  BY DEF TypeInv, TypeOK
<1>1. CASE OperatorRequest(p) \/ FetchRequest(p) \/ Change(p)
  <2>1. UNCHANGED <<needRefresh, rendered>> /\ op[p].kind # "change"
    BY <1>1, BegunAt DEF Course
  <2>2. /\ op'[p].pc \in {"revoke", "insert", "user", "dirty", "resolve"}
        /\ op'[p].pc = "insert" => op'[p].kind = "issue"
    BY <1>1, BegunAt
  <2>3. op'[p].pc = "revoke" => op'[p].kind \in {"rotate", "revoke"}
    BY <1>1, BegunAt
  <2>4. op'[p].kind # "change" => UNCHANGED stored
    BY <1>1, BegunAt
  <2> QED
    BY <2>1, <2>2, <2>3, <2>4 DEF Rendering
<1>2. CASE Continue(p)
  <2>1. UNCHANGED stored
    BY <1>2 DEF Continue, Revoke, Insert, StoreSecret, SetPrimary, MarkDirty,
         ReadUser, ReadSubscription, ListTokens, TryToken, NoTokenLeft, Promote, Resolve,
         Build, MarkRendered, StatementFails
  <2>2. \/ needRefresh'
        \/ needRefresh' = FALSE /\ op[p].pc = "rendered" /\ rendered' = op[p].body
        \/ UNCHANGED <<needRefresh, rendered>> /\ op[p].pc # "dirty"
    BY <1>2 DEF Continue, Revoke, Insert, StoreSecret, SetPrimary, MarkDirty, Dirtied,
         ReadUser, ReadSubscription, ListTokens, TryToken, NoTokenLeft, Promote, Resolve,
         Build, MarkRendered, StatementFails
  <2>3. ~needRefresh' => rendered' = stored'
    BY <2>1, <2>2 DEF Rendering, Course
  <2>4. CASE op'[p] = NoOp
    BY <2>3, <2>4, NoOpCourse DEF Rendering
  <2>5. CASE op'[p] # NoOp
    <3>1. Proceeds(op[p], op'[p])
      BY <1>2, <2>5, Proceeding
    <3>2. /\ op'[p].kind \in {"view", "refresh", "fetch"}
          /\ op'[p].pc \notin {"dirty", "user", "resolve"}
          => op'[p].body["user"] = stored["user"]
      <4> SUFFICES ASSUME op'[p].kind \in {"view", "refresh", "fetch"},
                          op'[p].pc \notin {"dirty", "user", "resolve"}
                   PROVE  op'[p].body["user"] = stored["user"]
        OBVIOUS
      <4>1. CASE op[p].pc \in {"user", "resolve"}
        BY <1>2, <2>5, <4>1, Reading
      <4>2. CASE op[p].pc \notin {"user", "resolve"}
        <5>1. op[p].kind \in {"view", "refresh", "fetch"} /\ op[p].pc # "dirty"
          BY <3>1 DEF Proceeds
        <5>2. op[p].body["user"] = stored["user"]
          BY <4>2, <5>1 DEF Rendering
        <5>3. op'[p].body \in {op[p].body, [op[p].body EXCEPT !["access"] = stored["access"]]}
          BY <1>2, <2>5, <4>2, Reading
        <5> QED
          BY <1>0, <5>2, <5>3 DEF Op, Documents, Parts
      <4> QED
        BY <4>1, <4>2
    <3>3. op'[p].pc = "rendered" => op'[p].body = stored
      <4> SUFFICES ASSUME op'[p].pc = "rendered" PROVE op'[p].body = stored
        OBVIOUS
      <4>1. op[p].pc = "build"
        BY <3>1 DEF Proceeds
      <4>2. op[p].kind \in {"view", "refresh", "fetch"}
        BY <1>0, <4>1 DEF Course, Op, RequestKinds
      <4>3. op[p].body["user"] = stored["user"]
        BY <4>1, <4>2 DEF Rendering
      <4>4. op'[p].body = [op[p].body EXCEPT !["access"] = stored["access"]]
        BY <1>2, <2>5, <4>1, Reading
      <4>5. op[p].body \in [Parts -> 0..MaxPart \cup {None}] /\ stored \in [Parts -> 0..MaxPart]
        BY <1>0 DEF Op, Documents, Content
      <4> QED
        BY <4>3, <4>4, <4>5 DEF Parts
    <3> QED
      BY <2>1, <2>3, <3>2, <3>3 DEF Rendering
  <2> QED
    BY <2>4, <2>5
<1>3. CASE UNCHANGED <<stored, needRefresh, op, rendered>>
  BY <1>3 DEF Rendering
<1> QED
  BY <1>1, <1>2, <1>3 DEF Alone, Next, vars, Expire, Crash, UnmarkedChange

\* When requests run one after the other, nothing fails and every change is marked,
\* the artifacts that are not marked dirty are those of the content that is stored.
THEOREM CleanMeansRenderedSerially ==
    ASSUME Alone, Faults = {}, "unmarked" \notin Requests
    PROVE  Spec => []CleanMeansRendered
<1>1. Init => RenderInv
  BY NoOpCourse DEF Init, RenderInv, Rendering
<1>2. TypeInv /\ RenderInv /\ [Next]_vars => RenderInv'
  BY CourseStep, RenderStep DEF RenderInv
<1>3. RenderInv => CleanMeansRendered
  <2> SUFFICES ASSUME RenderInv, Quiet, ~needRefresh PROVE rendered = stored
    BY DEF CleanMeansRendered
  <2>1. PICK p \in Procs : TRUE
    BY NamesAssumption
  <2> QED
    BY <2>1 DEF Quiet, RenderInv, Rendering, Course
<1> QED
  BY <1>1, <1>2, <1>3, TypeInvariant, PTL DEF Spec
-----------------------------------------------------------------------------
\* The token shown is the primary one and works.  A rotation that has revoked it
\* shows none, and neither does a request that found no token to show; a request
\* that settles on a token settles on the one shown and makes it primary.
ShownWorks == shown # None => shown = primaryId /\ shown \in DOMAIN rows /\ Alive(shown)

Showing(o) ==
    /\ ShownWorks
    /\ o.kind = "rotate" => /\ o.pc # "revoke" => shown = None
                            /\ o.pc = "dirty" => primaryId = o.token
    /\ o.kind \in {"view", "refresh"} =>
          /\ o.pc \in {"insert", "secret", "primary"} => shown = None
          /\ o.pc \in {"list", "try"} /\ shown # None =>
                o.hint = {shown} /\ shown \notin o.past
          /\ o.pc \in {"promote", "build", "rendered"} /\ shown # None => o.token = shown
          /\ o.pc \in {"build", "rendered"} => primaryId = o.token

ShowInv == \A p \in Procs : Course(op[p]) /\ Showing(op[p])

LEMMA ShowContinue ==
    ASSUME "db" \notin Faults, TypeInv, TokenInv, NEW p \in Procs, Course(op[p]),
           Showing(op[p]), Continue(p)
    PROVE  Showing(op[p])' /\ (shown # None /\ shown' # None => shown' = shown)
<1> DEFINE o == op[p]
           n == op'[p]
<1>0. /\ op \in [Procs -> Op] /\ o \in Op /\ Shape(o, DOMAIN rows)
      /\ rows \in [DOMAIN rows -> Row] /\ None \notin DOMAIN rows
      /\ primaryId \in DOMAIN rows \cup {None}
  BY NamesAssumption DEF TypeInv, TypeOK
<1>1. o.pc # "idle" /\ (n = NoOp \/ Proceeds(o, n))
  BY Proceeding
<1>2. ASSUME n = NoOp, ShownWorks' PROVE Showing(op[p])'
  BY <1>2, NoOpCourse DEF Showing
<1>3. CASE Revoke(p)
  <2>1. shown' = None
    BY <1>3 DEF Revoke
  <2>2. Proceeds(o, n) => n.kind = o.kind /\ n.pc # "dirty"
    BY <1>3 DEF Proceeds, Revoke
  <2>3. ShownWorks' /\ (n = NoOp \/ n.pc = "insert")
    BY <1>1, <1>3, <2>1 DEF ShownWorks, Revoke, Proceeds
  <2> QED
    BY <1>1, <1>2, <2>1, <2>3 DEF Showing
<1>4. CASE Insert(p)
  <2>1. UNCHANGED <<primaryId, shown>> /\ DOMAIN rows \subseteq DOMAIN rows'
        /\ \A t \in DOMAIN rows : rows'[t] = rows[t]
    BY <1>4 DEF Insert
  <2>2. ShownWorks'
    BY <2>1 DEF Showing, ShownWorks, Alive
  <2>3. o.pc = "insert" /\ (n = NoOp \/ (n.pc = "secret" /\ n.kind = o.kind))
    BY <1>1, <1>4 DEF Insert, Proceeds
  <2> QED
    BY <1>2, <2>1, <2>2, <2>3 DEF Showing
<1>5. CASE StoreSecret(p)
  <2>1. UNCHANGED <<primaryId, shown>> /\ DOMAIN rows = DOMAIN rows'
        /\ \A t \in DOMAIN rows : /\ rows'[t].revoked = rows[t].revoked
                                  /\ rows'[t].expired = rows[t].expired
    BY <1>0, <1>5 DEF StoreSecret, Row
  <2>2. ShownWorks'
    BY <2>1 DEF Showing, ShownWorks, Alive
  <2>3. o.pc = "secret" /\ (n = NoOp \/ (n.pc = "primary" /\ n.kind = o.kind))
    BY <1>1, <1>5 DEF StoreSecret, Proceeds
  <2> QED
    BY <1>2, <2>1, <2>2, <2>3 DEF Showing
<1>6. ASSUME MakePrimary(o.token)
      PROVE  /\ primaryId' = o.token /\ DOMAIN rows' = DOMAIN rows
             /\ \A t \in DOMAIN rows : /\ rows'[t].revoked = rows[t].revoked
                                       /\ rows'[t].expired = rows[t].expired
  BY <1>0, <1>6 DEF MakePrimary, Flagged, Row
<1>7. CASE SetPrimary(p)
  <2>1. primaryId' = o.token /\ shown' = shown /\ o.pc = "primary"
    BY <1>6, <1>7 DEF SetPrimary
  <2>2. o.kind \in {"rotate", "view", "refresh"}
    BY <1>0, <2>1 DEF Course, Op, RequestKinds, Shape
  <2>3. shown = None
    BY <2>1, <2>2 DEF Showing
  <2>4. ShownWorks'
    BY <2>1, <2>3 DEF ShownWorks
  <2>5. \/ n = NoOp
        \/ /\ n.kind = o.kind /\ n.token = o.token
           /\ n.pc = IF o.kind = "rotate" THEN "dirty" ELSE "build"
    BY <1>1, <2>1 DEF Proceeds
  <2> QED
    BY <1>2, <2>1, <2>3, <2>4, <2>5 DEF Showing
<1>8. CASE MarkDirty(p)
  <2>1. UNCHANGED <<rows, primaryId>> /\ o.pc = "dirty"
    BY <1>8 DEF MarkDirty
  <2>2. shown' = IF o.kind = "rotate" /\ o.token \notin Dead THEN o.token ELSE shown
    BY <1>8 DEF MarkDirty
  <2>3. o.kind = "rotate" => shown = None /\ primaryId = o.token
    BY <2>1 DEF Showing
  <2>4. ShownWorks'
    BY <1>0, <2>1, <2>2, <2>3 DEF Showing, ShownWorks, Alive, Dead
  <2>5. n = NoOp \/ (n.kind = "refresh" /\ n.pc = "user")
    BY <1>1, <2>1 DEF Proceeds
  <2> QED
    BY <1>2, <2>2, <2>3, <2>4, <2>5 DEF Showing
<1>9. CASE ReadUser(p)
  <2>1. UNCHANGED <<rows, primaryId, shown>> /\ o.pc = "user"
    BY <1>9 DEF ReadUser
  <2>2. n = NoOp \/ (n.kind = o.kind /\ n.pc = "ensure")
    BY <1>1, <2>1 DEF Proceeds
  <2>3. o.kind # "rotate" /\ ShownWorks'
    BY <2>1 DEF Course, Showing, ShownWorks, Alive
  <2> QED
    BY <1>2, <2>1, <2>2, <2>3 DEF Showing
<1>10. CASE ReadSubscription(p)
  <2>1. UNCHANGED <<rows, primaryId, shown>> /\ o.pc = "ensure"
    BY <1>10 DEF ReadSubscription
  <2> DEFINE h == {primaryId} \ {None}
             x == {t \in DOMAIN rows : rows[t].expired}
  <2>2. n.hint = h /\ n.past = x
    <3>1. op' = [op EXCEPT ![p].pc = "list", ![p].hint = h, ![p].past = x]
      BY <1>10 DEF ReadSubscription
    <3> HIDE DEF h, x
    <3> QED
      BY <1>0, <3>1 DEF Op
  <2>3. n = NoOp \/ (n.kind = o.kind /\ n.pc = "list")
    BY <1>1, <2>1 DEF Proceeds
  <2>4. o.kind # "rotate" /\ ShownWorks'
    BY <2>1 DEF Course, Showing, ShownWorks, Alive
  <2>5. shown # None => h = {shown} /\ shown \notin x
    BY DEF Showing, ShownWorks, Alive
  <2> HIDE DEF h, x
  <2> QED
    BY <1>2, <2>1, <2>2, <2>3, <2>4, <2>5 DEF Showing
<1>11. CASE ListTokens(p)
  <2>1. UNCHANGED <<rows, primaryId, shown>> /\ o.pc = "list"
    BY <1>11 DEF ListTokens
  <2>2. n = NoOp \/ (n.kind = o.kind /\ n.pc = "try" /\ n.hint = o.hint /\ n.past = o.past)
    BY <1>1, <2>1 DEF Proceeds
  <2>3. o.kind # "rotate" /\ ShownWorks'
    BY <2>1 DEF Course, Showing, ShownWorks, Alive
  <2> QED
    BY <1>2, <2>1, <2>2, <2>3 DEF Showing
<1>12. CASE TryToken(p)
  <2>1. UNCHANGED <<rows, primaryId, shown>> /\ o.pc = "try"
    BY <1>12 DEF TryToken
  <2>2. o.kind # "rotate" /\ ShownWorks'
    BY <2>1 DEF Course, Showing, ShownWorks, Alive
  <2>3. shown # None => /\ o.kind \in {"view", "refresh"} => o.hint = {shown}
                        /\ Showable(p, shown) \/ o.kind \notin {"view", "refresh"}
    <3>1. shown # None => rows[shown].secret /\ ~rows[shown].revoked
      BY DEF Showing, ShownWorks, Alive, TokenInv, PrimaryIsRecoverable
    <3> QED
      BY <2>1, <3>1 DEF Showing, Showable
  <2>4. PICK t \in Candidates(o) :
          \/ /\ Showable(p, t)
             /\ op' = [op EXCEPT ![p].token = t,
                                 ![p].pc = IF rows[t].primary THEN "build" ELSE "promote"]
          \/ /\ ~Showable(p, t)
             /\ op' = [op EXCEPT ![p].hint = @ \ {t}, ![p].flagged = @ \ {t},
                                 ![p].rest = @ \ {t}]
    BY <1>12 DEF TryToken
  <2>5. n.kind = o.kind /\ o.kind \in {"view", "refresh"} => (shown # None => t = shown)
    BY <2>3, <2>4 DEF Candidates
  <2>6. CASE op' = [op EXCEPT ![p].token = t,
                              ![p].pc = IF rows[t].primary THEN "build" ELSE "promote"]
    <3>1. n.token = t /\ n.kind = o.kind /\ n.pc = IF rows[t].primary THEN "build" ELSE "promote"
      BY <1>0, <2>6 DEF Op
    <3>2. t \in DOMAIN rows
      BY <1>0, <2>4 DEF Candidates, Shape
    <3>3. rows[t].primary => primaryId = t
      BY <3>2 DEF TokenInv, OnePrimary
    <3> QED
      BY <2>1, <2>2, <2>5, <3>1, <3>3 DEF Showing
  <2>7. CASE ~Showable(p, t) /\ op' = [op EXCEPT ![p].hint = @ \ {t}, ![p].flagged = @ \ {t},
                                                 ![p].rest = @ \ {t}]
    <3>1. n.kind = o.kind /\ n.pc = "try"
      BY <1>0, <2>1, <2>7 DEF Op
    <3>2. o.kind \in {"view", "refresh"} => shown = None
      BY <2>3, <2>5, <2>7, <3>1
    <3> QED
      BY <2>1, <2>2, <3>1, <3>2 DEF Showing
  <2> QED
    BY <2>4, <2>6, <2>7
<1>13. CASE NoTokenLeft(p)
  <2>1. UNCHANGED <<rows, primaryId, shown>> /\ o.pc = "try" /\ o.hint = {}
    BY <1>13 DEF NoTokenLeft, Candidates
  <2>2. n.kind = o.kind /\ n.pc = "insert"
    BY <1>0, <1>13 DEF NoTokenLeft, Goto, Op
  <2>3. o.kind # "rotate" /\ ShownWorks'
    BY <2>1 DEF Course, Showing, ShownWorks, Alive
  <2>4. o.kind \in {"view", "refresh"} => shown = None
    BY <2>1 DEF Showing
  <2> QED
    BY <2>1, <2>2, <2>3, <2>4 DEF Showing
<1>14. CASE Promote(p)
  <2>1. MakePrimary(o.token) /\ shown' = shown /\ o.pc = "promote"
    BY <1>14 DEF Promote
  <2>2. o.kind \in {"view", "refresh"}
    BY <1>0, <2>1 DEF Course, Op, RequestKinds, Shape
  <2>3. n = NoOp \/ (n.kind = o.kind /\ n.token = o.token /\ n.pc = "build")
    BY <1>1, <2>1 DEF Proceeds
  <2>4. shown # None => o.token = shown
    BY <2>1, <2>2 DEF Showing
  <2>5. ShownWorks'
    BY <1>6, <2>1, <2>4 DEF Showing, ShownWorks, Alive
  <2> QED
    BY <1>2, <1>6, <2>1, <2>2, <2>3, <2>4, <2>5 DEF Showing
<1>15. CASE Resolve(p)
  <2>1. UNCHANGED <<rows, primaryId, shown>> /\ o.kind = "fetch" /\ o.pc = "resolve"
    BY <1>0, <1>15 DEF Resolve, Shape
  <2>2. n = NoOp \/ n.kind = "fetch"
    BY <1>1, <2>1 DEF Proceeds
  <2>3. ShownWorks'
    BY <2>1 DEF Showing, ShownWorks, Alive
  <2> QED
    BY <1>2, <2>1, <2>2, <2>3 DEF Showing
<1>16. CASE Build(p)
  <2>1. UNCHANGED <<rows, primaryId, shown>> /\ o.pc = "build"
    BY <1>16 DEF Build
  <2>2. n = NoOp \/ (n.kind = o.kind /\ n.token = o.token /\ n.pc = "rendered")
    BY <1>1, <2>1 DEF Proceeds
  <2>3. o.kind # "rotate" /\ ShownWorks'
    BY <2>1 DEF Course, Showing, ShownWorks, Alive
  <2> QED
    BY <1>2, <2>1, <2>2, <2>3 DEF Showing
<1>17. CASE MarkRendered(p)
  <2>1. UNCHANGED <<rows, primaryId>> /\ o.pc = "rendered" /\ n = NoOp
    BY <1>0, <1>17 DEF MarkRendered, Finish
  <2>2. \/ shown' = shown
        \/ o.kind # "fetch" /\ o.token \notin Dead /\ shown' = o.token
    BY <1>17 DEF MarkRendered
  <2>3. o.kind # "fetch" => o.kind \in {"view", "refresh"}
    BY <1>0, <2>1 DEF Course, Op, RequestKinds
  <2>4. o.kind # "fetch" => primaryId = o.token /\ (shown # None => o.token = shown)
    BY <2>1, <2>3 DEF Showing
  <2>5. ShownWorks'
    BY <1>0, <2>1, <2>2, <2>4 DEF Showing, ShownWorks, Alive, Dead
  <2> QED
    BY <1>2, <2>1, <2>2, <2>4, <2>5
<1>18. ~StatementFails(p)
  BY DEF StatementFails
<1> QED
  BY <1>3, <1>4, <1>5, <1>7, <1>8, <1>9, <1>10, <1>11, <1>12, <1>13, <1>14, <1>15, <1>16,
     <1>17, <1>18 DEF Continue

LEMMA ShowStep ==
    ASSUME Alone, "db" \notin Faults, TypeInv, TokenInv, NEW p \in Procs, Course(op[p]),
           Showing(op[p]), [Next]_vars
    PROVE  Showing(op[p])' /\ (shown # None /\ shown' # None => shown' = shown)
<1>0. /\ op \in [Procs -> Op] /\ op[p] \in Op /\ rows \in [DOMAIN rows -> Row]
  BY DEF TypeInv, TypeOK
<1>1. CASE OperatorRequest(p) \/ FetchRequest(p) \/ Change(p)
  <2>1. UNCHANGED <<rows, primaryId, shown>>
    BY <1>1, BegunAt
  <2>2. /\ op'[p].kind = "rotate" => op'[p].pc = "revoke"
        /\ op'[p].kind \in {"view", "refresh"} => op'[p].pc \in {"user", "dirty"}
    BY <1>1, BegunAt
  <2>3. ShownWorks'
    BY <2>1 DEF Showing, ShownWorks, Alive
  <2> QED
    BY <2>1, <2>2, <2>3 DEF Showing
<1>2. CASE Crash(p)
  <2>1. op'[p] = NoOp /\ UNCHANGED <<rows, primaryId, shown>>
    BY <1>0, <1>2 DEF Crash, Finish
  <2>2. ShownWorks'
    BY <2>1 DEF Showing, ShownWorks, Alive
  <2> QED
    BY <2>1, <2>2, NoOpCourse DEF Showing
<1>3. CASE UnmarkedChange \/ UNCHANGED vars
  <2>1. PICK s : op'[p] \in {op[p], [op[p] EXCEPT !.since = s]}
    BY <1>3, UnmarkedKeeps DEF vars
  <2>2. /\ op'[p].kind = op[p].kind /\ op'[p].pc = op[p].pc /\ op'[p].token = op[p].token
        /\ op'[p].hint = op[p].hint /\ op'[p].past = op[p].past
    BY <1>0, <2>1 DEF Op
  <2>3. UNCHANGED <<rows, primaryId, shown>>
    BY <1>3 DEF UnmarkedChange, vars
  <2>4. ShownWorks'
    BY <2>3 DEF Showing, ShownWorks, Alive
  <2> QED
    BY <2>2, <2>3, <2>4 DEF Showing
<1>4. ASSUME NEW t \in DOMAIN rows, Expire(t)
      PROVE  Showing(op[p])' /\ (shown # None /\ shown' # None => shown' = shown)
  <2>1. /\ UNCHANGED <<primaryId, op>> /\ shown' \in {shown, None} /\ DOMAIN rows' = DOMAIN rows
        /\ \A u \in DOMAIN rows : u # t => rows'[u] = rows[u]
        /\ shown = t => shown' = None
    BY <1>0, <1>4 DEF Expire
  <2>2. ShownWorks'
    BY <2>1 DEF Showing, ShownWorks, Alive
  <2> QED
    BY <2>1, <2>2 DEF Showing
<1> QED
  BY <1>1, <1>2, <1>3, <1>4, ShowContinue DEF Alone, Next

LEMMA ShowInvariant ==
    ASSUME Alone, "db" \notin Faults
    PROVE  Spec => []ShowInv
<1>1. Init => ShowInv
  BY NoOpCourse DEF Init, ShowInv, Showing, ShownWorks
<1>2. TypeInv /\ TokenInv /\ ShowInv /\ [Next]_vars => ShowInv'
  BY CourseStep, ShowStep DEF ShowInv
<1> QED
  BY <1>1, <1>2, TypeInvariant, TokenInvariant, PTL DEF Spec

\* When requests run one after the other and no statement fails, the token that
\* operators are shown changes only after it was revoked or has expired, also when
\* requests die.
THEOREM ShownTokenStableSerially ==
    ASSUME Alone, "db" \notin Faults
    PROVE  Spec => ShownTokenIsStable
<1> DEFINE Step == shown # None /\ shown' # None => shown' = shown
<1>1. TypeInv /\ TokenInv /\ ShowInv /\ [Next]_vars => [Step]_vars
  <2> SUFFICES ASSUME TypeInv, TokenInv, ShowInv, [Next]_vars PROVE Step
    OBVIOUS
  <2>1. PICK p \in Procs : TRUE
    BY NamesAssumption
  <2> QED
    BY <2>1, ShowStep DEF ShowInv
<1> QED
  BY <1>1, TypeInvariant, TokenInvariant, ShowInvariant, PTL DEF Spec, ShownTokenIsStable

-----------------------------------------------------------------------------
\* A rotation on its own has revoked every token but the one it issued.
Sole(o) ==
    o.kind = "rotate" =>
        /\ o.pc = "insert" => \A t \in DOMAIN rows : rows[t].revoked
        /\ o.pc \in {"secret", "primary", "dirty"} =>
              \A t \in DOMAIN rows : rows[t].revoked \/ t = o.token

SoleInv == \A p \in Procs : Course(op[p]) /\ Sole(op[p])

LEMMA SoleStep ==
    ASSUME Alone, TypeInv, NEW p \in Procs, Course(op[p]), Sole(op[p]), [Next]_vars
    PROVE  Sole(op[p])'
<1>0. /\ op \in [Procs -> Op] /\ op[p] \in Op /\ rows \in [DOMAIN rows -> Row]
  BY DEF TypeInv, TypeOK
<1>1. CASE OperatorRequest(p) \/ FetchRequest(p) \/ Change(p)
  BY <1>1, BegunAt DEF Sole
<1>2. CASE op'[p] = NoOp
  BY <1>2, NoOpCourse DEF Sole
<1>3. CASE Revoke(p) /\ op'[p] # NoOp
  <2>1. Proceeds(op[p], op'[p]) /\ op[p].pc = "revoke"
    BY <1>3, Proceeding DEF Continue, Revoke
  <2>2. op'[p].pc = "insert" /\ \A t \in DOMAIN rows' : rows'[t].revoked
    BY <1>0, <1>3, <2>1 DEF Proceeds, Revoke, Revoked, Row
  <2> QED
    BY <2>2 DEF Sole
<1>4. CASE Insert(p) /\ op'[p] # NoOp
  <2>1. PICK t \in Tokens \ DOMAIN rows :
          /\ DOMAIN rows' = DOMAIN rows \cup {t}
          /\ \A u \in DOMAIN rows : rows'[u] = rows[u]
          /\ op' = [op EXCEPT ![p].token = t, ![p].pc = "secret"]
    BY <1>4 DEF Insert, AfterInsert
  <2>2. op'[p].token = t /\ op'[p].pc = "secret" /\ op'[p].kind = op[p].kind
    BY <1>0, <2>1 DEF Op
  <2>3. op[p].pc = "insert"
    BY <1>4 DEF Insert
  <2> QED
    BY <2>1, <2>2, <2>3 DEF Sole
<1>5. CASE (Continue(p) \/ Crash(p)) /\ ~Revoke(p) /\ ~Insert(p) /\ op'[p] # NoOp
  <2>1. Proceeds(op[p], op'[p])
    BY <1>5, Proceeding
  <2>2. DOMAIN rows' = DOMAIN rows /\ \A t \in DOMAIN rows : rows'[t].revoked = rows[t].revoked
    <3>1. UNCHANGED rows \/ StoreSecret(p) \/ \E t : rows' = Flagged(t)
      BY <1>5 DEF Continue, Crash, SetPrimary, MarkDirty, ReadUser, ReadSubscription,
           ListTokens, TryToken, NoTokenLeft, Promote, MakePrimary, Resolve, Build,
           MarkRendered, StatementFails
    <3>2. ASSUME NEW t, rows' = Flagged(t)
          PROVE  DOMAIN rows' = DOMAIN rows
                 /\ \A u \in DOMAIN rows : rows'[u].revoked = rows[u].revoked
      BY <1>0, <3>2 DEF Flagged, Row
    <3>3. CASE StoreSecret(p)
      BY <1>0, <3>3 DEF StoreSecret, Row
    <3> QED
      BY <3>1, <3>2, <3>3
  <2>3. op'[p].kind = "rotate" =>
           /\ op[p].kind = "rotate" /\ op[p].pc \in {"secret", "primary"}
           /\ op'[p].pc \in {"primary", "dirty"} /\ op'[p].token = op[p].token
    <3>1. op'[p].kind = "rotate" => op[p].pc \notin {"revoke", "insert"}
      BY <1>0, <1>5, <2>1 DEF Proceeds, Continue, Crash, Finish, Revoke, Insert,
           StoreSecret, SetPrimary, MarkDirty, ReadUser, ReadSubscription,
           ListTokens, TryToken, NoTokenLeft, Promote, Resolve, Build,
           MarkRendered, StatementFails
    <3> QED
      BY <2>1, <3>1 DEF Proceeds, Course
  <2> QED
    BY <2>2, <2>3 DEF Sole
<1>6. CASE UnmarkedChange \/ UNCHANGED vars
  <2>1. PICK s : op'[p] \in {op[p], [op[p] EXCEPT !.since = s]}
    BY <1>6, UnmarkedKeeps DEF vars
  <2>2. /\ op'[p].kind = op[p].kind /\ op'[p].pc = op[p].pc /\ op'[p].token = op[p].token
    BY <1>0, <2>1 DEF Op
  <2>3. UNCHANGED rows
    BY <1>6 DEF UnmarkedChange, vars
  <2> QED
    BY <2>2, <2>3 DEF Sole
<1>7. CASE \E t \in DOMAIN rows : Expire(t)
  <2>1. /\ op' = op /\ DOMAIN rows' = DOMAIN rows
        /\ \A u \in DOMAIN rows : rows'[u].revoked = rows[u].revoked
    BY <1>0, <1>7 DEF Expire, Row
  <2> QED
    BY <2>1 DEF Sole
<1> QED
  BY <1>1, <1>2, <1>3, <1>4, <1>5, <1>6, <1>7 DEF Alone, Next

\* When requests run one after the other, the token a finished rotation hands out is
\* the only one that works, whatever fails in between.
THEOREM RotationLeavesOneSerially ==
    ASSUME Alone
    PROVE  Spec => RotationLeavesOne
<1> DEFINE Step ==
      \A p \in Procs : op[p].kind = "rotate" /\ MarkDirty(p) =>
          \A t \in DOMAIN rows : Alive(t) => t = op[p].token
<1>1. Init => SoleInv
  BY NoOpCourse DEF Init, SoleInv, Sole
<1>2. TypeInv /\ SoleInv /\ [Next]_vars => SoleInv'
  BY CourseStep, SoleStep DEF SoleInv
<1>3. SoleInv => Step
  BY DEF SoleInv, Sole, MarkDirty, Alive
<1> QED
  BY <1>1, <1>2, <1>3, TypeInvariant, PTL DEF Spec, RotationLeavesOne
=============================================================================
