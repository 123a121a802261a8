----------------------------- MODULE PanelProofs -----------------------------
(***************************************************************************)
(* Proofs about Panel, for any number of administrators, sessions,         *)
(* requests and connections.                                               *)
(*                                                                         *)
(* The invariant is about every copy of the database, not only about the   *)
(* one in use: the main file under the log, the backups, the files of      *)
(* downloads and the sources of restores all become the database some day, *)
(* so each of them keeps its sessions with their administrators. The       *)
(* offline restore also needs that an orderly stop leaves no log (PInv).   *)
(*                                                                         *)
(* The other properties follow one request each: what it is and holds at   *)
(* each step and who runs beside it (RInv), whose each connection is       *)
(* (Pool), whose each file (FInv), and from where on the limiter still has *)
(* every attempt (Limiter). TInv is all of them.                           *)
(***************************************************************************)
EXTENDS Panel, FiniteSetTheorems, TLAPS

Constants == NamesAssumption /\ LimiterAssumption /\ InitialAssumption
             /\ ForeignAssumption /\ EnvironmentAssumption

LEMMA Assumed == Constants
BY NamesAssumption, LimiterAssumption, InitialAssumption, ForeignAssumption,
   EnvironmentAssumption DEF Constants

(* Contents in which every session has its administrator. *)
Good == {c \in Contents : Sound(c)}
(* A login that goes on has found an administrator. *)
GoodOp == {o \in Op : /\ o.source \in Good /\ o.content \in Good \cup {None}
                      /\ o.pc \in {"reset", "create"} => o.admin # None}
GoodFile == {f \in File : f.content \in Good \cup {None}}

Copies ==
    /\ main \in Good /\ wal \in Good \cup {None} /\ backup \in Good \cup {None}
    /\ \A n \in DOMAIN files : files[n] \in GoodFile
    /\ op \in [Procs -> GoodOp]
    /\ cmd \in Command /\ cmd.source \in Good
    /\ now \in 0 .. MaxTime

(* While the service is down after an orderly stop the main file is all. *)
Restoring ==
    /\ cmd.pc # "idle" => ~up
    /\ ~up /\ orderly => wal = None
    /\ orderly => /\ cmd.pc = "save" => main = cmd.found /\ cmd.rollback = None
                  /\ cmd.pc \in {"dropLog", "replace"} =>
                        main = cmd.found /\ cmd.rollback = cmd.found
                  /\ cmd.pc = "ended" =>
                        \/ main = cmd.found /\ cmd.rollback \in {None, cmd.found}
                        \/ main = cmd.source /\ cmd.rollback = cmd.found

PInv == Copies /\ Restoring /\ HeldSessionsStay

(* What a request is and what it holds at each of its steps. *)
PhaseOf(o) ==
    /\ o.pc \in {"arrive", "allow", "lookup", "reset", "create"} => o.kind = "login"
    /\ o.kind = "login" =>
           o.pc \in {"arrive", "allow", "lookup", "reset", "create", "idle", "done"}
    /\ o.pc = "delete" => o.kind = "logout"
    /\ o.pc \in {"attach", "copy", "release", "detach"} => o.kind = "restore"
    /\ o.pc \in {"copying", "copy", "release"} <=> o.conn \in Conns
    /\ o.pc \notin {"release", "detach", "done"} => o.refusal = "none"
    /\ o.pc \in {"copy", "release", "detach"} => o.used \in Conns

Phases == \A p \in Procs : PhaseOf(op[p])

Turns == ~up => writer = None /\ \A p \in Procs : op[p] = NoOp

(* A connection is in the list once, or held by one request, or the background. *)
Pool ==
    /\ idle \in Seq(Conns) /\ attached \subseteq Conns
    /\ writer \in (Conns \ Range(idle)) \cup {None}
    /\ \A p \in Procs : op[p].conn = writer => writer = None
    /\ \A i, j \in DOMAIN idle : idle[i] = idle[j] => i = j
    /\ \A p \in Procs : op[p].conn \notin Range(idle)
    /\ \A p, q \in Procs : op[p].conn = op[q].conn => p = q \/ op[p].conn = None

(* The file of a download that shares its second with no other one. *)
OwnFile(p) ==
    /\ op[p].content # None
    /\ op[p].name \in DOMAIN files
    /\ files[op[p].name].writer = p
    /\ op[p].pc = "open" => files[op[p].name].content = op[p].content

OwnFiles ==
    /\ DOMAIN files \subseteq Nat
    /\ \A p \in Procs : op[p].pc \in {"copying", "open"} /\ ~op[p].shared => OwnFile(p)

(* The connection of a restore until its DETACH: it is the last in the list *)
(* unless another statement has moved one since.                           *)
UsedOf(p) ==
    /\ op[p].pc \in {"copy", "release"} => op[p].conn = op[p].used
    /\ op[p].pc = "detach" /\ released = p => idle # <<>> /\ Last(idle) = op[p].used

Attachments ==
    /\ released \in Procs \cup {None} /\ stray \subseteq attached
    /\ \A p \in Procs : UsedOf(p)
    /\ AttachedOnlyWhileRestoring

(* The limiter has forgotten exactly the attempts before some cut: the     *)
(* stamp of an attempt it let through, or of one it refused since, and     *)
(* then it still keeps Burst of them.                                      *)
KeptSince(kept, stamps, cut) ==
    /\ kept = {i \in DOMAIN stamps : stamps[i] > cut - Window}
    /\ \/ stamps = <<>>
       \/ \E i \in DOMAIN stamps : cut <= stamps[i]
       \/ Cardinality(kept) >= Burst

InWindow(stamps, end) == {i \in DOMAIN stamps : stamps[i] > end - Window /\ stamps[i] <= end}

Limited(kept, stamps, late) ==
    /\ stamps \in Seq(Nat)
    /\ kept \subseteq DOMAIN stamps
    /\ ~late => /\ \E cut \in 0 .. MaxTime : KeptSince(kept, stamps, cut)
                /\ \A end \in 0 .. MaxTime : Cardinality(InWindow(stamps, end)) <= Burst

Limiter ==
    /\ admitted \in [Addresses -> Seq(Nat)] /\ attempt \in [Addresses -> SUBSET Nat]
    /\ overtaken \in [Addresses -> BOOLEAN]
    /\ \A p \in Procs : op[p].kind = "login" /\ ~Free(p) => op[p].address \in Addresses
    /\ \A a \in Addresses : Limited(attempt[a], admitted[a], overtaken[a])

Issued == issued \subseteq Tokens /\ held \subseteq issued /\ lost \subseteq held

RInv == Phases /\ Turns
FInv == OwnFiles /\ DownloadIsOwnCopy

-----------------------------------------------------------------------------
(***************************************************************************)
(* Contents.                                                               *)
(***************************************************************************)
LEMMA NoneIsNoContent == None \notin Good /\ None \notin AdminIds
BY Assumed DEF Constants, NamesAssumption, Good

LEMMA TablesOfSessions ==
    ASSUME NEW f, NEW S \in SUBSET Tokens
    PROVE  f \in [S -> Session] => f \in SessionTables
BY DEF SessionTables

LEMMA SessionsAreTable ==
    ASSUME NEW c \in Contents
    PROVE  /\ DOMAIN c.sessions \in SUBSET Tokens
           /\ c.sessions \in [DOMAIN c.sessions -> Session]
<1>1. c.sessions \in SessionTables BY DEF Contents
<1>2. PICK S \in SUBSET Tokens : c.sessions \in [S -> Session] BY <1>1 DEF SessionTables
<1> QED BY <1>2

LEMMA EmptyGood == Empty \in Good
<1>1. [t \in {} |-> None] \in [{} -> Session] OBVIOUS
<1>2. [t \in {} |-> None] \in SessionTables BY <1>1 DEF SessionTables
<1>3. Empty \in Contents BY <1>2 DEF Empty, Contents
<1> QED BY <1>3 DEF Good, Sound, Empty

LEMMA DatabaseGood == ASSUME Copies PROVE Database \in Good
BY DEF Copies, Database

(* Tables other than those of administrators and sessions do not matter. *)
LEMMA OtherTables ==
    ASSUME NEW c \in Good, NEW b \in BOOLEAN
    PROVE  /\ [c EXCEPT !.tables = b] \in Good
           /\ [c EXCEPT !.policies = b] \in Good
           /\ [c EXCEPT !.tables = b].sessions = c.sessions
           /\ [c EXCEPT !.policies = b].sessions = c.sessions
BY DEF Good, Contents, Sound

(* A session for an administrator who is there. *)
LEMMA SessionGood ==
    ASSUME NEW c \in Good, NEW t \in Tokens, NEW s \in Session,
           \E e \in Emails : c.admins[e] = s.admin,
           NEW d, d = [x \in DOMAIN c.sessions \cup {t} |-> IF x = t THEN s ELSE c.sessions[x]]
    PROVE  [c EXCEPT !.sessions = d] \in Good /\ [c EXCEPT !.sessions = d].sessions = d
<1>1. c \in Contents /\ Sound(c) BY DEF Good
<1>2. d \in [DOMAIN c.sessions \cup {t} -> Session] BY <1>1, SessionsAreTable
<1>3. DOMAIN c.sessions \cup {t} \in SUBSET Tokens BY <1>1, SessionsAreTable
<1>4. d \in SessionTables BY <1>2, <1>3, TablesOfSessions
<1>5. [c EXCEPT !.sessions = d] \in Contents BY <1>1, <1>4 DEF Contents
<1>6. [c EXCEPT !.sessions = d].sessions = d /\ [c EXCEPT !.sessions = d].admins = c.admins
  BY <1>1 DEF Contents
<1>7. ASSUME NEW x \in DOMAIN d PROVE \E e \in Emails : c.admins[e] = d[x].admin
  <2>1. CASE x = t BY <2>1
  <2>2. CASE x # t
    <3>1. x \in DOMAIN c.sessions /\ d[x] = c.sessions[x] BY <2>2
    <3> QED BY <1>1, <3>1 DEF Sound
  <2> QED BY <2>1, <2>2
<1> DEFINE b == [c EXCEPT !.sessions = d]
<1> HIDE DEF b
<1>8. b \in Contents /\ b.sessions = d /\ b.admins = c.admins BY <1>5, <1>6 DEF b
<1>9. b \in Good BY <1>7, <1>8 DEF Good, Sound
<1> QED BY <1>8, <1>9 DEF b

(* Fewer sessions. *)
LEMMA RestrictedGood ==
    ASSUME NEW c \in Good, NEW D \in SUBSET DOMAIN c.sessions,
           NEW d, d = Restrict(c.sessions, D)
    PROVE  [c EXCEPT !.sessions = d] \in Good /\ [c EXCEPT !.sessions = d].sessions = d
<1>1. c \in Contents /\ Sound(c) BY DEF Good
<1>0. d = [x \in D |-> c.sessions[x]] BY DEF Restrict
<1>2. d \in [D -> Session] BY <1>1, <1>0, SessionsAreTable
<1>3. D \in SUBSET Tokens BY <1>1, SessionsAreTable
<1>4. d \in SessionTables BY <1>2, <1>3, TablesOfSessions
<1>5. [c EXCEPT !.sessions = d] \in Contents BY <1>1, <1>4 DEF Contents
<1>6. [c EXCEPT !.sessions = d].sessions = d /\ [c EXCEPT !.sessions = d].admins = c.admins
  BY <1>1 DEF Contents
<1>7. \A x \in DOMAIN d : \E e \in Emails : c.admins[e] = d[x].admin
  BY <1>0, <1>1 DEF Sound
<1> QED BY <1>5, <1>6, <1>7, ZenonT(60) DEF Good, Sound

(* An administrator is added, or keeps its id. *)
LEMMA AdminGood ==
    ASSUME NEW c \in Good, NEW a \in Emails, NEW id \in AdminIds,
           c.admins[a] # None => id = c.admins[a]
    PROVE  /\ [c EXCEPT !.tables = TRUE, !.admins[a] = id] \in Good
           /\ [c EXCEPT !.tables = TRUE, !.admins[a] = id].sessions = c.sessions
<1> DEFINE d == [c EXCEPT !.tables = TRUE, !.admins[a] = id]
<1>1. c \in Contents /\ Sound(c) BY DEF Good
<1>2. d \in Contents /\ d.sessions = c.sessions /\ d.admins = [c.admins EXCEPT ![a] = id]
  BY <1>1 DEF Contents
<1>3. ASSUME NEW t \in DOMAIN c.sessions PROVE \E e \in Emails : d.admins[e] = c.sessions[t].admin
  <2>1. PICK e \in Emails : c.admins[e] = c.sessions[t].admin BY <1>1 DEF Sound
  <2>2. c.sessions[t].admin \in AdminIds BY <1>1, SessionsAreTable DEF Session
  <2>3. c.admins[e] # None BY <2>1, <2>2, NoneIsNoContent
  <2>4. d.admins[e] = c.admins[e] BY <1>1, <1>2, <2>3 DEF Contents
  <2> QED BY <2>1, <2>4
<1> HIDE DEF d
<1>4. d \in Good BY <1>2, <1>3 DEF Good, Sound
<1> QED BY <1>2, <1>4 DEF d

-----------------------------------------------------------------------------
(***************************************************************************)
(* Requests.                                                               *)
(***************************************************************************)
LEMMA InitInv == Init => PInv
<1> SUFFICES ASSUME Init PROVE PInv OBVIOUS
<1>1. NoOp \in GoodOp
  BY EmptyGood, NoneIsNoContent, Assumed DEF NoOp, GoodOp, Op, Good, RequestKinds, Pcs, Results, Refusals,
     Constants, EnvironmentAssumption, LimiterAssumption
<1>2. NoCmd \in Command /\ NoCmd.source \in Good BY EmptyGood DEF NoCmd, Command, Good
<1>3. Initial \in Good BY Assumed DEF Constants, InitialAssumption, Good
<1>4. Copies
  BY <1>1, <1>2, <1>3, Assumed DEF Init, Copies, Constants, EnvironmentAssumption
<1>5. Restoring BY DEF Init, Restoring, NoCmd
<1>6. HeldSessionsStay BY DEF Init, HeldSessionsStay, Database
<1> QED BY <1>4, <1>5, <1>6 DEF PInv

(* Only requests, and what they keep in memory or in files of downloads, move. *)
LEMMA RequestsOnly ==
    ASSUME PInv, op' \in [Procs -> GoodOp], UNCHANGED logins,
           \A n \in DOMAIN files' : files'[n] \in GoodFile,
           backup' \in Good \cup {None},
           UNCHANGED <<now, main, wal, up, cmd, orderly>>
    PROVE  PInv'
<1>1. Copies' BY DEF PInv, Copies
<1>2. Restoring' BY DEF PInv, Restoring
<1>3. HeldSessionsStay' BY DEF PInv, HeldSessionsStay, Database, logins
<1> QED BY <1>1, <1>2, <1>3 DEF PInv

(* A transaction of a request or of the panel. *)
LEMMA CommitKeeps ==
    ASSUME PInv, up, NEW c \in Good, Commit(c), op' \in [Procs -> GoodOp],
           held' \ lost' \subseteq DOMAIN c.sessions, UNCHANGED <<now, up, cmd, orderly>>
    PROVE  PInv'
<1>0. wal' = c /\ UNCHANGED <<main, files, backup>> BY DEF Commit
<1>1. Copies' BY <1>0 DEF PInv, Copies
<1>2. Restoring' BY <1>0 DEF PInv, Restoring
<1>3. Database' = c BY <1>0, NoneIsNoContent DEF Database
<1>4. HeldSessionsStay' BY <1>3 DEF HeldSessionsStay
<1> QED BY <1>1, <1>2, <1>4 DEF PInv

LEMMA SetGood ==
    ASSUME op \in [Procs -> GoodOp], NEW p \in Procs, NEW o \in GoodOp, Set(p, o)
    PROVE  op' \in [Procs -> GoodOp]
BY DEF Set

(* A step of a request that changes only pc, or one that ends it. *)
LEMMA GotoGood ==
    ASSUME op \in [Procs -> GoodOp], NEW p \in Procs, NEW pc \in Pcs \ {"reset", "create"}, Goto(p, pc)
    PROVE  op' \in [Procs -> GoodOp]
<1>1. [op[p] EXCEPT !.pc = pc] \in GoodOp BY DEF GoodOp, Op
<1> QED BY <1>1, SetGood DEF Goto

LEMMA EndGood ==
    ASSUME op \in [Procs -> GoodOp], NEW p \in Procs, NEW result \in Results, End(p, result)
    PROVE  op' \in [Procs -> GoodOp]
<1> DEFINE o == [op[p] EXCEPT !.pc = "done", !.result = result, !.address = None, !.stamp = 0,
                              !.token = None, !.admin = None, !.expires = 0, !.source = Empty,
                              !.used = None, !.name = 0]
<1>1. 0 \in 0 .. MaxTime /\ 0 \in 0 .. MaxTime + TTL
  BY Assumed DEF Constants, EnvironmentAssumption, LimiterAssumption
<1>2. Empty \in Contents BY EmptyGood DEF Good
<1>3. o \in Op
  <2>1. op[p] \in Op /\ "done" \in Pcs BY DEF GoodOp, Pcs
  <2>2. [op[p] EXCEPT !.pc = "done", !.result = result, !.address = None] \in Op
    BY <2>1 DEF Op
  <2> DEFINE o1 == [op[p] EXCEPT !.pc = "done", !.result = result, !.address = None]
             o2 == [o1 EXCEPT !.stamp = 0, !.token = None, !.admin = None]
  <2>3. o2 \in Op
    <3> HIDE DEF o1
    <3> QED BY <2>2, <1>1 DEF Op, o1
  <2>4. [o2 EXCEPT !.expires = 0, !.source = Empty, !.used = None, !.name = 0] \in Op
    <3> HIDE DEF o2
    <3> QED BY <2>3, <1>1, <1>2 DEF Op
  <2>5. o = [o2 EXCEPT !.expires = 0, !.source = Empty, !.used = None, !.name = 0] OBVIOUS
  <2> QED BY <2>4, <2>5
<1>4. o.source = Empty /\ o.content = op[p].content /\ o.pc = "done" BY DEF GoodOp, Op
<1> HIDE DEF o
<1>5. o \in GoodOp BY <1>3, <1>4, EmptyGood DEF GoodOp
<1> QED BY <1>5, SetGood DEF End, o

LEMMA NowIsTime ==
    ASSUME Copies
    PROVE  now \in 0 .. MaxTime /\ now + TTL \in 0 .. MaxTime + TTL
BY Assumed DEF Copies, Constants, EnvironmentAssumption, LimiterAssumption

LEMMA UploadsGood == ASSUME Copies PROVE Uploads \cup {Empty} \subseteq Good
BY EmptyGood, Assumed DEF Copies, Uploads, Constants, ForeignAssumption, Good

LEMMA NoOpGood == NoOp \in GoodOp
BY EmptyGood, NoneIsNoContent, Assumed DEF NoOp, GoodOp, Op, Good, RequestKinds, Pcs, Results,
   Refusals, Constants, EnvironmentAssumption, LimiterAssumption

LEMMA BeginKeeps == ASSUME PInv, NEW p \in Procs, Begin(p) PROVE PInv'
<1>0. Copies /\ op \in [Procs -> GoodOp] BY DEF PInv, Copies
<1>1. PICK kind \in Kinds, a \in Addresses, t \in Tokens, c \in Uploads \cup {Empty} :
          Set(p, Started(kind, a, t, c))
  BY DEF Begin
<1> DEFINE src == IF kind = "restore" THEN c ELSE Empty
           o == [NoOp EXCEPT !.kind = kind, !.pc = FirstPc(kind)]
           address == IF kind = "login" THEN a ELSE None
           token == IF kind = "login" THEN None ELSE t
<1>2. src \in Good /\ src \in Contents BY <1>0, UploadsGood, EmptyGood DEF Good
<1>3. kind \in RequestKinds /\ FirstPc(kind) \in Pcs \ {"reset", "create"}
  BY Assumed DEF Constants, EnvironmentAssumption, FirstPc, Pcs
<1>4. o \in Op /\ o.pc = FirstPc(kind) /\ o.content \in Good \cup {None}
  <2>1. NoOp \in Op /\ NoOp.content = None BY NoOpGood DEF GoodOp, NoOp
  <2> QED BY <1>3, <2>1 DEF Op
<1>5. address \in Addresses \cup {None} /\ token \in Tokens \cup {None} OBVIOUS
<1>6. Started(kind, a, t, c) \in GoodOp
  <2>1. Started(kind, a, t, c)
           = [o EXCEPT !.address = address, !.token = token, !.source = src]
    BY DEF Started
  <2> HIDE DEF o, address, token, src
  <2> QED BY <1>2, <1>3, <1>4, <1>5, <2>1 DEF GoodOp, Op
<1> HIDE DEF o
<1>7. op' \in [Procs -> GoodOp] BY <1>0, <1>1, <1>6, SetGood
<1>8. UNCHANGED <<now, storage, up, cmd, logins, orderly>> BY DEF Begin
<1> QED BY <1>7, <1>8, RequestsOnly DEF PInv, Copies, storage

LEMMA LoginKeeps ==
    ASSUME PInv, NEW p \in Procs, Arrive(p) \/ Allow(p) \/ LookUp(p) \/ Reset(p)
    PROVE  PInv'
<1>0. Copies /\ op \in [Procs -> GoodOp] /\ op[p] \in GoodOp BY DEF PInv, Copies
<1>1. UNCHANGED <<now, storage, up, cmd, logins, orderly>>
  BY DEF Arrive, Allow, LookUp, Reset, Apart, Outside
<1>2. op' \in [Procs -> GoodOp]
  <2>1. CASE Arrive(p)
    <3>1. now \in 0 .. MaxTime /\ "allow" \in Pcs BY <1>0, NowIsTime DEF Pcs
    <3>2. [op[p] EXCEPT !.pc = "allow", !.stamp = now] \in GoodOp
      BY <1>0, <3>1 DEF GoodOp, Op
    <3> QED BY <1>0, <2>1, <3>2, SetGood DEF Arrive
  <2>2. CASE Allow(p)
    <3>1. End(p, "limited") \/ Goto(p, "lookup") BY <2>2 DEF Allow
    <3> QED BY <1>0, <3>1, EndGood, GotoGood DEF Results, Pcs
  <2>3. CASE LookUp(p)
    <3>1. CASE \E e \in Emails : /\ Database.admins[e] # None
                                 /\ Set(p, [op[p] EXCEPT !.pc = "reset",
                                                         !.admin = Database.admins[e]])
      <4>1. PICK e \in Emails : /\ Database.admins[e] # None
                                /\ Set(p, [op[p] EXCEPT !.pc = "reset",
                                                        !.admin = Database.admins[e]])
        BY <3>1
      <4>2. Database.admins[e] \in AdminIds \cup {None}
        BY <1>0, DatabaseGood DEF Good, Contents
      <4>3. [op[p] EXCEPT !.pc = "reset", !.admin = Database.admins[e]] \in GoodOp
        BY <1>0, <4>1, <4>2 DEF GoodOp, Op, Pcs
      <4> QED BY <1>0, <4>1, <4>3, SetGood
    <3>2. CASE End(p, "refused") \/ End(p, "unavailable")
      BY <1>0, <3>2, EndGood DEF Results
    <3> QED BY <2>3, <3>1, <3>2 DEF LookUp
  <2>4. CASE Reset(p)
    <3>1. [op[p] EXCEPT !.pc = "create", !.expires = now + TTL] \in GoodOp
      BY <1>0, <2>4, NowIsTime DEF GoodOp, Op, Pcs, Reset
    <3> QED BY <1>0, <2>4, <3>1, SetGood DEF Reset
  <2> QED BY <2>1, <2>2, <2>3, <2>4
<1> QED BY <1>1, <1>2, RequestsOnly DEF PInv, Copies, storage

LEMMA CreateSessionKeeps == ASSUME PInv, NEW p \in Procs, CreateSession(p) PROVE PInv'
<1>0. /\ Copies /\ op \in [Procs -> GoodOp] /\ op[p] \in GoodOp
      /\ UNCHANGED <<now, up, cmd, orderly>> /\ up
  BY DEF PInv, Copies, CreateSession, Outside
<1>1. CASE End(p, "unavailable") /\ UNCHANGED <<storage, issued, logins>>
  <2>1. op' \in [Procs -> GoodOp] BY <1>0, <1>1, EndGood DEF Results
  <2> QED BY <1>0, <1>1, <2>1, RequestsOnly DEF PInv, Copies, storage
<1>2. CASE /\ MayCreate(op[p].admin)
           /\ \E t \in Tokens \ issued :
                /\ Commit([Database EXCEPT !.sessions =
                       [x \in DOMAIN @ \cup {t} |->
                           IF x = t THEN [admin |-> op[p].admin, expires |-> op[p].expires]
                                    ELSE @[x]]])
                /\ issued' = issued \cup {t} /\ held' = held \cup {t} /\ UNCHANGED lost
                /\ End(p, "ok")
  <2> DEFINE c == Database
             s == [admin |-> op[p].admin, expires |-> op[p].expires]
  <2>1. PICK t \in Tokens :
          /\ Commit([c EXCEPT !.sessions =
                 [x \in DOMAIN c.sessions \cup {t} |-> IF x = t THEN s ELSE c.sessions[x]]])
          /\ held' = held \cup {t} /\ UNCHANGED lost /\ End(p, "ok")
    BY <1>2
  <2> DEFINE d == [x \in DOMAIN c.sessions \cup {t} |-> IF x = t THEN s ELSE c.sessions[x]]
  <2>2. c \in Good BY <1>0, DatabaseGood
  <2>3. \E e \in Emails : c.admins[e] = op[p].admin BY <1>2 DEF MayCreate, HasAdmin
  <2>4. op[p].admin \in AdminIds
    <3>1. op[p].pc = "create" BY DEF CreateSession
    <3> QED BY <1>0, <3>1 DEF GoodOp, Op
  <2>5. s \in Session /\ s.admin = op[p].admin BY <1>0, <2>4 DEF GoodOp, Op, Session
  <2>6. [c EXCEPT !.sessions = d] \in Good /\ [c EXCEPT !.sessions = d].sessions = d
    <3>1. \E e \in Emails : c.admins[e] = s.admin BY <2>3, <2>5
    <3>2. d = [x \in DOMAIN c.sessions \cup {t} |-> IF x = t THEN s ELSE c.sessions[x]]
      OBVIOUS
    <3> HIDE DEF s, c, d
    <3> QED BY <2>2, <2>5, <3>1, <3>2, SessionGood
  <2>7. held' \ lost' \subseteq DOMAIN d
    BY <2>1 DEF PInv, HeldSessionsStay
  <2>8. op' \in [Procs -> GoodOp] BY <1>0, <2>1, EndGood DEF Results
  <2> HIDE DEF c, d
  <2> QED BY <1>0, <2>1, <2>6, <2>7, <2>8, CommitKeeps DEF d
<1> QED BY <1>1, <1>2 DEF CreateSession

LEMMA AuthenticateKeeps == ASSUME PInv, NEW p \in Procs, Authenticate(p) PROVE PInv'
<1>0. Copies /\ op \in [Procs -> GoodOp] /\ op[p] \in GoodOp BY DEF PInv, Copies
<1>1. UNCHANGED <<now, storage, up, cmd, logins, orderly>> BY DEF Authenticate, Apart, Outside
<1>2. op' \in [Procs -> GoodOp]
  <2>1. CASE \E result \in {"unavailable", "refused", "ok"} : End(p, result)
    BY <1>0, <2>1, EndGood DEF Results
  <2>2. CASE Set(p, [op[p] EXCEPT !.pc = Entry(op[p].kind), !.name = now])
    <3>1. Entry(op[p].kind) \in Pcs \ {"reset", "create"} BY DEF Entry, Pcs
    <3>2. now \in 0 .. MaxTime BY <1>0, NowIsTime
    <3>3. [op[p] EXCEPT !.pc = Entry(op[p].kind), !.name = now] \in GoodOp
      BY <1>0, <3>1, <3>2 DEF GoodOp, Op
    <3> QED BY <1>0, <2>2, <3>3, SetGood
  <2> QED BY <2>1, <2>2 DEF Authenticate
<1> QED BY <1>1, <1>2, <1>0, RequestsOnly DEF PInv, Copies, storage

LEMMA DeleteSessionKeeps == ASSUME PInv, NEW p \in Procs, DeleteSession(p) PROVE PInv'
<1>0. /\ Copies /\ op \in [Procs -> GoodOp] /\ op[p] \in GoodOp
      /\ UNCHANGED <<now, up, cmd, orderly>> /\ up /\ End(p, "ok")
  BY DEF PInv, Copies, DeleteSession, Outside
<1>1. op' \in [Procs -> GoodOp] BY <1>0, EndGood DEF Results
<1>2. CASE UNCHANGED <<storage, logins>>
  BY <1>0, <1>1, <1>2, RequestsOnly DEF PInv, Copies, storage
<1>3. CASE /\ Commit([Database EXCEPT !.sessions =
                          Restrict(@, DOMAIN @ \ Ended(op[p].token))])
           /\ held' = held \ {op[p].token} /\ lost' = lost \ {op[p].token}
  <2> DEFINE c == Database
             D == DOMAIN c.sessions \ {op[p].token}
             d == Restrict(c.sessions, D)
  <2>1. Commit([c EXCEPT !.sessions = d]) BY <1>3 DEF Ended
  <2>2. c \in Good BY <1>0, DatabaseGood
  <2>3. [c EXCEPT !.sessions = d] \in Good /\ [c EXCEPT !.sessions = d].sessions = d
    <3> HIDE DEF c
    <3> QED BY <2>2, RestrictedGood
  <2>4. held' \ lost' \subseteq DOMAIN d BY <1>3 DEF Restrict, PInv, HeldSessionsStay
  <2> HIDE DEF c, d
  <2> QED BY <1>0, <1>1, <2>1, <2>3, <2>4, CommitKeeps DEF d
<1> QED BY <1>2, <1>3 DEF DeleteSession

(* A download that goes on stays good, and so does one that shares its second. *)
LEMMA SharedIsGood ==
    ASSUME NEW o \in GoodOp, NEW b \in BOOLEAN
    PROVE  [o EXCEPT !.shared = b] \in GoodOp
BY DEF GoodOp, Op

LEMMA VacuumIsGood ==
    ASSUME NEW o \in GoodOp
    PROVE  [o EXCEPT !.pc = "vacuum"] \in GoodOp
<1>1. "vacuum" \in Pcs BY DEF Pcs
<1> QED BY <1>1 DEF GoodOp, Op

(* The steps of a download: what it copies is good, and so is what it sends. *)
LEMMA DownloadKeeps ==
    ASSUME PInv, NEW p \in Procs,
           RemoveFile(p) \/ StartCopy(p) \/ FinishCopy(p) \/ SendFile(p)
    PROVE  PInv'
<1>0. Copies /\ op \in [Procs -> GoodOp] /\ op[p] \in GoodOp BY DEF PInv, Copies
<1>1. UNCHANGED <<now, main, wal, up, cmd, logins, orderly>>
  BY DEF RemoveFile, StartCopy, FinishCopy, SendFile, Apart, Outside, storage
<1>2. CASE RemoveFile(p)
  <2>1. UNCHANGED backup BY <1>2 DEF RemoveFile
  <2>2. \A n \in DOMAIN files' : files'[n] \in GoodFile
    BY <1>0, <1>2 DEF RemoveFile, Restrict, Copies
  <2>3. ASSUME NEW q \in Procs, NEW b \in BOOLEAN
        PROVE  /\ [op[q] EXCEPT !.pc = "vacuum", !.shared = b] \in GoodOp
               /\ [op[q] EXCEPT !.shared = b] \in GoodOp
    <3> DEFINE o == op[q]
    <3>1. o \in GoodOp BY <1>0
    <3> HIDE DEF o
    <3>2. [o EXCEPT !.pc = "vacuum"] \in GoodOp BY <3>1, VacuumIsGood
    <3>3. [[o EXCEPT !.pc = "vacuum"] EXCEPT !.shared = b] \in GoodOp BY <3>2, SharedIsGood
    <3>4. [[o EXCEPT !.pc = "vacuum"] EXCEPT !.shared = b]
            = [o EXCEPT !.pc = "vacuum", !.shared = b]
      BY <3>1 DEF GoodOp, Op
    <3>5. [o EXCEPT !.shared = b] \in GoodOp BY <3>1, SharedIsGood
    <3> QED BY <3>3, <3>4, <3>5 DEF o
  <2>4. ASSUME NEW q \in Procs PROVE op'[q] \in GoodOp
    <3> DEFINE b == op[q].shared \/ Rivals(p) # {}
    <3>1. op[q].shared \in BOOLEAN BY <1>0 DEF GoodOp, Op
    <3>2. b \in BOOLEAN BY <3>1
    <3>3. \/ op'[q] = [op[q] EXCEPT !.pc = "vacuum", !.shared = b]
          \/ op'[q] = [op[q] EXCEPT !.shared = TRUE] \/ op'[q] = op[q]
      BY <1>2 DEF RemoveFile
    <3> HIDE DEF b
    <3> QED BY <1>0, <2>3, <3>2, <3>3
  <2>5. op' \in [Procs -> GoodOp] BY <1>2, <2>4 DEF RemoveFile
  <2> QED BY <1>0, <1>1, <2>1, <2>2, <2>5, RequestsOnly DEF Copies
<1>3. CASE StartCopy(p)
  <2>1. CASE End(p, "failed") /\ UNCHANGED storage
    <3>1. op' \in [Procs -> GoodOp] BY <1>0, <2>1, EndGood DEF Results
    <3> QED BY <1>0, <1>1, <2>1, <3>1, RequestsOnly DEF Copies, storage
  <2>2. CASE ~(End(p, "failed") /\ UNCHANGED storage)
    <3> DEFINE n == NameOf(op[p].name)
    <3>1. PICK c \in Conns : Set(p, [op[p] EXCEPT !.pc = "copying", !.conn = c,
                                                  !.content = Database])
      BY <1>3, <2>2 DEF StartCopy
    <3>2. files' = [x \in DOMAIN files \cup {n} |->
                      IF x = n THEN [writer |-> p, content |-> None] ELSE files[x]]
          /\ UNCHANGED backup
      BY <1>3, <2>2 DEF StartCopy
    <3>3. Database \in Good /\ "copying" \in Pcs BY <1>0, DatabaseGood DEF Pcs
    <3>4. [op[p] EXCEPT !.pc = "copying", !.conn = c, !.content = Database] \in GoodOp
      <4> DEFINE b == Database
      <4> HIDE DEF b
      <4>1. b \in Contents BY <3>3 DEF Good, b
      <4> QED BY <1>0, <3>3, <4>1 DEF GoodOp, Op, b
    <3>5. op' \in [Procs -> GoodOp] BY <1>0, <3>1, <3>4, SetGood
    <3>6. [writer |-> p, content |-> None] \in GoodFile BY DEF GoodFile, File
    <3>7. \A x \in DOMAIN files' : files'[x] \in GoodFile BY <1>0, <3>2, <3>6 DEF Copies
    <3> QED BY <1>0, <1>1, <3>2, <3>5, <3>7, RequestsOnly DEF Copies
  <2> QED BY <2>1, <2>2
<1>4. CASE FinishCopy(p)
  <2>1. [op[p] EXCEPT !.pc = "open", !.conn = None] \in GoodOp
    <3>1. "open" \in Pcs BY DEF Pcs
    <3> QED BY <1>0, <3>1 DEF GoodOp, Op
  <2>2. op' \in [Procs -> GoodOp] BY <1>0, <1>4, <2>1, SetGood DEF FinishCopy
  <2>3. ASSUME NEW x \in DOMAIN files PROVE [files[x] EXCEPT !.content = op[p].content] \in GoodFile
    <3>1. files[x] \in GoodFile BY <1>0 DEF Copies
    <3>2. op[p].content \in Contents \cup {None} /\ op[p].content \in Good \cup {None}
      BY <1>0 DEF GoodOp, Op
    <3> QED BY <3>1, <3>2 DEF GoodFile, File
  <2>4. \A x \in DOMAIN files' : files'[x] \in GoodFile
    BY <1>0, <1>4, <2>3 DEF FinishCopy, Copies
  <2> QED BY <1>0, <1>1, <1>4, <2>2, <2>4, RequestsOnly DEF FinishCopy, Copies
<1>5. CASE SendFile(p)
  <2> DEFINE n == NameOf(op[p].name)
  <2>1. CASE n \notin DOMAIN files
    <3>1. op' \in [Procs -> GoodOp]
      BY <1>0, <1>5, <2>1, EndGood DEF SendFile, Results
    <3> QED BY <1>0, <1>1, <1>5, <2>1, <3>1, RequestsOnly DEF SendFile, Copies
  <2>2. CASE n \in DOMAIN files
    <3> DEFINE b == files[n].content
    <3>1. b \in Good \cup {None} /\ b \in Contents \cup {None}
      BY <1>0, <2>2 DEF Copies, GoodFile, File
    <3>2. Set(p, [op[p] EXCEPT !.pc = "done", !.result = "ok", !.name = 0, !.token = None,
                               !.sent = b])
          /\ backup' = IF b = None THEN backup ELSE b
      BY <1>5, <2>2 DEF SendFile
    <3>3. "done" \in Pcs /\ "ok" \in Results /\ 0 \in 0 .. MaxTime
      BY Assumed DEF Pcs, Results, Constants, EnvironmentAssumption
    <3>4. [op[p] EXCEPT !.pc = "done", !.result = "ok", !.name = 0, !.token = None,
                        !.sent = b] \in GoodOp
      <4> HIDE DEF b
      <4> QED BY <1>0, <3>1, <3>3 DEF GoodOp, Op
    <3>5. op' \in [Procs -> GoodOp] BY <1>0, <3>2, <3>4, SetGood
    <3>6. backup' \in Good \cup {None} BY <1>0, <3>1, <3>2 DEF Copies
    <3> QED BY <1>0, <1>1, <1>5, <3>5, <3>6, RequestsOnly DEF SendFile, Copies
  <2> QED BY <2>1, <2>2
<1> QED BY <1>2, <1>3, <1>4, <1>5, SMTT(60)

LEMMA AttachKeeps ==
    ASSUME PInv, NEW p \in Procs, Attach(p) \/ Release(p) \/ Detach(p)
    PROVE  PInv'
<1>0. Copies /\ op \in [Procs -> GoodOp] /\ op[p] \in GoodOp BY SMTT(60) DEF PInv, Copies
<1>1. UNCHANGED <<now, storage, up, cmd, logins, orderly>>
  BY DEF Attach, Release, Detach, Apart, Outside
<1>2. op' \in [Procs -> GoodOp]
  <2>0. {"release", "copy", "detach"} \subseteq Pcs /\ {"attached", "failed"} \subseteq Refusals
    BY DEF Pcs, Refusals
  <2>1. CASE Attach(p)
    <3>1. CASE End(p, "failed") BY <1>0, <3>1, EndGood DEF Results
    <3>2. CASE ~End(p, "failed")
      <4>1. PICK c \in Conns, refusal \in {"attached", "failed"} :
              \/ Set(p, [op[p] EXCEPT !.pc = "release", !.conn = c, !.used = c,
                                      !.refusal = refusal])
              \/ Set(p, [op[p] EXCEPT !.pc = "copy", !.conn = c, !.used = c])
        BY <2>1, <3>2 DEF Attach
      <4>2. [op[p] EXCEPT !.pc = "release", !.conn = c, !.used = c, !.refusal = refusal]
               \in GoodOp
        BY <1>0, <2>0 DEF GoodOp, Op
      <4>3. [op[p] EXCEPT !.pc = "copy", !.conn = c, !.used = c] \in GoodOp
        BY <1>0, <2>0 DEF GoodOp, Op
      <4> QED BY <1>0, <4>1, <4>2, <4>3, SetGood, SMTT(60)
    <3> QED BY <3>1, <3>2
  <2>2. CASE Release(p)
    <3>1. [op[p] EXCEPT !.pc = "detach", !.conn = None] \in GoodOp
      BY <1>0, <2>0 DEF GoodOp, Op
    <3> QED BY <1>0, <2>2, <3>1, SetGood DEF Release
  <2>3. CASE Detach(p)
    <3>1. PICK result \in {"ok", "failed"} : End(p, result) BY <2>3 DEF Detach
    <3> QED BY <1>0, <3>1, EndGood DEF Results
  <2> QED BY <2>1, <2>2, <2>3
<1> QED BY <1>0, <1>1, <1>2, RequestsOnly DEF Copies, storage

(* Administrators and sessions are replaced together. *)
LEMMA RestoredGood ==
    ASSUME Copies, NEW c \in Good, NEW conn PROVE Restored(c, conn) \in Good
<1> DEFINE b == Database
           w == IF conn = Enforcing THEN FALSE ELSE b.policies
<1>1. b \in Contents /\ c \in Contents /\ Sound(c) BY DatabaseGood DEF Good
<1>2. w \in BOOLEAN BY <1>1 DEF Contents
<1>3. Restored(c, conn) = [b EXCEPT !.admins = c.admins, !.sessions = c.sessions,
                                    !.policies = w]
  BY DEF Restored
<1> HIDE DEF b, w
<1>4. Restored(c, conn) \in Contents BY <1>1, <1>2, <1>3 DEF Contents
<1>5. /\ Restored(c, conn).admins = c.admins
      /\ Restored(c, conn).sessions = c.sessions
  BY <1>1, <1>3 DEF Contents
<1> QED BY <1>1, <1>4, <1>5 DEF Good, Sound

LEMMA CopyKeeps == ASSUME PInv, NEW p \in Procs, Copy(p) PROVE PInv'
<1>0. /\ Copies /\ op \in [Procs -> GoodOp] /\ op[p] \in GoodOp
      /\ UNCHANGED <<now, up, cmd, orderly>> /\ up
  BY DEF PInv, Copies, Copy, Outside
<1>1. ASSUME NEW refusal \in Refusals
      PROVE  /\ [op[p] EXCEPT !.pc = "release", !.refusal = refusal] \in GoodOp
             /\ [op[p] EXCEPT !.pc = "release"] \in GoodOp
  <2>1. "release" \in Pcs BY DEF Pcs
  <2> QED BY <1>0, <2>1, ZenonT(60) DEF GoodOp, Op
<1>2. CASE /\ \E refusal \in Refusals :
                  Set(p, [op[p] EXCEPT !.pc = "release", !.refusal = refusal])
           /\ UNCHANGED <<storage, logins>>
  <2>1. op' \in [Procs -> GoodOp] BY <1>0, <1>1, <1>2, SetGood
  <2> QED BY <1>0, <1>2, <2>1, RequestsOnly DEF Copies, storage
<1>3. CASE /\ Commit(Restored(op[p].source, op[p].conn))
           /\ Set(p, [op[p] EXCEPT !.pc = "release"])
           /\ held' = {} /\ lost' = {}
  <2>1. Restored(op[p].source, op[p].conn) \in Good BY <1>0, RestoredGood DEF GoodOp
  <2>2. op' \in [Procs -> GoodOp]
    BY <1>0, <1>1, <1>3, SetGood, "none" \in Refusals DEF Refusals
  <2> QED BY <1>0, <1>3, <2>1, <2>2, CommitKeeps
<1> QED BY <1>2, <1>3 DEF Copy, Refusals

-----------------------------------------------------------------------------
(***************************************************************************)
(* The service and the operator.                                           *)
(***************************************************************************)
LEMMA ServiceKeeps ==
    ASSUME PInv, \/ WriterTakes \/ WriterReturns
                 \/ WritePolicies \/ Tick \/ Checkpoint \/ Start \/ Stop \/ Kill
    PROVE  PInv'
<1>0. Copies /\ op \in [Procs -> GoodOp] /\ Database \in Good
  BY DatabaseGood DEF PInv, Copies
<1>1. CASE WritePolicies
  <2>1. [Database EXCEPT !.policies = TRUE] \in Good
        /\ [Database EXCEPT !.policies = TRUE].sessions = Database.sessions
    BY <1>0, OtherTables
  <2>2. held' \ lost' \subseteq DOMAIN Database.sessions
    BY <1>1 DEF WritePolicies, Apart, logins, PInv, HeldSessionsStay
  <2> HIDE DEF Database
  <2> QED BY <1>0, <1>1, <2>1, <2>2, CommitKeeps DEF WritePolicies, Apart, Outside
<1>2. CASE Tick
  <2>1. now' \in 0 .. MaxTime
    BY <1>0, <1>2, Assumed DEF Tick, Copies, Constants, EnvironmentAssumption
  <2>2. Copies' BY <1>0, <1>2, <2>1 DEF Tick, Copies, storage
  <2>3. Restoring' /\ HeldSessionsStay'
    BY <1>2 DEF Tick, storage, logins, PInv, Restoring, HeldSessionsStay, Database
  <2> QED BY <2>2, <2>3 DEF PInv
<1>3. ASSUME Fold, UNCHANGED <<files, backup, now, logins>>, op' \in [Procs -> GoodOp],
             cmd' = cmd, Checkpoint \/ Stop
      PROVE PInv'
  <2>1. main' = Database /\ wal' = None /\ Database' = Database
    BY <1>3 DEF Fold, Database
  <2>2. Copies' BY <1>0, <1>3, <2>1 DEF Copies
  <2>3. cmd.pc = "idle" /\ (cmd' = cmd)
    BY <1>3 DEF Checkpoint, Stop, PInv, Restoring
  <2>4. Restoring' BY <2>1, <2>3 DEF Restoring
  <2>5. HeldSessionsStay' BY <1>3, <2>1 DEF PInv, HeldSessionsStay, logins
  <2> QED BY <2>2, <2>4, <2>5 DEF PInv
<1>4. CASE Checkpoint
  BY <1>0, <1>3, <1>4 DEF Checkpoint, Apart, Outside
<1>5. ASSUME Gone
      PROVE  op' \in [Procs -> GoodOp] /\ UNCHANGED <<files, backup, now, logins, cmd>> /\ ~up'
  <2>1. NoOp \in GoodOp
    BY EmptyGood, NoneIsNoContent, Assumed DEF NoOp, GoodOp, Op, Good, RequestKinds, Pcs,
       Results, Refusals, Constants, EnvironmentAssumption, LimiterAssumption
  <2> QED BY <1>5, <2>1 DEF Gone
<1>6. ASSUME Gone, up, UNCHANGED <<main, wal>>, ~orderly' PROVE PInv'
  <2>1. Copies' BY <1>0, <1>5, <1>6 DEF Copies
  <2>2. Restoring' BY <1>5, <1>6 DEF PInv, Restoring
  <2>3. HeldSessionsStay' BY <1>5, <1>6 DEF PInv, HeldSessionsStay, Database, logins
  <2> QED BY <2>1, <2>2, <2>3 DEF PInv
<1>7. CASE Stop
  <2>1. CASE \A p \in Procs : Free(p)
    BY <1>3, <1>5, <1>7, <2>1 DEF Stop, CloseDatabase
  <2>2. CASE ~\A p \in Procs : Free(p) BY <1>6, <1>7, <2>2 DEF Stop
  <2> QED BY <2>1, <2>2
<1>8. CASE Kill BY <1>6, <1>8 DEF Kill
<1>9. CASE Start
  <2>1. UNCHANGED <<now, op, logins, files, backup, main>> /\ up' /\ cmd' = NoCmd
    BY <1>9 DEF Start, storage, Commit
  <2>2. NoCmd \in Command /\ NoCmd.source \in Good /\ NoCmd.pc = "idle"
    BY EmptyGood DEF NoCmd, Command, Good
  <2>3. wal' \in Good \cup {None} /\ Database'.sessions = Database.sessions
    <3>1. CASE UNCHANGED storage BY <1>0, <3>1 DEF storage, Copies, Database
    <3>2. CASE Commit([Database EXCEPT !.tables = TRUE])
      <4> DEFINE c == [Database EXCEPT !.tables = TRUE]
      <4>1. c \in Good /\ c.sessions = Database.sessions BY <1>0, OtherTables
      <4> HIDE DEF c
      <4>2. wal' = c /\ Database' = c BY <3>2, <4>1, NoneIsNoContent DEF Commit, Database, c
      <4> QED BY <4>1, <4>2
    <3> QED BY <1>9, <3>1, <3>2 DEF Start
  <2>4. Copies' BY <1>0, <2>1, <2>2, <2>3 DEF Copies
  <2>5. Restoring' BY <2>1, <2>2 DEF Restoring
  <2>6. HeldSessionsStay' BY <2>1, <2>3 DEF PInv, HeldSessionsStay, logins
  <2> QED BY <2>4, <2>5, <2>6 DEF PInv
<1>10. CASE WriterTakes \/ WriterReturns
  <2>1. UNCHANGED <<now, storage, up, cmd, logins, orderly, op>>
    BY <1>10 DEF WriterTakes, WriterReturns, Apart, Outside
  <2> QED BY <1>0, <2>1, RequestsOnly DEF Copies, storage
<1> QED BY <1>1, <1>2, <1>4, <1>7, <1>8, <1>9, <1>10

LEMMA CommandKeeps ==
    ASSUME PInv, NEW c \in Good, c.sessions = Database.sessions, CommandWrites(c),
           backup' \in Good \cup {None}, cmd' = NoCmd,
           UNCHANGED <<now, files, up, op, logins, orderly>>
    PROVE  PInv'
<1>1. NoCmd \in Command /\ NoCmd.source \in Good /\ NoCmd.pc = "idle"
  BY EmptyGood DEF NoCmd, Command, Good
<1>2. /\ main' \in Good /\ wal' \in Good \cup {None} /\ Database' = c
      /\ ~up => wal' = None
  BY NoneIsNoContent DEF CommandWrites, PInv, Copies, Database
<1>3. Copies' BY <1>1, <1>2 DEF PInv, Copies
<1>4. Restoring' BY <1>1, <1>2 DEF Restoring
<1>5. HeldSessionsStay' BY <1>2 DEF PInv, HeldSessionsStay, logins
<1> QED BY <1>3, <1>4, <1>5 DEF PInv

LEMMA BootstrapKeeps == ASSUME PInv, NEW e \in Emails, BootstrapAdmin(e) PROVE PInv'
<1>1. PICK id \in RowOf(e) : CommandWrites([Database EXCEPT !.tables = TRUE, !.admins[e] = id])
  BY DEF BootstrapAdmin
<1> DEFINE b == Database
<1>2. b \in Good BY DatabaseGood DEF PInv
<1>3. id \in AdminIds /\ (b.admins[e] # None => id = b.admins[e])
  BY <1>2 DEF RowOf, Good, Contents
<1> HIDE DEF b
<1> DEFINE c == [b EXCEPT !.tables = TRUE, !.admins[e] = id]
<1>4. c \in Good /\ c.sessions = b.sessions BY <1>2, <1>3, AdminGood
<1>5. CommandWrites(c) BY <1>1 DEF b
<1>6. /\ cmd' = NoCmd /\ UNCHANGED <<now, files, up, op, logins, orderly>>
      /\ backup' \in Good \cup {None}
  BY DEF BootstrapAdmin, PInv, Copies
<1> HIDE DEF c
<1> QED BY <1>4, <1>5, <1>6, CommandKeeps DEF b

LEMMA BackupKeeps == ASSUME PInv, BackupCommand PROVE PInv'
<1>1. Database \in Good BY DatabaseGood DEF PInv
<1>2. [Database EXCEPT !.tables = TRUE] \in Good
      /\ [Database EXCEPT !.tables = TRUE].sessions = Database.sessions
  BY <1>1, OtherTables
<1>3. /\ backup' = [Database EXCEPT !.tables = TRUE] /\ CommandWrites(backup')
      /\ cmd' = NoCmd /\ UNCHANGED <<now, files, up, op, logins, orderly>>
  BY DEF BackupCommand
<1> DEFINE c == [Database EXCEPT !.tables = TRUE]
<1> HIDE DEF c
<1>4. c \in Good /\ c.sessions = Database.sessions /\ backup' = c /\ CommandWrites(c)
  BY <1>2, <1>3 DEF c
<1> QED BY <1>3, <1>4, CommandKeeps

LEMMA OfflineKeeps ==
    ASSUME PInv, BeginOffline \/ SaveOld \/ DropLog \/ Replace \/ OfflineFails
    PROVE  PInv'
<1>0. /\ Copies /\ Restoring /\ cmd \in Command /\ Database \in Contents
      /\ UNCHANGED <<now, files, backup, up, op, orderly>>
  BY DatabaseGood
     DEF PInv, Copies, Good, BeginOffline, SaveOld, DropLog, Replace, OfflineFails, Offline,
         storage
<1>1. CASE BeginOffline
  <2>1. PICK c \in Uploads :
          cmd' = [NoCmd EXCEPT !.pc = "save", !.source = c, !.found = Database]
    BY <1>1 DEF BeginOffline
  <2>2. c \in Good /\ c \in Contents BY <1>0, UploadsGood DEF Good
  <2>3. /\ cmd' \in Command /\ cmd'.source = c /\ cmd'.pc = "save" /\ cmd'.found = Database
        /\ cmd'.rollback = None
    <3> HIDE DEF Database
    <3> QED BY <1>0, <2>1, <2>2 DEF NoCmd, Command
  <2>4. ~up /\ UNCHANGED <<main, wal, logins>> BY <1>1 DEF BeginOffline, storage
  <2>5. Copies' BY <1>0, <2>2, <2>3, <2>4 DEF Copies
  <2>6. Restoring' BY <1>0, <2>3, <2>4 DEF Restoring, Database
  <2>7. HeldSessionsStay' BY <2>4 DEF PInv, HeldSessionsStay, Database, logins
  <2> QED BY <2>5, <2>6, <2>7 DEF PInv
<1>2. CASE SaveOld
  <2>1. main \in Contents BY <1>0 DEF Copies, Good
  <2>2. cmd' = [cmd EXCEPT !.pc = "dropLog", !.rollback = main] /\ cmd.pc = "save"
        /\ UNCHANGED <<main, wal, logins>>
    BY <1>2 DEF SaveOld
  <2>3. /\ cmd' \in Command /\ cmd'.source = cmd.source /\ cmd'.pc = "dropLog"
        /\ cmd'.found = cmd.found /\ cmd'.rollback = main
    BY <1>0, <2>1, <2>2 DEF Command
  <2>4. Copies' BY <1>0, <2>2, <2>3 DEF Copies
  <2>5. Restoring' BY <1>0, <2>2, <2>3 DEF Restoring
  <2>6. HeldSessionsStay' BY <2>2 DEF PInv, HeldSessionsStay, Database, logins
  <2> QED BY <2>4, <2>5, <2>6 DEF PInv
<1>3. CASE DropLog
  <2>1. /\ cmd' = [cmd EXCEPT !.pc = "replace"] /\ cmd.pc = "dropLog"
        /\ main' = main /\ wal' = None /\ held' = held
        /\ lost' = IF orderly THEN lost ELSE lost \cup (held \ DOMAIN main.sessions)
    BY <1>3 DEF DropLog
  <2>2. /\ cmd' \in Command /\ cmd'.source = cmd.source /\ cmd'.pc = "replace"
        /\ cmd'.found = cmd.found /\ cmd'.rollback = cmd.rollback
    BY <1>0, <2>1 DEF Command
  <2>3. Copies' BY <1>0, <2>1, <2>2 DEF Copies
  <2>4. Restoring' BY <1>0, <2>1, <2>2 DEF Restoring
  <2>5. orderly => wal = None BY <1>0, <2>1 DEF Restoring
  <2>6. HeldSessionsStay'
    <3>1. CASE orderly BY <2>1, <2>5, <3>1 DEF PInv, HeldSessionsStay, Database
    <3>2. CASE ~orderly
      <4>1. Database' = main BY <2>1 DEF Database
      <4>2. held' \ lost' \subseteq DOMAIN main.sessions BY <2>1, <3>2
      <4> QED BY <4>1, <4>2 DEF HeldSessionsStay
    <3> QED BY <3>1, <3>2
  <2> QED BY <2>3, <2>4, <2>6 DEF PInv
<1>4. CASE Replace
  <2>1. /\ cmd' = [cmd EXCEPT !.pc = "ended"] /\ cmd.pc = "replace"
        /\ main' = cmd.source /\ wal' = wal /\ held' = {} /\ lost' = {}
    BY <1>4 DEF Replace
  <2>2. /\ cmd' \in Command /\ cmd'.source = cmd.source /\ cmd'.pc = "ended"
        /\ cmd'.found = cmd.found /\ cmd'.rollback = cmd.rollback
    BY <1>0, <2>1 DEF Command
  <2>3. Copies' BY <1>0, <2>1, <2>2 DEF Copies
  <2>4. Restoring' BY <1>0, <2>1, <2>2 DEF Restoring
  <2>5. HeldSessionsStay' BY <2>1 DEF HeldSessionsStay
  <2> QED BY <2>3, <2>4, <2>5 DEF PInv
<1>5. CASE OfflineFails
  <2>1. /\ cmd' = [cmd EXCEPT !.pc = "ended"] /\ cmd.pc \in {"save", "dropLog", "replace"}
        /\ UNCHANGED <<main, wal, logins>>
    BY <1>5 DEF OfflineFails
  <2>2. /\ cmd' \in Command /\ cmd'.source = cmd.source /\ cmd'.pc = "ended"
        /\ cmd'.found = cmd.found /\ cmd'.rollback = cmd.rollback
    BY <1>0, <2>1 DEF Command
  <2>3. Copies' BY <1>0, <2>1, <2>2 DEF Copies
  <2>4. Restoring' BY <1>0, <2>1, <2>2 DEF Restoring
  <2>5. HeldSessionsStay' BY <2>1 DEF PInv, HeldSessionsStay, Database, logins
  <2> QED BY <2>3, <2>4, <2>5 DEF PInv
<1> QED BY <1>1, <1>2, <1>3, <1>4, <1>5

LEMMA StutterKeeps == ASSUME PInv, UNCHANGED vars PROVE PInv'
<1>1. Copies' BY DEF PInv, Copies, vars, storage
<1>2. Restoring' BY DEF PInv, Restoring, vars, storage
<1>3. HeldSessionsStay' BY DEF PInv, HeldSessionsStay, Database, vars, storage, logins
<1> QED BY <1>1, <1>2, <1>3 DEF PInv

LEMMA StepKeeps == PInv /\ [Next]_vars => PInv'
<1> SUFFICES ASSUME PInv, [Next]_vars PROVE PInv' OBVIOUS
<1>1. ASSUME NEW p \in Procs,
             \/ Begin(p) \/ Arrive(p) \/ Allow(p) \/ LookUp(p) \/ Reset(p) \/ CreateSession(p)
             \/ Authenticate(p) \/ DeleteSession(p)
             \/ RemoveFile(p) \/ StartCopy(p) \/ FinishCopy(p) \/ SendFile(p)
             \/ Attach(p) \/ Copy(p) \/ Release(p) \/ Detach(p)
      PROVE PInv'
  BY <1>1, BeginKeeps, LoginKeeps, CreateSessionKeeps, AuthenticateKeeps, DeleteSessionKeeps,
     DownloadKeeps, AttachKeeps, CopyKeeps
<1> QED BY <1>1, ServiceKeeps, BootstrapKeeps, BackupKeeps, OfflineKeeps, StutterKeeps DEF Next

LEMMA Invariant == Spec => []PInv
BY InitInv, StepKeeps, PTL DEF Spec

-----------------------------------------------------------------------------
(***************************************************************************)
(* What the steps of a request leave of it, and of the others.             *)
(***************************************************************************)
Others(p) == \A q \in Procs \ {p} : op'[q] = op[q]
(* The part of a request that only downloads and restores write. *)
Load(o) == <<o.kind, o.shared, o.conn, o.content, o.sent, o.refusal>>

LEMMA SetOnly ==
    ASSUME PInv, NEW p \in Procs, NEW o, Set(p, o)
    PROVE  op[p] \in Op /\ op'[p] = o /\ Others(p)
BY DEF PInv, Copies, Set, Others, GoodOp

LEMMA EndOnly ==
    ASSUME PInv, NEW p \in Procs, NEW result, End(p, result)
    PROVE  /\ Others(p) /\ Load(op'[p]) = Load(op[p])
           /\ op'[p].pc = "done" /\ op'[p].result = result
<1>1. /\ op[p] \in Op /\ Others(p)
      /\ op'[p] = [op[p] EXCEPT !.pc = "done", !.result = result, !.address = None, !.stamp = 0,
                                !.token = None, !.admin = None, !.expires = 0, !.source = Empty,
                                !.used = None, !.name = 0]
  BY SetOnly DEF End
<1> HIDE DEF Others
<1> QED BY <1>1, SMTT(60) DEF Load, Op

LEMMA GotoOnly ==
    ASSUME PInv, NEW p \in Procs, NEW pc, Goto(p, pc)
    PROVE  /\ Others(p) /\ Load(op'[p]) = Load(op[p]) /\ op'[p].pc = pc
           /\ op'[p].address = op[p].address
<1>1. op[p] \in Op /\ Others(p) /\ op'[p] = [op[p] EXCEPT !.pc = pc] BY SetOnly DEF Goto
<1> HIDE DEF Others
<1> QED BY <1>1 DEF Load, Op

(* Logins, logouts, calls, and the check that every request begins with. *)
Plain(p) ==
    \/ Arrive(p) \/ Allow(p) \/ LookUp(p) \/ Reset(p) \/ CreateSession(p)
    \/ Authenticate(p) \/ DeleteSession(p)

Moves(o, n) ==
    \/ /\ o.pc \in {"arrive", "allow", "lookup", "reset", "create"}
       /\ n.pc \in {"allow", "lookup", "reset", "create", "done"}
    \/ o.pc = "auth" /\ n.pc \in {"done", Entry(o.kind)}
    \/ o.pc = "delete" /\ n.pc = "done"

LEMMA PlainOnly ==
    ASSUME PInv, NEW p \in Procs, Plain(p)
    PROVE  /\ Others(p) /\ Load(op'[p]) = Load(op[p]) /\ Moves(op[p], op'[p])
           /\ op'[p].pc = "done" \/ op'[p].address = op[p].address
<1> USE DEF Moves
<1>0. op[p] \in Op BY DEF PInv, Copies, GoodOp
<1>1. CASE Arrive(p)
  <2>1. Others(p) /\ op'[p] = [op[p] EXCEPT !.pc = "allow", !.stamp = now]
    BY <1>1, SetOnly DEF Arrive
  <2>2. op[p].pc = "arrive" BY <1>1 DEF Arrive
  <2> HIDE DEF Others
  <2> QED BY <1>0, <2>1, <2>2 DEF Load, Op
<1>2. CASE Allow(p)
  <2>1. (End(p, "limited") \/ Goto(p, "lookup")) /\ op[p].pc = "allow" BY <1>2 DEF Allow
  <2> QED BY <2>1, EndOnly, GotoOnly
<1>3. CASE LookUp(p)
  <2>0. op[p].pc = "lookup" BY <1>3 DEF LookUp
  <2>1. CASE End(p, "refused") \/ End(p, "unavailable") BY <2>0, <2>1, EndOnly
  <2>2. CASE \E e \in Emails : Set(p, [op[p] EXCEPT !.pc = "reset", !.admin = Database.admins[e]])
    <3>1. PICK e \in Emails : Set(p, [op[p] EXCEPT !.pc = "reset", !.admin = Database.admins[e]])
      BY <2>2
    <3>2. Others(p) /\ op'[p] = [op[p] EXCEPT !.pc = "reset", !.admin = Database.admins[e]]
      BY <3>1, SetOnly
    <3> HIDE DEF Others
    <3> QED BY <1>0, <2>0, <3>2 DEF Load, Op
  <2> QED BY <1>3, <2>1, <2>2 DEF LookUp
<1>4. CASE Reset(p)
  <2>1. Others(p) /\ op'[p] = [op[p] EXCEPT !.pc = "create", !.expires = now + TTL]
    BY <1>4, SetOnly DEF Reset
  <2>2. op[p].pc = "reset" BY <1>4 DEF Reset
  <2> HIDE DEF Others
  <2> QED BY <1>0, <2>1, <2>2 DEF Load, Op
<1>5. CASE CreateSession(p)
  <2>1. (End(p, "unavailable") \/ End(p, "ok")) /\ op[p].pc = "create"
    BY <1>5 DEF CreateSession
  <2> QED BY <2>1, EndOnly
<1>6. CASE Authenticate(p)
  <2>1. \/ End(p, "unavailable") \/ End(p, "refused") \/ End(p, "ok")
        \/ Set(p, [op[p] EXCEPT !.pc = Entry(op[p].kind), !.name = now])
    BY <1>6 DEF Authenticate
  <2>0. op[p].pc = "auth" BY <1>6 DEF Authenticate
  <2>2. CASE Set(p, [op[p] EXCEPT !.pc = Entry(op[p].kind), !.name = now])
    <3>1. Others(p) /\ op'[p] = [op[p] EXCEPT !.pc = Entry(op[p].kind), !.name = now]
      BY <2>2, SetOnly
    <3> HIDE DEF Others
    <3> QED BY <1>0, <2>0, <3>1 DEF Load, Op
  <2> QED BY <2>0, <2>1, <2>2, EndOnly
<1>7. CASE DeleteSession(p) BY <1>7, EndOnly DEF DeleteSession
<1> QED BY <1>1, <1>2, <1>3, <1>4, <1>5, <1>6, <1>7 DEF Plain

(* The steps of a download and of a restore. *)
LEMMA StartCopyOnly ==
    ASSUME PInv, NEW p \in Procs, StartCopy(p)
    PROVE  /\ op[p].pc = "vacuum" /\ Others(p)
           /\ \/ /\ Load(op'[p]) = Load(op[p]) /\ op'[p].pc = "done" /\ op'[p].result = "failed"
                 /\ Statement /\ UNCHANGED files
              \/ \E c \in Conns :
                    /\ TakesOff(c) /\ UNCHANGED <<attached, writer, stray>>
                    /\ op'[p] = [op[p] EXCEPT !.pc = "copying", !.conn = c, !.content = Database]
                    /\ op[p].name \notin DOMAIN files
                    /\ files' = [x \in DOMAIN files \cup {op[p].name} |->
                                   IF x = op[p].name THEN [writer |-> p, content |-> None]
                                   ELSE files[x]]
<1>1. op[p].pc = "vacuum" BY DEF StartCopy
<1>2. CASE End(p, "failed") /\ Statement /\ UNCHANGED storage
  BY <1>1, <1>2, EndOnly DEF storage
<1>3. CASE ~(End(p, "failed") /\ Statement /\ UNCHANGED storage)
  <2>1. PICK c \in Conns :
          /\ TakesOff(c) /\ UNCHANGED <<attached, writer, stray>>
          /\ Set(p, [op[p] EXCEPT !.pc = "copying", !.conn = c, !.content = Database])
    BY <1>3 DEF StartCopy
  <2>2. Others(p) /\ op'[p] = [op[p] EXCEPT !.pc = "copying", !.conn = c, !.content = Database]
    BY <2>1, SetOnly
  <2>3. /\ op[p].name \notin DOMAIN files
        /\ files' = [x \in DOMAIN files \cup {op[p].name} |->
                       IF x = op[p].name THEN [writer |-> p, content |-> None] ELSE files[x]]
    BY <1>3 DEF StartCopy, NameOf
  <2> QED BY <1>1, <2>1, <2>2, <2>3
<1> QED BY <1>2, <1>3

LEMMA FinishCopyOnly ==
    ASSUME PInv, NEW p \in Procs, FinishCopy(p)
    PROVE  /\ op[p].pc = "copying" /\ Others(p)
           /\ op'[p] = [op[p] EXCEPT !.pc = "open", !.conn = None]
           /\ PutsBack(op[p].conn) /\ released' = None /\ UNCHANGED <<attached, writer, stray>>
BY SetOnly DEF FinishCopy

LEMMA SendFileOnly ==
    ASSUME PInv, NEW p \in Procs, SendFile(p)
    PROVE  /\ op[p].pc = "open" /\ Others(p) /\ UNCHANGED <<files, pool>>
           /\ \/ /\ Load(op'[p]) = Load(op[p]) /\ op'[p].pc = "done" /\ op'[p].result = "failed"
              \/ op'[p] = [op[p] EXCEPT !.pc = "done", !.result = "ok", !.name = 0,
                                       !.token = None, !.sent = files[op[p].name].content]
<1>1. op[p].pc = "open" /\ UNCHANGED <<files, pool>> BY DEF SendFile
<1>2. CASE End(p, "failed") BY <1>1, <1>2, EndOnly
<1>3. CASE Set(p, [op[p] EXCEPT !.pc = "done", !.result = "ok", !.name = 0,
                                !.token = None, !.sent = files[op[p].name].content])
  BY <1>1, <1>3, SetOnly
<1> QED BY <1>2, <1>3 DEF SendFile, NameOf

(* A restore gets its connection, with src on it or with one that is there already. *)
Ready(o, c) == [o EXCEPT !.pc = "copy", !.conn = c, !.used = c]
Refused(o, c, refusal) ==
    [o EXCEPT !.pc = "release", !.conn = c, !.used = c, !.refusal = refusal]

LEMMA AttachOnly ==
    ASSUME PInv, NEW p \in Procs, Attach(p)
    PROVE  /\ op[p].pc = "attach" /\ Others(p) /\ UNCHANGED files
           /\ \/ Load(op'[p]) = Load(op[p]) /\ op'[p].pc = "done" /\ Statement
              \/ \E c \in Conns :
                    /\ TakesOff(c) /\ UNCHANGED <<writer, stray>>
                    /\ \/ /\ \E refusal \in {"attached", "failed"} :
                                  op'[p] = Refused(op[p], c, refusal)
                          /\ UNCHANGED attached
                       \/ op'[p] = Ready(op[p], c) /\ attached' = attached \cup {c}
<1>1. op[p].pc = "attach" /\ UNCHANGED files BY DEF Attach, storage
<1>2. CASE End(p, "failed") /\ Statement BY <1>1, <1>2, EndOnly
<1>3. CASE ~(End(p, "failed") /\ Statement)
  <2>1. PICK c \in Conns :
          /\ TakesOff(c) /\ UNCHANGED <<writer, stray>>
          /\ \/ /\ \E refusal \in {"attached", "failed"} : Set(p, Refused(op[p], c, refusal))
                /\ UNCHANGED attached
             \/ Set(p, Ready(op[p], c)) /\ attached' = attached \cup {c}
    BY <1>3 DEF Attach, Refused, Ready
  <2>2. CASE Set(p, Ready(op[p], c)) /\ attached' = attached \cup {c}
    BY <1>1, <2>1, <2>2, SetOnly
  <2>3. CASE UNCHANGED attached /\ \E refusal \in {"attached", "failed"} :
                                     Set(p, Refused(op[p], c, refusal))
    <3>1. PICK refusal \in {"attached", "failed"} : Set(p, Refused(op[p], c, refusal)) BY <2>3
    <3>2. op'[p] = Refused(op[p], c, refusal) /\ Others(p) BY <3>1, SetOnly
    <3> QED BY <1>1, <2>1, <2>3, <3>2
  <2> QED BY <2>1, <2>2, <2>3
<1> QED BY <1>2, <1>3

(* What the fields of such a request are. *)
LEMMA ReadyIs ==
    ASSUME NEW o \in Op, NEW c \in Conns
    PROVE  LET n == Ready(o, c) IN
           /\ n.pc = "copy" /\ n.conn = c /\ n.used = c /\ n.kind = o.kind
           /\ n.refusal = o.refusal
BY DEF Ready, Op

LEMMA RefusedIs ==
    ASSUME NEW o \in Op, NEW c \in Conns, NEW refusal
    PROVE  LET n == Refused(o, c, refusal) IN
           /\ n.pc = "release" /\ n.conn = c /\ n.used = c /\ n.kind = o.kind
           /\ n.refusal = refusal
BY DEF Refused, Op

LEMMA CopyOnly ==
    ASSUME PInv, NEW p \in Procs, Copy(p)
    PROVE  /\ op[p].pc = "copy" /\ Others(p) /\ UNCHANGED <<pool, files>>
           /\ \E refusal \in Refusals :
                 op'[p] = [op[p] EXCEPT !.pc = "release", !.refusal = refusal]
<1>1. op[p].pc = "copy" /\ UNCHANGED <<pool, files>> BY DEF Copy, storage, Commit
<1>2. CASE \E refusal \in Refusals : Set(p, [op[p] EXCEPT !.pc = "release", !.refusal = refusal])
  BY <1>1, <1>2, SetOnly
<1>3. CASE Set(p, [op[p] EXCEPT !.pc = "release"])
  <2>1. op[p] \in Op /\ Others(p) /\ op'[p] = [op[p] EXCEPT !.pc = "release"] BY <1>3, SetOnly
  <2>2. op[p].refusal \in Refusals BY <2>1 DEF Op
  <2>3. [op[p] EXCEPT !.pc = "release"]
           = [op[p] EXCEPT !.pc = "release", !.refusal = op[p].refusal]
    BY <2>1 DEF Op
  <2> QED BY <1>1, <2>1, <2>2, <2>3
<1> QED BY <1>2, <1>3 DEF Copy, Refusals

LEMMA ReleaseOnly ==
    ASSUME PInv, NEW p \in Procs, Release(p)
    PROVE  /\ op[p].pc = "release" /\ Others(p) /\ UNCHANGED files
           /\ op'[p] = [op[p] EXCEPT !.pc = "detach", !.conn = None]
           /\ PutsBack(op[p].conn) /\ released' = p /\ UNCHANGED <<attached, writer, stray>>
BY SetOnly DEF Release, storage

LEMMA DetachOnly ==
    ASSUME PInv, NEW p \in Procs, Detach(p)
    PROVE  /\ op[p].pc = "detach" /\ Others(p) /\ UNCHANGED <<files, writer>>
           /\ op'[p].pc = "done" /\ Load(op'[p]) = Load(op[p])
           /\ \/ /\ UNCHANGED <<idle, attached, released>>
                 /\ stray' = stray \cup ({op[p].used} \cap attached)
              \/ \E c \in Conns :
                    /\ Takes(c) /\ idle' = Append(Without(idle), c) /\ released' = None
                    /\ attached' = attached \ {c}
                    /\ stray' = (IF released = p THEN stray
                                 ELSE stray \cup ({op[p].used} \cap attached)) \ {c}
<1>1. op[p].pc = "detach" /\ UNCHANGED <<files, writer>> BY DEF Detach, storage
<1>2. End(p, "ok") \/ End(p, "failed") BY DEF Detach
<1>3. Others(p) /\ op'[p].pc = "done" /\ Load(op'[p]) = Load(op[p]) BY <1>2, EndOnly
<1> QED BY <1>1, <1>3 DEF Detach

LEMMA RemoveFileOnly ==
    ASSUME PInv, NEW p \in Procs, RemoveFile(p)
    PROVE  /\ op[p].pc = "name" /\ UNCHANGED pool
           /\ op'[p] = [op[p] EXCEPT !.pc = "vacuum", !.shared = op[p].shared \/ Rivals(p) # {}]
           /\ \A q \in Procs \ {p} : op'[q] = IF q \in Rivals(p) THEN [op[q] EXCEPT !.shared = TRUE]
                                           ELSE op[q]
           /\ files' = [x \in DOMAIN files \ {op[p].name} |-> files[x]]
BY DEF RemoveFile, NameOf, Restrict

LEMMA RequestPlaces ==
    ASSUME PInv, NEW p \in Procs,
           \/ StartCopy(p) \/ FinishCopy(p) \/ SendFile(p)
           \/ Attach(p) \/ Copy(p) \/ Release(p) \/ Detach(p)
    PROVE  op'[p].pc \in {"copying", "open", "copy", "release", "detach", "done"}
<1>0. op[p] \in Op BY DEF PInv, Copies, GoodOp
<1>1. CASE StartCopy(p)
  <2> DEFINE b == Database
  <2>1. \/ op'[p].pc = "done"
        \/ \E c \in Conns :
              op'[p] = [op[p] EXCEPT !.pc = "copying", !.conn = c, !.content = b]
    BY <1>1, StartCopyOnly
  <2> HIDE DEF b
  <2> QED BY <1>0, <2>1 DEF Op
<1>2. CASE FinishCopy(p)
  <2>1. op'[p] = [op[p] EXCEPT !.pc = "open", !.conn = None] BY <1>2, FinishCopyOnly
  <2> QED BY <1>0, <2>1 DEF Op
<1>3. CASE SendFile(p)
  <2> DEFINE b == files[op[p].name].content
  <2>1. \/ op'[p].pc = "done"
        \/ op'[p] = [op[p] EXCEPT !.pc = "done", !.result = "ok", !.name = 0,
                                  !.token = None, !.sent = b]
    BY <1>3, SendFileOnly
  <2> HIDE DEF b
  <2> QED BY <1>0, <2>1 DEF Op
<1>4. CASE Attach(p)
  <2>1. op'[p].pc = "done" \/ \E c \in Conns, refusal \in {"attached", "failed"} :
          op'[p] = Refused(op[p], c, refusal) \/ op'[p] = Ready(op[p], c)
    BY <1>4, AttachOnly
  <2> QED BY <1>0, <2>1, ReadyIs, RefusedIs
<1>5. CASE Copy(p)
  <2>1. PICK refusal \in Refusals :
          op'[p] = [op[p] EXCEPT !.pc = "release", !.refusal = refusal]
    BY <1>5, CopyOnly
  <2> QED BY <1>0, <2>1 DEF Op
<1>6. CASE Release(p)
  <2>1. op'[p] = [op[p] EXCEPT !.pc = "detach", !.conn = None] BY <1>6, ReleaseOnly
  <2> QED BY <1>0, <2>1 DEF Op
<1>7. CASE Detach(p) BY <1>7, DetachOnly
<1> QED BY <1>1, <1>2, <1>3, <1>4, <1>5, <1>6, <1>7

(* A new request. *)
LEMMA BeginOnly ==
    ASSUME PInv, NEW p \in Procs, Begin(p)
    PROVE  /\ Free(p) /\ up /\ UNCHANGED <<pool, files>> /\ Others(p)
           /\ op'[p].pc = IF op'[p].kind = "login" THEN "arrive" ELSE "auth"
           /\ op'[p].kind = "login" => op'[p].address \in Addresses
           /\ op'[p].refusal = "none" /\ op'[p].conn = None
<1>1. PICK kind \in Kinds, a \in Addresses, t \in Tokens, c \in Uploads \cup {Empty} :
          Set(p, Started(kind, a, t, c))
  BY DEF Begin
<1>2. op'[p] = Started(kind, a, t, c) /\ Others(p) BY <1>1, SetOnly
<1>3. /\ op'[p].kind = kind /\ op'[p].pc = FirstPc(kind)
      /\ op'[p].address = IF kind = "login" THEN a ELSE None
      /\ op'[p].refusal = "none" /\ op'[p].conn = None
  BY <1>2, ZenonT(60) DEF Started, NoOp
<1>4. Free(p) /\ up /\ UNCHANGED <<pool, files>> BY DEF Begin, storage
<1> QED BY <1>2, <1>3, <1>4 DEF FirstPc

-----------------------------------------------------------------------------
(***************************************************************************)
(* The phases of a request, and who runs beside it.                        *)
(***************************************************************************)
LEMMA NoConnection == None \notin Conns
BY Assumed DEF Constants, NamesAssumption

(* A step that keeps the phase of each request and frees or begins none    *)
(* but p, and no request begins beside it.                                 *)
LEMMA PhaseOfPlain ==
    ASSUME NEW o \in Op, NEW n \in Op, PhaseOf(o), Load(n) = Load(o), Moves(o, n)
    PROVE  PhaseOf(n)
<1>1. n.kind = o.kind /\ n.conn = o.conn /\ n.refusal = o.refusal BY DEF Load
<1>2. o.pc = "auth" => Entry(o.kind) \in {"delete", "attach", "name"}
                       /\ (Entry(o.kind) = "delete" => o.kind = "logout")
                       /\ (Entry(o.kind) = "attach" => o.kind = "restore")
  BY DEF Entry
<1> QED BY <1>1, <1>2 DEF Moves, PhaseOf

LEMMA OneMoves ==
    ASSUME PInv, RInv, op' \in [Procs -> Op], NEW p \in Procs, ~Free(p), up', Others(p),
           PhaseOf(op'[p])
    PROVE  RInv'
<1>1. op \in [Procs -> Op] BY DEF PInv, Copies, GoodOp
<1>2. Phases' BY DEF RInv, Phases, Others
<1> QED BY <1>2 DEF RInv, Turns

LEMMA Typed == ASSUME PInv PROVE op \in [Procs -> Op]
BY DEF PInv, Copies, GoodOp

LEMMA RequestPhases ==
    ASSUME PInv, PInv', RInv, NEW p \in Procs,
           \/ Plain(p) \/ StartCopy(p) \/ FinishCopy(p) \/ SendFile(p)
           \/ Attach(p) \/ Copy(p) \/ Release(p) \/ Detach(p)
    PROVE  RInv'
<1>0. /\ op[p] \in Op /\ op'[p] \in Op /\ op' \in [Procs -> Op] /\ PhaseOf(op[p])
      /\ None \notin Conns
  BY Typed, NoConnection DEF PInv, Copies, GoodOp, RInv, Phases
<1>1. up /\ up' = up
  BY DEF Plain, Arrive, Allow, LookUp, Reset, CreateSession, Authenticate, DeleteSession,
         StartCopy, FinishCopy, SendFile, Attach, Copy, Release, Detach, Apart, Outside
<1>2. CASE Plain(p)
  <2>1. Others(p) /\ Load(op'[p]) = Load(op[p]) /\ Moves(op[p], op'[p]) BY <1>2, PlainOnly
  <2>2. PhaseOf(op'[p]) BY <1>0, <2>1, PhaseOfPlain
  <2>3. ~Free(p) BY <2>1 DEF Moves, Free
  <2> QED BY <1>0, <1>1, <2>1, <2>2, <2>3, OneMoves
<1>3. ASSUME Others(p), ~Free(p), PhaseOf(op'[p]) PROVE RInv'
  BY <1>0, <1>1, <1>3, OneMoves
<1>4. CASE StartCopy(p)
  <2>1. /\ op[p].pc = "vacuum" /\ Others(p)
        /\ \/ Load(op'[p]) = Load(op[p]) /\ op'[p].pc = "done"
           \/ \E c \in Conns :
                 op'[p] = [op[p] EXCEPT !.pc = "copying", !.conn = c, !.content = Database]
    BY <1>4, StartCopyOnly
  <2>2. PhaseOf(op'[p])
    <3> HIDE DEF Others
    <3> QED BY <1>0, <2>1 DEF PhaseOf, Load, Op
  <2> QED BY <1>3, <2>1, <2>2 DEF Free
<1>5. CASE FinishCopy(p)
  <2>1. /\ op[p].pc = "copying" /\ Others(p)
        /\ op'[p] = [op[p] EXCEPT !.pc = "open", !.conn = None]
    BY <1>5, FinishCopyOnly
  <2>2. PhaseOf(op'[p]) BY <1>0, <2>1 DEF PhaseOf, Op
  <2> QED BY <1>3, <2>1, <2>2 DEF Free
<1>6. CASE SendFile(p)
  <2>1. /\ op[p].pc = "open" /\ Others(p)
        /\ \/ Load(op'[p]) = Load(op[p]) /\ op'[p].pc = "done"
           \/ op'[p] = [op[p] EXCEPT !.pc = "done", !.result = "ok", !.name = 0,
                                     !.token = None, !.sent = files[op[p].name].content]
    BY <1>6, SendFileOnly
  <2> DEFINE b == files[op[p].name].content
  <2>2. CASE Load(op'[p]) = Load(op[p]) /\ op'[p].pc = "done"
    <3>1. PhaseOf(op'[p]) BY <1>0, <2>1, <2>2 DEF PhaseOf, Load
    <3> QED BY <1>3, <2>1, <3>1 DEF Free
  <2>3. CASE op'[p] = [op[p] EXCEPT !.pc = "done", !.result = "ok", !.name = 0,
                                    !.token = None, !.sent = b]
    <3> HIDE DEF b
    <3>1. PhaseOf(op'[p]) BY <1>0, <2>1, <2>3 DEF PhaseOf, Op
    <3> QED BY <1>3, <2>1, <3>1 DEF Free
  <2> QED BY <2>1, <2>2, <2>3
<1>7. CASE Attach(p)
  <2>1. op[p].pc = "attach" /\ Others(p) BY <1>7, AttachOnly
  <2>2. CASE Load(op'[p]) = Load(op[p]) /\ op'[p].pc = "done"
    <3>1. PhaseOf(op'[p]) BY <1>0, <2>1, <2>2 DEF PhaseOf, Load
    <3> QED BY <1>3, <2>1, <3>1 DEF Free
  <2>3. ASSUME NEW c \in Conns, NEW refusal, op'[p] = Refused(op[p], c, refusal) PROVE RInv'
    <3>1. PhaseOf(op'[p]) BY <1>0, <2>1, <2>3, RefusedIs DEF PhaseOf
    <3> QED BY <1>3, <2>1, <3>1 DEF Free
  <2>4. ASSUME NEW c \in Conns, op'[p] = Ready(op[p], c) PROVE RInv'
    <3>1. PhaseOf(op'[p]) BY <1>0, <2>1, <2>4, ReadyIs DEF PhaseOf
    <3> QED BY <1>3, <2>1, <3>1 DEF Free
  <2> QED BY <1>7, <2>2, <2>3, <2>4, AttachOnly
<1>8. CASE Copy(p)
  <2>1. /\ op[p].pc = "copy" /\ Others(p)
        /\ \E refusal \in Refusals :
              op'[p] = [op[p] EXCEPT !.pc = "release", !.refusal = refusal]
    BY <1>8, CopyOnly
  <2>2. PhaseOf(op'[p]) BY <1>0, <2>1 DEF PhaseOf, Op
  <2> QED BY <1>3, <2>1, <2>2 DEF Free
<1>9. CASE Release(p)
  <2>1. /\ op[p].pc = "release" /\ Others(p)
        /\ op'[p] = [op[p] EXCEPT !.pc = "detach", !.conn = None]
    BY <1>9, ReleaseOnly
  <2>2. PhaseOf(op'[p]) BY <1>0, <2>1 DEF PhaseOf, Op
  <2> QED BY <1>3, <2>1, <2>2 DEF Free
<1>10. CASE Detach(p)
  <2>1. /\ op[p].pc = "detach" /\ Others(p)
        /\ Load(op'[p]) = Load(op[p]) /\ op'[p].pc = "done"
    BY <1>10, DetachOnly
  <2>2. PhaseOf(op'[p]) BY <1>0, <2>1 DEF PhaseOf, Load
  <2> QED BY <1>3, <2>1, <2>2 DEF Free
<1> QED BY <1>2, <1>4, <1>5, <1>6, <1>7, <1>8, <1>9, <1>10

LEMMA PhasesKept ==
    ASSUME PInv, PInv', RInv, [Next]_vars
    PROVE  RInv'
<1>0. op \in [Procs -> Op] /\ op' \in [Procs -> Op] /\ None \notin Conns
  BY Typed, NoConnection DEF PInv, Copies, GoodOp
<1>1. ASSUME NEW p \in Procs, RemoveFile(p) PROVE RInv'
  <2>1. /\ op[p].pc = "name" /\ up' = up /\ up
        /\ op'[p] = [op[p] EXCEPT !.pc = "vacuum", !.shared = op[p].shared \/ Rivals(p) # {}]
        /\ \A q \in Procs \ {p} : op'[q] = IF q \in Rivals(p) THEN [op[q] EXCEPT !.shared = TRUE]
                                        ELSE op[q]
    BY <1>1, RemoveFileOnly DEF RemoveFile, Apart, Outside
  <2> DEFINE b == op[p].shared \/ Rivals(p) # {}
  <2>2. ASSUME NEW q \in Procs
        PROVE  (Free(q)' <=> Free(q)) /\ PhaseOf(op'[q])
    <3>1. op[q] \in Op /\ PhaseOf(op[q]) BY <1>0 DEF RInv, Phases
    <3>2. CASE q = p
      <4> HIDE DEF b
      <4>1. op'[q] = [op[q] EXCEPT !.pc = "vacuum", !.shared = b] BY <2>1, <3>2 DEF b
      <4> QED BY <2>1, <3>1, <3>2, <4>1 DEF Op, Free, PhaseOf
    <3>3. CASE q # p /\ q \in Rivals(p)
      <4>1. op'[q] = [op[q] EXCEPT !.shared = TRUE] BY <2>1, <3>3
      <4> QED BY <3>1, <4>1 DEF Op, Free, PhaseOf
    <3>4. CASE q # p /\ q \notin Rivals(p)
      <4>1. op'[q] = op[q] BY <2>1, <3>4
      <4> QED BY <3>1, <4>1 DEF Free
    <3> QED BY <3>2, <3>3, <3>4
  <2>3. \A q \in Procs : (Free(q)' <=> Free(q)) /\ PhaseOf(op'[q])
    BY <2>2
  <2> HIDE DEF Free
  <2> QED BY <2>1, <2>3 DEF RInv, Phases, Turns
<1>2. ASSUME NEW p \in Procs, Begin(p) PROVE RInv'
  <2>1. /\ Free(p) /\ up' = up /\ up
        /\ Others(p)
        /\ op'[p].pc = IF op'[p].kind = "login" THEN "arrive" ELSE "auth"
        /\ op'[p].refusal = "none" /\ op'[p].conn = None
    BY <1>2, BeginOnly DEF Begin
  <2>2. \A q \in Procs \ {p} : PhaseOf(op'[q]) BY <2>1 DEF RInv, Phases, Others
  <2>3. PhaseOf(op'[p]) BY <1>0, <2>1 DEF PhaseOf
  <2> QED BY <2>1, <2>2, <2>3 DEF RInv, Phases, Turns
<1>3. ASSUME Gone PROVE RInv'
  <2>1. writer' = None /\ \A p \in Procs : op'[p] = NoOp BY <1>3 DEF Gone
  <2>2. PhaseOf(NoOp) BY NoConnection DEF PhaseOf, NoOp
  <2>3. NoOp.pc = "idle" BY DEF NoOp
  <2> QED BY <2>1, <2>2, <2>3 DEF RInv, Phases, Turns, Free
<1>4. ASSUME op' = op, UNCHANGED <<up, writer>> \/ up' PROVE RInv'
  BY <1>4 DEF RInv, Phases, Turns, Free
<1>5. CASE WriterTakes \/ WriterReturns \/ WritePolicies \/ Tick \/ Checkpoint
  BY <1>4, <1>5
  DEF WriterTakes, WriterReturns, WritePolicies, Tick, Checkpoint, Apart, Outside, pool
<1>6. CASE Start BY <1>4, <1>6 DEF Start
<1>7. CASE Stop \/ Kill BY <1>3, <1>7 DEF Stop, Kill
<1>8. CASE (\E e \in Emails : BootstrapAdmin(e)) \/ BackupCommand \/ BeginOffline
           \/ SaveOld \/ DropLog \/ Replace \/ OfflineFails
  BY <1>4, <1>8
     DEF BootstrapAdmin, BackupCommand, BeginOffline, SaveOld, DropLog, Replace, OfflineFails,
         Offline, pool
<1>9. CASE UNCHANGED vars BY <1>4, <1>9 DEF vars, pool
<1> QED
  BY <1>1, <1>2, <1>5, <1>6, <1>7, <1>8, <1>9, RequestPhases DEF Next, Plain

-----------------------------------------------------------------------------
(***************************************************************************)
(* The pool of connections.                                                *)
(***************************************************************************)
Distinct(s) == \A i, j \in DOMAIN s : s[i] = s[j] => i = j

(* The connection that is taken is in no other hands. *)
LEMMA Taken ==
    ASSUME Pool, NEW c \in Conns, Takes(c)
    PROVE  /\ Without(idle) \in Seq(Conns) /\ Distinct(Without(idle))
           /\ Range(Without(idle)) \subseteq Range(idle)
           /\ c \notin Range(Without(idle)) /\ c # writer
           /\ \A p \in Procs : op[p].conn # c
<1>1. CASE idle = <<>>
  <2>1. c \notin Range(idle) /\ c # writer /\ \A p \in Procs : op[p].conn # c
    BY <1>1 DEF Takes, Opened
  <2> QED BY <1>1, <2>1 DEF Without, Distinct, Pool
<1>2. CASE idle # <<>>
  <2>1. /\ idle \in Seq(Conns) /\ Len(idle) \in Nat \ {0} /\ DOMAIN idle = 1 .. Len(idle)
        /\ Distinct(idle)
    BY <1>2 DEF Pool, Distinct
  <2>2. c = idle[Len(idle)] BY <1>2 DEF Takes, Last
  <2> DEFINE f == Without(idle)
  <2>3. f = SubSeq(idle, 1, Len(idle) - 1) BY <1>2 DEF Without, Front
  <2>4. /\ f \in Seq(Conns) /\ DOMAIN f = 1 .. Len(idle) - 1
        /\ \A i \in DOMAIN f : f[i] = idle[i]
    BY <2>1, <2>3
  <2> HIDE DEF f
  <2>5. Distinct(f) BY <2>1, <2>4 DEF Distinct
  <2>6. Range(f) \subseteq Range(idle) BY <2>1, <2>4 DEF Range
  <2>7. c \notin Range(f) BY <2>1, <2>2, <2>4 DEF Range, Distinct
  <2>8. c \in Range(idle) BY <2>1, <2>2 DEF Range
  <2>9. c # writer /\ \A p \in Procs : op[p].conn # c BY <2>8, NoConnection DEF Pool
  <2> QED BY <2>4, <2>5, <2>6, <2>7, <2>9 DEF f
<1> QED BY <1>1, <1>2

LEMMA GivenBack ==
    ASSUME NEW s \in Seq(Conns), Distinct(s), NEW c \in Conns, c \notin Range(s)
    PROVE  /\ Append(s, c) \in Seq(Conns) /\ Distinct(Append(s, c))
           /\ Range(Append(s, c)) = Range(s) \cup {c}
           /\ Last(Append(s, c)) = c
<1> DEFINE t == Append(s, c)
<1>1. /\ Len(s) \in Nat /\ DOMAIN s = 1 .. Len(s) /\ DOMAIN t = 1 .. Len(s) + 1
      /\ t \in Seq(Conns) /\ Len(t) = Len(s) + 1
      /\ t[Len(s) + 1] = c /\ \A i \in DOMAIN s : t[i] = s[i]
  OBVIOUS
<1> HIDE DEF t
<1>2. \A i \in DOMAIN t : i \in DOMAIN s \/ i = Len(s) + 1 BY <1>1
<1>3. Distinct(t) BY <1>1, <1>2 DEF Distinct, Range
<1>4. Range(t) = Range(s) \cup {c} BY <1>1, <1>2 DEF Range
<1>5. Last(t) = c BY <1>1 DEF Last
<1> QED BY <1>1, <1>3, <1>4, <1>5 DEF t

(* The list, the background and the connections of the requests after a step. *)
LEMMA PoolOf ==
    ASSUME idle' \in Seq(Conns), Distinct(idle'), attached' \subseteq Conns,
           writer' \in (Conns \ Range(idle')) \cup {None},
           \A p \in Procs : op'[p].conn = writer' => writer' = None,
           \A p \in Procs : op'[p].conn \notin Range(idle'),
           \A p, q \in Procs : op'[p].conn = op'[q].conn => p = q \/ op'[p].conn = None
    PROVE  Pool'
BY DEF Pool, Distinct

LEMMA SamePool ==
    ASSUME Pool, UNCHANGED pool \/ Statement, \A p \in Procs : op'[p].conn = op[p].conn
    PROVE  Pool'
<1>1. CASE UNCHANGED pool BY <1>1 DEF Pool, pool
<1>2. CASE ~UNCHANGED pool
  <2>1. PICK c \in Conns :
          idle = <<>> /\ Takes(c) /\ idle' = <<c>> /\ UNCHANGED <<attached, writer>>
    BY <1>2 DEF Statement
  <2>2. c # writer /\ \A p \in Procs : op[p].conn # c BY <2>1, Taken
  <2>3. idle' \in Seq(Conns) /\ Distinct(idle') /\ Range(idle') = {c}
    BY <2>1 DEF Distinct, Range
  <2> QED BY <2>1, <2>2, <2>3, PoolOf DEF Pool
<1> QED BY <1>1, <1>2

(* A request takes a connection and keeps it, or gives its own back. *)
LEMMA TakesPool ==
    ASSUME Pool, NEW p \in Procs, NEW c \in Conns, TakesOff(c), UNCHANGED writer,
           attached' \subseteq attached \cup {c}, Others(p), op'[p].conn = c
    PROVE  Pool'
<1>1. /\ idle' \in Seq(Conns) /\ Distinct(idle') /\ Range(idle') \subseteq Range(idle)
      /\ c \notin Range(idle') /\ c # writer /\ \A q \in Procs : op[q].conn # c
  BY Taken DEF TakesOff
<1> QED BY <1>1, PoolOf DEF Pool, Others

LEMMA GivesPool ==
    ASSUME Pool, NEW p \in Procs, op[p].conn \in Conns, PutsBack(op[p].conn),
           UNCHANGED <<attached, writer>>, Others(p), op'[p].conn = None
    PROVE  Pool'
<1> DEFINE c == op[p].conn
<1>1. /\ idle \in Seq(Conns) /\ Distinct(idle) /\ c \notin Range(idle) /\ c # None
      /\ c # writer
  BY NoConnection DEF Pool, Distinct
<1>2. /\ idle' \in Seq(Conns) /\ Distinct(idle') /\ Range(idle') = Range(idle) \cup {c}
  BY <1>1, GivenBack DEF PutsBack
<1>3. \A q \in Procs \ {p} : op[q].conn # c BY <1>1 DEF Pool
<1>4. \A q \in Procs : op'[q].conn \notin Range(idle')
  <2>1. None \notin Range(idle') BY <1>2, NoConnection DEF Range
  <2> QED BY <1>2, <1>3, <2>1 DEF Pool, Others
<1>5. \A q \in Procs : op'[q].conn = writer' => writer' = None BY DEF Pool, Others
<1>6. writer' \in (Conns \ Range(idle')) \cup {None} BY <1>1, <1>2 DEF Pool
<1> QED BY <1>2, <1>3, <1>4, <1>5, <1>6, PoolOf DEF Pool, Others

LEMMA PoolKept ==
    ASSUME PInv, PInv', RInv, Pool, [Next]_vars
    PROVE  Pool'
<1>0. op \in [Procs -> Op] /\ op' \in [Procs -> Op] /\ None \notin Conns
  BY Typed, NoConnection DEF PInv, Copies, GoodOp
<1>1. ASSUME NEW p \in Procs, Plain(p) PROVE Pool'
  <2>1. UNCHANGED pool \/ Statement
    BY <1>1 DEF Plain, Arrive, Allow, LookUp, Reset, CreateSession, Authenticate, DeleteSession
  <2>2. \A q \in Procs : op'[q].conn = op[q].conn BY <1>1, PlainOnly DEF Others, Load
  <2> QED BY <2>1, <2>2, SamePool
<1>2. ASSUME NEW p \in Procs, StartCopy(p) PROVE Pool'
  <2>1. Others(p) BY <1>2, StartCopyOnly
  <2>2. CASE Load(op'[p]) = Load(op[p]) /\ Statement
    <3>1. \A q \in Procs : op'[q].conn = op[q].conn BY <2>1, <2>2 DEF Others, Load
    <3> QED BY <2>2, <3>1, SamePool
  <2>3. CASE ~(Load(op'[p]) = Load(op[p]) /\ Statement)
    <3>1. PICK c \in Conns :
            /\ TakesOff(c) /\ UNCHANGED <<attached, writer>>
            /\ op'[p] = [op[p] EXCEPT !.pc = "copying", !.conn = c, !.content = Database]
      BY <1>2, <2>3, StartCopyOnly
    <3>2. op'[p].conn = c BY <1>0, <3>1 DEF Op
    <3> QED BY <2>1, <3>1, <3>2, TakesPool
  <2> QED BY <2>2, <2>3
<1>3. ASSUME NEW p \in Procs, FinishCopy(p) \/ Release(p) PROVE Pool'
  <2>1. /\ op[p].pc \in {"copying", "release"} /\ Others(p)
        /\ \/ op'[p] = [op[p] EXCEPT !.pc = "open", !.conn = None]
           \/ op'[p] = [op[p] EXCEPT !.pc = "detach", !.conn = None]
        /\ PutsBack(op[p].conn) /\ UNCHANGED <<attached, writer>>
    BY <1>3, FinishCopyOnly, ReleaseOnly
  <2>2. op[p].conn \in Conns BY <2>1 DEF RInv, Phases, PhaseOf
  <2>3. op'[p].conn = None BY <1>0, <2>1 DEF Op
  <2> QED BY <2>1, <2>2, <2>3, GivesPool
<1>4. ASSUME NEW p \in Procs, SendFile(p) PROVE Pool'
  <2>1. Others(p) /\ UNCHANGED pool BY <1>4, SendFileOnly
  <2>2. op'[p].conn = op[p].conn
    <3> DEFINE b == files[op[p].name].content
    <3>1. \/ Load(op'[p]) = Load(op[p])
          \/ op'[p] = [op[p] EXCEPT !.pc = "done", !.result = "ok", !.name = 0,
                                    !.token = None, !.sent = b]
      BY <1>4, SendFileOnly
    <3> HIDE DEF b
    <3> QED BY <1>0, <3>1 DEF Load, Op
  <2>3. \A q \in Procs : op'[q].conn = op[q].conn BY <2>1, <2>2 DEF Others
  <2> QED BY <2>1, <2>3, SamePool
<1>5. ASSUME NEW p \in Procs, Attach(p) PROVE Pool'
  <2>1. Others(p) /\ op[p] \in Op BY <1>0, <1>5, AttachOnly
  <2>2. CASE Load(op'[p]) = Load(op[p]) /\ Statement
    <3>1. \A q \in Procs : op'[q].conn = op[q].conn BY <2>1, <2>2 DEF Others, Load
    <3> QED BY <2>2, <3>1, SamePool
  <2>3. CASE ~(Load(op'[p]) = Load(op[p]) /\ Statement)
    <3>1. PICK c \in Conns :
            /\ TakesOff(c) /\ UNCHANGED writer /\ attached' \subseteq attached \cup {c}
            /\ \/ \E refusal \in {"attached", "failed"} : op'[p] = Refused(op[p], c, refusal)
               \/ op'[p] = Ready(op[p], c)
      BY <1>5, <2>3, AttachOnly
    <3>2. op'[p].conn = c BY <2>1, <3>1, ReadyIs, RefusedIs
    <3> QED BY <2>1, <3>1, <3>2, TakesPool
  <2> QED BY <2>2, <2>3
<1>6. ASSUME NEW p \in Procs, Copy(p) PROVE Pool'
  <2>1. Others(p) /\ UNCHANGED pool BY <1>6, CopyOnly
  <2>2. PICK refusal \in Refusals :
          op'[p] = [op[p] EXCEPT !.pc = "release", !.refusal = refusal]
    BY <1>6, CopyOnly
  <2>3. op'[p].conn = op[p].conn BY <1>0, <2>2 DEF Op
  <2>4. \A q \in Procs : op'[q].conn = op[q].conn BY <2>1, <2>3 DEF Others
  <2> QED BY <2>1, <2>4, SamePool
<1>7. ASSUME NEW p \in Procs, Detach(p) PROVE Pool'
  <2>1. Others(p) /\ Load(op'[p]) = Load(op[p]) BY <1>7, DetachOnly
  <2>2. \A q \in Procs : op'[q].conn = op[q].conn BY <2>1 DEF Others, Load
  <2>3. CASE UNCHANGED <<idle, attached>>
    <3>1. UNCHANGED writer BY <1>7, DetachOnly
    <3> QED BY <2>2, <2>3, <3>1 DEF Pool
  <2>4. CASE ~UNCHANGED <<idle, attached>>
    <3>1. PICK c \in Conns : /\ Takes(c) /\ idle' = Append(Without(idle), c)
                             /\ attached' = attached \ {c} /\ UNCHANGED writer
      BY <1>7, <2>4, DetachOnly
    <3>2. /\ Without(idle) \in Seq(Conns) /\ Distinct(Without(idle))
          /\ Range(Without(idle)) \subseteq Range(idle) /\ c \notin Range(Without(idle))
          /\ c # writer /\ \A q \in Procs : op[q].conn # c
      BY <3>1, Taken
    <3>3. /\ idle' \in Seq(Conns) /\ Distinct(idle')
          /\ Range(idle') = Range(Without(idle)) \cup {c}
      BY <3>1, <3>2, GivenBack
    <3>4. \A q \in Procs : op'[q].conn \notin Range(idle') BY <2>2, <3>2, <3>3 DEF Pool
    <3>5. writer' \in (Conns \ Range(idle')) \cup {None} BY <3>1, <3>2, <3>3 DEF Pool
    <3> QED BY <2>2, <3>1, <3>3, <3>4, <3>5, PoolOf DEF Pool
  <2> QED BY <2>3, <2>4
<1>8. ASSUME NEW p \in Procs, RemoveFile(p) PROVE Pool'
  <2>1. UNCHANGED pool BY <1>8, RemoveFileOnly
  <2>2. ASSUME NEW q \in Procs PROVE op'[q].conn = op[q].conn
    <3> DEFINE b == op[p].shared \/ Rivals(p) # {}
    <3>1. \/ op'[q] = [op[q] EXCEPT !.pc = "vacuum", !.shared = b]
          \/ op'[q] = [op[q] EXCEPT !.shared = TRUE] \/ op'[q] = op[q]
      BY <1>8, RemoveFileOnly
    <3> HIDE DEF b
    <3>2. op[q] \in Op BY <1>0
    <3> QED BY <3>1, <3>2 DEF Op
  <2> QED BY <2>1, <2>2, SamePool
<1>9. ASSUME NEW p \in Procs, Begin(p) PROVE Pool'
  <2>1. UNCHANGED <<idle, attached, writer>> /\ op'[p].conn = None /\ Others(p)
    BY <1>9, BeginOnly DEF pool
  <2>2. None \notin Range(idle) BY NoConnection DEF Pool, Range
  <2> QED BY <2>1, <2>2, PoolOf DEF Pool, Others, Distinct
<1>10. ASSUME op' = op, UNCHANGED pool PROVE Pool' BY <1>10, SamePool
<1>11. CASE WritePolicies \/ Tick \/ Checkpoint
  BY <1>10, <1>11 DEF WritePolicies, Tick, Checkpoint, Apart, Outside
<1>16. CASE WriterTakes
  <2>1. PICK c \in Conns : TakesOff(c) /\ writer' = c /\ UNCHANGED <<attached, op>>
    BY <1>16 DEF WriterTakes
  <2>2. /\ idle' \in Seq(Conns) /\ Distinct(idle') /\ Range(idle') \subseteq Range(idle)
        /\ c \notin Range(idle') /\ \A q \in Procs : op[q].conn # c
    BY <2>1, Taken DEF TakesOff
  <2> QED BY <2>1, <2>2, PoolOf DEF Pool
<1>17. CASE WriterReturns
  <2>1. idle' = Append(idle, writer) /\ writer' = None /\ writer # None
        /\ UNCHANGED <<attached, op>>
    BY <1>17 DEF WriterReturns, PutsBack
  <2>2. idle \in Seq(Conns) /\ Distinct(idle) /\ writer \in Conns /\ writer \notin Range(idle)
    BY <2>1 DEF Pool, Distinct
  <2>3. /\ idle' \in Seq(Conns) /\ Distinct(idle') /\ Range(idle') = Range(idle) \cup {writer}
    BY <2>1, <2>2, GivenBack
  <2> QED BY <2>1, <2>3, PoolOf DEF Pool
<1>12. CASE Start
  <2>1. Enforcing \in Conns BY Assumed DEF Enforcing, Constants, NamesAssumption
  <2>2. idle' = <<Enforcing>> /\ UNCHANGED <<attached, writer>> /\ op' = op /\ ~up
    BY <1>12 DEF Start
  <2>3. writer' = None /\ \A p \in Procs : op'[p].conn = None
    BY <2>2 DEF RInv, Turns, NoOp
  <2>4. idle' \in Seq(Conns) /\ Distinct(idle') /\ Range(idle') = {Enforcing}
    BY <2>1, <2>2 DEF Distinct, Range
  <2> QED BY <1>0, <2>1, <2>2, <2>3, <2>4, PoolOf DEF Pool
<1>13. CASE Stop \/ Kill
  <2>1. Gone BY <1>13 DEF Stop, Kill
  <2>2. /\ idle' = <<>> /\ attached' = {} /\ writer' = None
        /\ \A p \in Procs : op'[p] = NoOp
    BY <2>1 DEF Gone
  <2>3. \A p \in Procs : op'[p].conn = None BY <2>2 DEF NoOp
  <2> QED BY <2>2, <2>3, PoolOf DEF Distinct, Range
<1>14. CASE (\E e \in Emails : BootstrapAdmin(e)) \/ BackupCommand \/ BeginOffline
            \/ SaveOld \/ DropLog \/ Replace \/ OfflineFails
  BY <1>10, <1>14
     DEF BootstrapAdmin, BackupCommand, BeginOffline, SaveOld, DropLog, Replace, OfflineFails, Offline
<1>15. CASE UNCHANGED vars BY <1>10, <1>15 DEF vars
<1> QED
  BY <1>1, <1>2, <1>3, <1>4, <1>5, <1>6, <1>7, <1>8, <1>9, <1>11, <1>12, <1>13, <1>14, <1>15,
     <1>16, <1>17
     DEF Next, Plain

-----------------------------------------------------------------------------
(***************************************************************************)
(* The files of downloads.                                                 *)
(***************************************************************************)
DownloadOwn(p) ==
    op[p].kind = "download" /\ op[p].pc = "done" /\ op[p].result = "ok" /\ ~op[p].shared
        => op[p].sent = op[p].content /\ op[p].sent # None

(* A request that shares its second with no other download has its file and *)
(* what it sent, whoever made the step.                                     *)
FileOf(p) ==
    /\ op[p].pc \in {"copying", "open"} /\ ~op[p].shared => OwnFile(p)
    /\ DownloadOwn(p)

LEMMA FInvIsFileOf == FInv <=> DOMAIN files \subseteq Nat /\ \A p \in Procs : FileOf(p)
BY DEF FInv, OwnFiles, DownloadIsOwnCopy, FileOf, DownloadOwn

LEMMA FilesOf ==
    ASSUME DOMAIN files' \subseteq Nat, \A p \in Procs : FileOf(p)'
    PROVE  FInv'
BY DEF FInv, OwnFiles, DownloadIsOwnCopy, FileOf, DownloadOwn

(* The same request and the same file of its. *)
LEMMA SameFile ==
    ASSUME NEW q \in Procs, FileOf(q),
           op'[q] = op[q],
           ~op[q].shared /\ op[q].pc \in {"copying", "open"} /\ op[q].name \in DOMAIN files
              /\ files[op[q].name].writer = q
              => op[q].name \in DOMAIN files' /\ files'[op[q].name] = files[op[q].name]
    PROVE  FileOf(q)'
BY DEF FileOf, OwnFile, DownloadOwn

LEMMA OthersFiles ==
    ASSUME FInv, NEW p \in Procs, Others(p), UNCHANGED files, FileOf(p)'
    PROVE  FInv'
<1>1. \A q \in Procs \ {p} : FileOf(q)' BY SameFile, FInvIsFileOf DEF Others
<1>2. DOMAIN files' \subseteq Nat BY FInvIsFileOf
<1> QED BY <1>1, <1>2, FilesOf

LEMMA PlainFiles ==
    ASSUME PInv, PInv', RInv, FInv, NEW p \in Procs, Plain(p)
    PROVE  FInv'
<1>1. /\ Others(p) /\ Load(op'[p]) = Load(op[p]) /\ Moves(op[p], op'[p]) BY PlainOnly
<1>2. op'[p].pc \notin {"copying", "open"} BY <1>1 DEF Moves, Entry
<1>3. ~(op'[p].kind = "download" /\ op'[p].result = "ok" /\ op'[p].pc = "done")
  <2>1. PhaseOf(op[p]) /\ op[p] \in Op BY Typed DEF RInv, Phases
  <2>2. CASE Authenticate(p)
    <3>1. CASE op'[p].pc = "done" /\ op[p].kind # "call"
      <4>1. End(p, "unavailable") \/ End(p, "refused")
        <5>1. CASE Set(p, [op[p] EXCEPT !.pc = Entry(op[p].kind), !.name = now])
          <6>1. op'[p] = [op[p] EXCEPT !.pc = Entry(op[p].kind), !.name = now] BY <5>1, SetOnly
          <6>2. op'[p].pc = Entry(op[p].kind) BY <2>1, <6>1 DEF Op
          <6> QED BY <3>1, <6>2 DEF Entry
        <5> QED BY <2>2, <3>1, <5>1 DEF Authenticate
      <4> QED BY <4>1, EndOnly
    <3> QED BY <1>1, <3>1 DEF Load
  <2>3. CASE ~Authenticate(p)
    <3>1. op[p].kind \in {"login", "logout"}
      BY <2>1, <2>3 DEF Plain, Arrive, Allow, LookUp, Reset, CreateSession, DeleteSession, PhaseOf
    <3> QED BY <1>1, <3>1 DEF Load
  <2> QED BY <2>2, <2>3
<1>4. UNCHANGED files
  BY DEF Plain, Arrive, Allow, LookUp, Reset, CreateSession, Authenticate, DeleteSession,
         storage, Commit
<1>5. FileOf(p)' BY <1>2, <1>3 DEF FileOf, DownloadOwn
<1> QED BY <1>1, <1>4, <1>5, OthersFiles

LEMMA DownloadFiles ==
    ASSUME PInv, PInv', RInv, FInv, NEW p \in Procs,
           StartCopy(p) \/ FinishCopy(p) \/ SendFile(p)
    PROVE  FInv'
<1>0. /\ op \in [Procs -> Op] /\ op[p] \in Op /\ FileOf(p) /\ DOMAIN files \subseteq Nat
      /\ \A q \in Procs : FileOf(q)
  BY Typed, FInvIsFileOf
<1>1. CASE StartCopy(p)
  <2>1. Others(p) BY <1>1, StartCopyOnly
  <2>2. CASE op'[p].pc = "done" /\ op'[p].result = "failed" /\ UNCHANGED files
    <3>1. FileOf(p)' BY <2>2 DEF FileOf, DownloadOwn
    <3> QED BY <2>1, <2>2, <3>1, OthersFiles
  <2>3. CASE ~(op'[p].pc = "done" /\ op'[p].result = "failed" /\ UNCHANGED files)
    <3> DEFINE n == op[p].name
    <3>1. PICK c \in Conns :
            op'[p] = [op[p] EXCEPT !.pc = "copying", !.conn = c, !.content = Database]
      BY <1>1, <2>3, StartCopyOnly
    <3>2. /\ n \notin DOMAIN files
          /\ files' = [x \in DOMAIN files \cup {n} |->
                         IF x = n THEN [writer |-> p, content |-> None] ELSE files[x]]
      BY <1>1, <2>3, StartCopyOnly
    <3>3. /\ op'[p].pc = "copying" /\ op'[p].content = Database /\ op'[p].name = n /\ n \in Nat
      <4> DEFINE b == Database
      <4> HIDE DEF b
      <4>1. op'[p] = [op[p] EXCEPT !.pc = "copying", !.conn = c, !.content = b] BY <3>1 DEF b
      <4>2. op'[p].pc = "copying" /\ op'[p].content = b /\ op'[p].name = n /\ n \in Nat
        BY <1>0, <4>1 DEF Op
      <4> QED BY <4>2 DEF b
    <3>4. Database # None BY DatabaseGood, NoneIsNoContent DEF PInv
    <3> HIDE DEF n, Database
    <3>5. n \in DOMAIN files' /\ files'[n].writer = p BY <3>2
    <3>6. FileOf(p)' BY <3>3, <3>4, <3>5 DEF FileOf, OwnFile, DownloadOwn
    <3>7. ASSUME NEW q \in Procs \ {p} PROVE FileOf(q)'
      <4>1. \A x \in DOMAIN files : x \in DOMAIN files' /\ files'[x] = files[x] BY <3>2
      <4>2. op'[q] = op[q] /\ FileOf(q) BY <1>0, <2>1 DEF Others
      <4> QED BY <4>1, <4>2, SameFile
    <3>8. DOMAIN files' \subseteq Nat BY <1>0, <3>2, <3>3
    <3> QED BY <3>6, <3>7, <3>8, FilesOf
  <2> QED BY <2>2, <2>3
<1>2. CASE FinishCopy(p)
  <2> DEFINE n == op[p].name
  <2>1. /\ op[p].pc = "copying" /\ Others(p)
        /\ op'[p] = [op[p] EXCEPT !.pc = "open", !.conn = None]
    BY <1>2, FinishCopyOnly
  <2>2. files' = [x \in DOMAIN files |->
                    IF x = n /\ files[x].writer = p THEN [files[x] EXCEPT !.content = op[p].content]
                                                    ELSE files[x]]
    BY <1>2 DEF FinishCopy, NameOf
  <2>3. /\ op'[p].pc = "open" /\ op'[p].content = op[p].content /\ op'[p].name = n
        /\ op'[p].shared = op[p].shared
    BY <1>0, <2>1 DEF Op
  <2>4. ASSUME ~op'[p].shared PROVE OwnFile(p)'
    <3>1. op[p].content # None /\ n \in DOMAIN files /\ files[n].writer = p
      BY <1>0, <2>1, <2>3, <2>4 DEF FileOf, OwnFile
    <3>2. files[n] \in File BY <3>1 DEF PInv, Copies, GoodFile
    <3>3. files'[n] = [files[n] EXCEPT !.content = op[p].content] /\ n \in DOMAIN files'
      BY <2>2, <3>1
    <3>4. files'[n].writer = p /\ files'[n].content = op[p].content BY <3>1, <3>2, <3>3 DEF File
    <3> QED BY <2>3, <3>1, <3>3, <3>4 DEF OwnFile
  <2>5. FileOf(p)' BY <2>3, <2>4 DEF FileOf, DownloadOwn
  <2>6. ASSUME NEW q \in Procs \ {p} PROVE FileOf(q)'
    <3>1. op'[q] = op[q] /\ FileOf(q) BY <1>0, <2>1 DEF Others
    <3>2. \A x \in DOMAIN files : /\ x \in DOMAIN files'
                                  /\ files[x].writer = q => files'[x] = files[x]
      BY <2>2
    <3> QED BY <3>1, <3>2, SameFile
  <2>7. DOMAIN files' \subseteq Nat BY <1>0, <2>2
  <2> QED BY <2>5, <2>6, <2>7, FilesOf
<1>3. CASE SendFile(p)
  <2> DEFINE b == files[op[p].name].content
  <2>1. op[p].pc = "open" /\ Others(p) /\ UNCHANGED files BY <1>3, SendFileOnly
  <2>2. CASE op'[p].pc = "done" /\ op'[p].result = "failed"
    <3>1. FileOf(p)' BY <2>2 DEF FileOf, DownloadOwn
    <3> QED BY <2>1, <3>1, OthersFiles
  <2>3. CASE op'[p] = [op[p] EXCEPT !.pc = "done", !.result = "ok", !.name = 0,
                                    !.token = None, !.sent = b]
    <3> HIDE DEF b
    <3>1. /\ op'[p].pc = "done" /\ op'[p].sent = b /\ op'[p].content = op[p].content
          /\ op'[p].shared = op[p].shared
      BY <1>0, <2>3 DEF Op
    <3>2. ~op[p].shared => b = op[p].content /\ op[p].content # None
      BY <1>0, <2>1 DEF FileOf, OwnFile, b
    <3>3. FileOf(p)' BY <3>1, <3>2 DEF FileOf, DownloadOwn
    <3> QED BY <2>1, <3>3, OthersFiles
  <2> QED BY <1>3, <2>2, <2>3, SendFileOnly
<1> QED BY <1>1, <1>2, <1>3

LEMMA RemoveFileFiles ==
    ASSUME PInv, PInv', RInv, FInv, NEW p \in Procs, RemoveFile(p)
    PROVE  FInv'
<1>0. /\ op \in [Procs -> Op] /\ DOMAIN files \subseteq Nat /\ \A q \in Procs : FileOf(q)
  BY Typed, FInvIsFileOf
<1>1. /\ files' = [x \in DOMAIN files \ {op[p].name} |-> files[x]]
      /\ op'[p] = [op[p] EXCEPT !.pc = "vacuum", !.shared = op[p].shared \/ Rivals(p) # {}]
      /\ \A q \in Procs \ {p} : op'[q] = IF q \in Rivals(p) THEN [op[q] EXCEPT !.shared = TRUE]
                                      ELSE op[q]
  BY RemoveFileOnly
<1>2. FileOf(p)'
  <2> DEFINE b == op[p].shared \/ Rivals(p) # {}
  <2>1. op'[p] = [op[p] EXCEPT !.pc = "vacuum", !.shared = b] BY <1>1
  <2> HIDE DEF b
  <2>2. op'[p].pc = "vacuum" BY <1>0, <2>1 DEF Op
  <2> QED BY <2>2 DEF FileOf, DownloadOwn
<1>3. ASSUME NEW q \in Procs \ {p}, q \in Rivals(p) PROVE FileOf(q)'
  <2>1. op'[q] = [op[q] EXCEPT !.shared = TRUE] BY <1>1, <1>3
  <2>2. op'[q].shared BY <1>0, <2>1 DEF Op
  <2> QED BY <2>2 DEF FileOf, DownloadOwn
<1>4. ASSUME NEW q \in Procs \ {p}, q \notin Rivals(p) PROVE FileOf(q)'
  <2>1. op'[q] = op[q] BY <1>1, <1>4
  <2>2. op[q].pc \in {"copying", "open"} => op[q].name # op[p].name
    BY <1>4 DEF Rivals, Downloading
  <2> QED BY <1>0, <1>1, <2>1, <2>2, SameFile
<1>5. DOMAIN files' \subseteq Nat BY <1>0, <1>1
<1> QED BY <1>2, <1>3, <1>4, <1>5, FilesOf

LEMMA FilesKept ==
    ASSUME PInv, PInv', RInv, FInv, [Next]_vars
    PROVE  FInv'
<1>0. /\ op \in [Procs -> Op] /\ DOMAIN files \subseteq Nat /\ \A q \in Procs : FileOf(q)
  BY Typed, FInvIsFileOf
<1>1. ASSUME NEW p \in Procs, Attach(p) \/ Copy(p) \/ Release(p) \/ Detach(p) PROVE FInv'
  <2>1. /\ Others(p) /\ op[p].pc \in {"attach", "copy", "release", "detach"}
        /\ op'[p].pc \in {"release", "copy", "detach", "done"} /\ op'[p].kind = op[p].kind
    <3>1. op[p] \in Op BY <1>0
    <3>2. CASE Attach(p)
      <4>1. \/ Load(op'[p]) = Load(op[p]) /\ op'[p].pc = "done"
            \/ \E c \in Conns, refusal \in {"attached", "failed"} :
                  op'[p] = Refused(op[p], c, refusal) \/ op'[p] = Ready(op[p], c)
        BY <3>2, AttachOnly
      <4>2. op'[p].pc \in {"release", "copy", "done"} /\ op'[p].kind = op[p].kind
        BY <3>1, <4>1, ReadyIs, RefusedIs DEF Load
      <4> QED BY <3>2, <4>2, AttachOnly
    <3>3. CASE Copy(p)
      <4>1. PICK refusal \in Refusals :
              op'[p] = [op[p] EXCEPT !.pc = "release", !.refusal = refusal]
        BY <3>3, CopyOnly
      <4>2. op'[p].pc = "release" /\ op'[p].kind = op[p].kind BY <3>1, <4>1 DEF Op
      <4> QED BY <3>3, <4>2, CopyOnly
    <3>4. CASE Release(p)
      <4>1. op'[p] = [op[p] EXCEPT !.pc = "detach", !.conn = None] BY <3>4, ReleaseOnly
      <4>2. op'[p].pc = "detach" /\ op'[p].kind = op[p].kind BY <3>1, <4>1 DEF Op
      <4> QED BY <3>4, <4>2, ReleaseOnly
    <3>5. CASE Detach(p) BY <3>5, DetachOnly DEF Load
    <3> QED BY <1>1, <3>2, <3>3, <3>4, <3>5
  <2>2. op[p].kind = "restore" BY <2>1 DEF RInv, Phases, PhaseOf
  <2>3. UNCHANGED files BY <1>1 DEF Attach, Copy, Release, Detach, storage, Commit
  <2>4. FileOf(p)' BY <2>1, <2>2 DEF FileOf, DownloadOwn
  <2> QED BY <2>1, <2>3, <2>4, OthersFiles
<1>2. ASSUME NEW p \in Procs, Begin(p) PROVE FInv'
  <2>1. /\ UNCHANGED files /\ op'[p].pc \in {"arrive", "auth"} /\ Others(p)
    BY <1>2, BeginOnly
  <2>2. FileOf(p)' BY <2>1 DEF FileOf, DownloadOwn
  <2> QED BY <2>1, <2>2, OthersFiles
<1>3. ASSUME op' = op, UNCHANGED files PROVE FInv'
  BY <1>3 DEF FInv, OwnFiles, OwnFile, DownloadIsOwnCopy
<1>4. CASE WriterTakes \/ WriterReturns \/ WritePolicies \/ Tick \/ Checkpoint \/ Start
  BY <1>3, <1>4
  DEF WriterTakes, WriterReturns, WritePolicies, Tick, Checkpoint, Start, Commit, storage
<1>5. CASE Stop \/ Kill
  <2>1. Gone BY <1>5 DEF Stop, Kill
  <2>2. UNCHANGED files /\ \A p \in Procs : op'[p] = NoOp BY <2>1 DEF Gone
  <2>3. \A p \in Procs : op'[p].pc = "idle" BY <2>2 DEF NoOp
  <2>4. \A p \in Procs : FileOf(p)' BY <2>3 DEF FileOf, DownloadOwn
  <2> QED BY <1>0, <2>2, <2>4, FilesOf
<1>6. CASE (\E e \in Emails : BootstrapAdmin(e)) \/ BackupCommand \/ BeginOffline
           \/ SaveOld \/ DropLog \/ Replace \/ OfflineFails
  BY <1>3, <1>6
     DEF BootstrapAdmin, BackupCommand, BeginOffline, SaveOld, DropLog, Replace, OfflineFails,
         Offline, storage
<1>7. CASE UNCHANGED vars BY <1>3, <1>7 DEF vars, storage
<1> QED
  BY <1>1, <1>2, <1>4, <1>5, <1>6, <1>7, PlainFiles, DownloadFiles, RemoveFileFiles
     DEF Next, Plain

-----------------------------------------------------------------------------
(***************************************************************************)
(* The connections with a backup attached, and the tokens given out.       *)
(***************************************************************************)
Acts(p) ==
    \/ Plain(p) \/ RemoveFile(p) \/ StartCopy(p) \/ FinishCopy(p) \/ SendFile(p)
    \/ Attach(p) \/ Copy(p) \/ Release(p) \/ Detach(p)

LEMMA ActsAreBusy == ASSUME PInv, NEW p \in Procs, Acts(p) PROVE ~Free(p)
BY DEF Acts, Plain, Arrive, Allow, LookUp, Reset, CreateSession, Authenticate, DeleteSession,
       RemoveFile, StartCopy, FinishCopy, SendFile, Attach, Copy, Release, Detach, Free

Holding == {"copy", "release", "detach"}

(* A step that moves no restore between ATTACH and DETACH. *)
SameRestores ==
    \A q \in Procs :
        \/ /\ op'[q].pc = op[q].pc /\ op'[q].conn = op[q].conn /\ op'[q].used = op[q].used
        \/ op[q].pc \notin Holding /\ op'[q].pc \notin Holding

(* None but a DETACH reads idle once released is reset. *)
StillAttached ==
    /\ UNCHANGED <<attached, stray>>
    /\ released' = None \/ UNCHANGED <<idle, released>>

LEMMA SameAttachments ==
    ASSUME Attachments, SameRestores, StillAttached
    PROVE  Attachments'
<1>1. None \notin Procs BY Assumed DEF Constants, NamesAssumption
<1>2. \A q \in Procs : UsedOf(q)'
  BY <1>1 DEF Attachments, UsedOf, SameRestores, StillAttached, Holding
<1>3. AttachedOnlyWhileRestoring'
  BY DEF Attachments, AttachedOnlyWhileRestoring, SameRestores, StillAttached, Holding
<1>4. released' \in Procs \cup {None} /\ stray' \subseteq attached'
  BY DEF Attachments, StillAttached
<1> QED BY <1>2, <1>3, <1>4 DEF Attachments

LEMMA PoolStill == ASSUME UNCHANGED pool \/ Statement PROVE StillAttached
BY DEF pool, Statement, StillAttached

(* One request moves, and neither before nor after it holds a connection of a restore. *)
LEMMA OthersAttached ==
    ASSUME Attachments, NEW p \in Procs, Others(p), StillAttached,
           op[p].pc \notin Holding, op'[p].pc \notin Holding
    PROVE  Attachments'
<1>1. SameRestores BY DEF SameRestores, Others
<1> QED BY <1>1, SameAttachments

(* RestoreFromBackup from its ATTACH to its DETACH. *)
LEMMA RestoreKeepsAttachments ==
    ASSUME PInv, Pool, RInv, Attachments, NEW p \in Procs,
           Attach(p) \/ Copy(p) \/ Release(p) \/ Detach(p)
    PROVE  Attachments'
<1>0. op[p] \in Op /\ None \notin Procs /\ Attachments /\ \A q \in Procs : UsedOf(q)
  BY Typed, Assumed DEF Constants, NamesAssumption, Attachments
<1>1. ASSUME Others(p), UsedOf(p)', released' \in {None, p} \/ UNCHANGED <<idle, released>>,
             stray' \subseteq attached',
             \A c \in attached' : \/ c \in stray'
                                  \/ op'[p].pc \in Holding /\ op'[p].used = c
                                  \/ \E q \in Procs \ {p} : op[q].pc \in Holding /\ op[q].used = c
      PROVE  Attachments'
  <2>1. \A q \in Procs \ {p} : UsedOf(q)' BY <1>0, <1>1 DEF UsedOf, Others
  <2>2. AttachedOnlyWhileRestoring'
    BY <1>1 DEF AttachedOnlyWhileRestoring, Others, Holding
  <2>3. released' \in Procs \cup {None} BY <1>1 DEF Attachments
  <2> QED BY <1>1, <2>1, <2>2, <2>3 DEF Attachments
<1>2. \A c \in attached : \/ c \in stray
                          \/ op[p].pc \in Holding /\ op[p].used = c
                          \/ \E q \in Procs \ {p} : op[q].pc \in Holding /\ op[q].used = c
  <2> SUFFICES ASSUME NEW c \in attached
               PROVE  \/ c \in stray
                      \/ op[p].pc \in Holding /\ op[p].used = c
                      \/ \E q \in Procs \ {p} : op[q].pc \in Holding /\ op[q].used = c
    OBVIOUS
  <2>1. c \in stray \/ \E q \in Procs : op[q].pc \in Holding /\ op[q].used = c
    BY DEF Attachments, AttachedOnlyWhileRestoring, Holding
  <2> QED BY <2>1
<1>3. CASE Attach(p)
  <2>1. op[p].pc = "attach" /\ Others(p) BY <1>3, AttachOnly
  <2>2. CASE op'[p].pc = "done" /\ Statement
    BY <2>1, <2>2, PoolStill, OthersAttached DEF Holding
  <2>3. ASSUME NEW c \in Conns, TakesOff(c), UNCHANGED stray,
               \/ UNCHANGED attached /\ \E refusal \in {"attached", "failed"} :
                                            op'[p] = Refused(op[p], c, refusal)
               \/ op'[p] = Ready(op[p], c) /\ attached' = attached \cup {c}
        PROVE  Attachments'
    <3>1. op'[p].pc \in {"copy", "release"} /\ op'[p].conn = c /\ op'[p].used = c
      BY <1>0, <2>3, ReadyIs, RefusedIs
    <3>2. UsedOf(p)' /\ released' = None BY <2>3, <3>1 DEF UsedOf, TakesOff
    <3>3. stray' \subseteq attached' BY <2>3 DEF Attachments
    <3>4. \A d \in attached' : d \in attached \/ d = c BY <2>3
    <3>5. op[p].pc \notin Holding BY <2>1 DEF Holding
    <3> QED BY <1>1, <1>2, <2>1, <2>3, <3>1, <3>2, <3>3, <3>4, <3>5 DEF Holding
  <2> QED BY <1>3, <2>2, <2>3, AttachOnly
<1>4. CASE Copy(p)
  <2>1. op[p].pc = "copy" /\ Others(p) /\ UNCHANGED <<idle, attached, released, stray>>
    BY <1>4, CopyOnly DEF pool
  <2>2. PICK refusal \in Refusals :
          op'[p] = [op[p] EXCEPT !.pc = "release", !.refusal = refusal]
    BY <1>4, CopyOnly
  <2>3. op'[p].pc = "release" /\ op'[p].conn = op[p].conn /\ op'[p].used = op[p].used
    BY <1>0, <2>2 DEF Op
  <2>4. UsedOf(p)' BY <1>0, <2>1, <2>3 DEF UsedOf
  <2>5. stray' \subseteq attached' BY <2>1 DEF Attachments
  <2> QED BY <1>1, <1>2, <2>1, <2>3, <2>4, <2>5 DEF Holding
<1>5. CASE Release(p)
  <2>1. /\ op[p].pc = "release" /\ Others(p) /\ UNCHANGED <<attached, stray>>
        /\ op'[p] = [op[p] EXCEPT !.pc = "detach", !.conn = None]
        /\ idle' = Append(idle, op[p].conn) /\ released' = p
    BY <1>5, ReleaseOnly DEF PutsBack
  <2>2. op'[p].pc = "detach" /\ op'[p].used = op[p].used BY <1>0, <2>1 DEF Op
  <2>3. op[p].conn = op[p].used /\ op[p].conn \in Conns
    BY <1>0, <2>1 DEF UsedOf, RInv, Phases, PhaseOf
  <2>4. Last(idle') = op[p].used /\ idle' # <<>>
    <3>1. idle \in Seq(Conns) /\ Distinct(idle) /\ op[p].conn \notin Range(idle)
      BY DEF Pool, Distinct
    <3> QED BY <2>1, <2>3, <3>1, GivenBack
  <2>5. UsedOf(p)' BY <2>2, <2>4 DEF UsedOf
  <2>6. stray' \subseteq attached' BY <2>1 DEF Attachments
  <2> QED BY <1>1, <1>2, <2>1, <2>2, <2>5, <2>6 DEF Holding
<1>6. CASE Detach(p)
  <2>1. op[p].pc = "detach" /\ Others(p) /\ op'[p].pc = "done" BY <1>6, DetachOnly
  <2>2. UsedOf(p)' BY <2>1 DEF UsedOf
  <2>3. CASE /\ UNCHANGED <<idle, attached, released>>
             /\ stray' = stray \cup ({op[p].used} \cap attached)
    <3>1. stray' \subseteq attached' BY <2>3 DEF Attachments
    <3>2. \A c \in attached' : \/ c \in stray'
                               \/ \E q \in Procs \ {p} : op[q].pc \in Holding /\ op[q].used = c
      BY <1>2, <2>3
    <3> QED BY <1>1, <2>1, <2>2, <2>3, <3>1, <3>2
  <2>4. ASSUME NEW c \in Conns, Takes(c), released' = None, attached' = attached \ {c},
               stray' = (IF released = p THEN stray
                         ELSE stray \cup ({op[p].used} \cap attached)) \ {c}
        PROVE  Attachments'
    <3>1. released = p => c = op[p].used BY <1>0, <2>1, <2>4 DEF UsedOf, Takes
    <3>2. stray' \subseteq attached' BY <2>4 DEF Attachments
    <3>3. \A d \in attached' : \/ d \in stray'
                               \/ \E q \in Procs \ {p} : op[q].pc \in Holding /\ op[q].used = d
      BY <1>2, <2>4, <3>1
    <3> QED BY <1>1, <2>1, <2>2, <2>4, <3>2, <3>3
  <2> QED BY <1>6, <2>3, <2>4, DetachOnly
<1> QED BY <1>3, <1>4, <1>5, <1>6

LEMMA AttachmentsKept ==
    ASSUME PInv, RInv, Pool, Attachments, [Next]_vars
    PROVE  Attachments'
<1>0. op \in [Procs -> Op] BY Typed
<1>1. ASSUME NEW p \in Procs, Plain(p) PROVE Attachments'
  <2>1. Others(p) /\ op[p].pc \notin Holding /\ op'[p].pc \notin Holding
    BY <1>1, PlainOnly DEF Moves, Holding, Entry
  <2>2. UNCHANGED pool \/ Statement
    BY <1>1 DEF Plain, Arrive, Allow, LookUp, Reset, CreateSession, Authenticate, DeleteSession
  <2> QED BY <2>1, <2>2, PoolStill, OthersAttached
<1>2. ASSUME NEW p \in Procs, StartCopy(p) PROVE Attachments'
  <2>1. op[p].pc = "vacuum" /\ Others(p) BY <1>2, StartCopyOnly
  <2>2. CASE op'[p].pc = "done" /\ Statement
    BY <2>1, <2>2, PoolStill, OthersAttached DEF Holding
  <2>3. CASE ~(op'[p].pc = "done" /\ Statement)
    <3> DEFINE b == Database
    <3>1. PICK c \in Conns :
            /\ TakesOff(c) /\ UNCHANGED <<attached, stray>>
            /\ op'[p] = [op[p] EXCEPT !.pc = "copying", !.conn = c, !.content = b]
      BY <1>2, <2>3, StartCopyOnly
    <3> HIDE DEF b
    <3>2. op'[p].pc = "copying" BY <1>0, <3>1 DEF Op
    <3>3. StillAttached BY <3>1 DEF StillAttached, TakesOff
    <3> QED BY <2>1, <3>2, <3>3, OthersAttached DEF Holding
  <2> QED BY <2>2, <2>3
<1>3. ASSUME NEW p \in Procs, FinishCopy(p) PROVE Attachments'
  <2>1. /\ op[p].pc = "copying" /\ Others(p)
        /\ op'[p] = [op[p] EXCEPT !.pc = "open", !.conn = None] /\ StillAttached
    BY <1>3, FinishCopyOnly DEF StillAttached
  <2>2. op'[p].pc = "open" BY <1>0, <2>1 DEF Op
  <2> QED BY <2>1, <2>2, OthersAttached DEF Holding
<1>4. ASSUME NEW p \in Procs, SendFile(p) PROVE Attachments'
  <2>1. op[p].pc = "open" /\ Others(p) /\ UNCHANGED pool BY <1>4, SendFileOnly
  <2>2. op'[p].pc \notin Holding
    <3> DEFINE b == files[op[p].name].content
    <3>1. \/ op'[p].pc = "done"
          \/ op'[p] = [op[p] EXCEPT !.pc = "done", !.result = "ok", !.name = 0,
                                    !.token = None, !.sent = b]
      BY <1>4, SendFileOnly
    <3> HIDE DEF b
    <3> QED BY <1>0, <3>1 DEF Op, Holding
  <2> QED BY <2>1, <2>2, PoolStill, OthersAttached DEF Holding
<1>5. ASSUME NEW p \in Procs, RemoveFile(p) PROVE Attachments'
  <2> DEFINE b == op[p].shared \/ Rivals(p) # {}
  <2>1. /\ op[p].pc = "name" /\ UNCHANGED pool
        /\ \A q \in Procs : \/ q = p /\ op'[q] = [op[q] EXCEPT !.pc = "vacuum", !.shared = b]
                            \/ op'[q] = [op[q] EXCEPT !.shared = TRUE] \/ op'[q] = op[q]
    BY <1>5, RemoveFileOnly
  <2> HIDE DEF b
  <2>2. ASSUME NEW q \in Procs
        PROVE  \/ /\ op'[q].pc = op[q].pc /\ op'[q].conn = op[q].conn /\ op'[q].used = op[q].used
               \/ op[q].pc \notin Holding /\ op'[q].pc \notin Holding
    <3>1. op[q] \in Op BY <1>0
    <3> QED BY <2>1, <3>1 DEF Op, Holding
  <2>3. SameRestores BY <2>2 DEF SameRestores
  <2> QED BY <2>1, <2>3, PoolStill, SameAttachments
<1>6. ASSUME NEW p \in Procs, Begin(p) PROVE Attachments'
  <2>1. /\ Free(p) /\ UNCHANGED pool /\ Others(p) /\ op'[p].pc \in {"arrive", "auth"}
    BY <1>6, BeginOnly
  <2> QED BY <2>1, PoolStill, OthersAttached DEF Free, Holding
<1>7. ASSUME op' = op, StillAttached PROVE Attachments'
  <2>1. SameRestores BY <1>7 DEF SameRestores
  <2> QED BY <1>7, <2>1, SameAttachments
<1>8. CASE WriterTakes \/ WriterReturns
  <2>1. op' = op /\ StillAttached
    BY <1>8 DEF WriterTakes, WriterReturns, StillAttached, TakesOff
  <2> QED BY <1>7, <2>1
<1>9. CASE WritePolicies \/ Tick \/ Checkpoint
  BY <1>7, <1>9, PoolStill DEF WritePolicies, Tick, Checkpoint, Apart, Outside
<1>10. CASE Start
  <2>1. /\ op' = op /\ \A p \in Procs : op[p].pc = "idle"
        /\ UNCHANGED <<attached, released, stray>>
    BY <1>10 DEF Start, RInv, Turns, NoOp
  <2> QED BY <2>1 DEF Attachments, AttachedOnlyWhileRestoring, UsedOf
<1>11. CASE Stop \/ Kill
  <2>1. Gone BY <1>11 DEF Stop, Kill
  <2>2. /\ attached' = {} /\ released' = None /\ stray' = {}
        /\ \A p \in Procs : op'[p].pc = "idle"
    BY <2>1 DEF Gone, NoOp
  <2> QED BY <2>2 DEF Attachments, AttachedOnlyWhileRestoring, UsedOf
<1>12. CASE (\E e \in Emails : BootstrapAdmin(e)) \/ BackupCommand \/ BeginOffline
            \/ SaveOld \/ DropLog \/ Replace \/ OfflineFails
  BY <1>7, <1>12, PoolStill
     DEF BootstrapAdmin, BackupCommand, BeginOffline, SaveOld, DropLog, Replace, OfflineFails, Offline
<1>13. CASE UNCHANGED vars BY <1>7, <1>13, PoolStill DEF vars
<1> QED
  BY <1>1, <1>2, <1>3, <1>4, <1>5, <1>6, <1>8, <1>9, <1>10, <1>11, <1>12, <1>13,
     RestoreKeepsAttachments DEF Next, Plain

(* A token is given out once, and only such a token is held. *)
LEMMA IssuedKept ==
    ASSUME PInv, Issued, [Next]_vars
    PROVE  Issued'
<1>1. ASSUME NEW p \in Procs, CreateSession(p) PROVE Issued'
  BY <1>1 DEF CreateSession, Issued, logins
<1>2. ASSUME NEW p \in Procs, DeleteSession(p) \/ Copy(p) PROVE Issued'
  BY <1>2 DEF DeleteSession, Copy, Issued, logins
<1>3. ASSUME UNCHANGED <<issued, logins>> PROVE Issued' BY <1>3 DEF Issued, logins
<1>4. ASSUME NEW p \in Procs,
             \/ Arrive(p) \/ Allow(p) \/ LookUp(p) \/ Reset(p) \/ Authenticate(p) \/ RemoveFile(p)
             \/ StartCopy(p) \/ FinishCopy(p) \/ SendFile(p) \/ Attach(p) \/ Release(p) \/ Detach(p)
             \/ Begin(p)
      PROVE Issued'
  BY <1>3, <1>4 DEF Arrive, Allow, LookUp, Reset, Authenticate, RemoveFile, StartCopy,
                    FinishCopy, SendFile, Attach, Release, Detach, Begin, Apart
<1>5. CASE WriterTakes \/ WriterReturns \/ WritePolicies \/ Tick \/ Checkpoint \/ Start
  BY <1>3, <1>5
  DEF WriterTakes, WriterReturns, WritePolicies, Tick, Checkpoint, Start, Apart
<1>6. CASE Stop \/ Kill BY <1>3, <1>6 DEF Stop, Kill, Gone
<1>7. CASE (\E e \in Emails : BootstrapAdmin(e)) \/ BackupCommand \/ BeginOffline \/ SaveOld
           \/ OfflineFails
  BY <1>3, <1>7 DEF BootstrapAdmin, BackupCommand, BeginOffline, SaveOld, OfflineFails, Offline
<1>8. CASE DropLog \/ Replace BY <1>8 DEF DropLog, Replace, Offline, Issued
<1>9. CASE UNCHANGED vars BY <1>3, <1>9 DEF vars
<1> QED BY <1>1, <1>2, <1>4, <1>5, <1>6, <1>7, <1>8, <1>9 DEF Next

-----------------------------------------------------------------------------
(***************************************************************************)
(* LoginRateLimiter.                                                       *)
(***************************************************************************)
LEMMA FewStamps ==
    ASSUME NEW stamps \in Seq(Nat), NEW S \in SUBSET DOMAIN stamps
    PROVE  IsFiniteSet(S) /\ Cardinality(S) \in Nat
<1>1. DOMAIN stamps = 1 .. Len(stamps) /\ Len(stamps) \in Nat OBVIOUS
<1>2. IsFiniteSet(DOMAIN stamps) BY <1>1, FS_Interval
<1> QED BY <1>2, FS_Subset, FS_CardinalityType

LEMMA Fresh == Limited({}, <<>>, FALSE)
<1>1. 0 \in 0 .. MaxTime BY Assumed DEF Constants, EnvironmentAssumption
<1>2. KeptSince({}, <<>>, 0) BY DEF KeptSince
<1>3. ASSUME NEW end \in 0 .. MaxTime PROVE Cardinality(InWindow(<<>>, end)) <= Burst
  <2>1. InWindow(<<>>, end) = {} BY DEF InWindow
  <2>2. Cardinality({}) = 0 BY FS_EmptySet
  <2>3. Burst \in Nat BY Assumed DEF Constants, LimiterAssumption
  <2>4. 0 <= Burst BY <2>3
  <2> QED BY <2>1, <2>2, <2>4, Zenon
<1>4. <<>> \in Seq(Nat) OBVIOUS
<1> QED BY <1>1, <1>2, <1>3, <1>4, Zenon DEF Limited

(* An attempt that is refused: those of its window are all still there. *)
LEMMA LimitedRefused ==
    ASSUME NEW kept, NEW stamps, NEW late, Limited(kept, stamps, late),
           NEW stamp \in 0 .. MaxTime,
           NEW filtered, filtered = {i \in kept : stamps[i] > stamp - Window},
           Cardinality(filtered) >= Burst
    PROVE  Limited(filtered, stamps, late)
<1>0. Window \in Nat /\ stamps \in Seq(Nat) /\ MaxTime \in Nat
  BY Assumed DEF Constants, LimiterAssumption, EnvironmentAssumption, Limited
<1>1. ASSUME ~late PROVE \E cut \in 0 .. MaxTime : KeptSince(filtered, stamps, cut)
  <2>1. PICK cut \in 0 .. MaxTime : KeptSince(kept, stamps, cut) BY <1>1 DEF Limited
  <2>2. \A i \in DOMAIN stamps : stamps[i] \in Nat BY <1>0
  <2>3. CASE stamp <= cut
    <3>1. filtered = kept BY <1>0, <2>1, <2>2, <2>3 DEF KeptSince
    <3> QED BY <2>1, <3>1
  <2>4. CASE stamp > cut
    <3>1. filtered = {i \in DOMAIN stamps : stamps[i] > stamp - Window}
      BY <1>0, <2>1, <2>2, <2>4 DEF KeptSince
    <3> QED BY <3>1 DEF KeptSince
  <2>5. stamp <= cut \/ stamp > cut BY <1>0
  <2> QED BY <2>3, <2>4, <2>5
<1>2. filtered \subseteq DOMAIN stamps BY DEF Limited
<1>3. ~late => \A end \in 0 .. MaxTime : Cardinality(InWindow(stamps, end)) <= Burst
  BY DEF Limited
<1> HIDE DEF KeptSince, InWindow
<1>4. stamps \in Seq(Nat) BY <1>0
<1> QED BY <1>1, <1>2, <1>3, <1>4, Zenon DEF Limited

(* An attempt that is let through, no stamp of an earlier one being later: *)
(* the limiter counted every attempt of the window that it ends.           *)
LEMMA LimitedAdmitted ==
    ASSUME NEW kept, NEW stamps, NEW late, Limited(kept, stamps, late),
           NEW stamp \in 0 .. MaxTime,
           NEW filtered, filtered = {i \in kept : stamps[i] > stamp - Window},
           Cardinality(filtered) < Burst,
           NEW after, after = (late \/ \E i \in DOMAIN stamps : stamps[i] > stamp)
    PROVE  Limited(filtered \cup {Len(stamps) + 1}, Append(stamps, stamp), after)
<1> DEFINE m == Len(stamps) + 1
           A == Append(stamps, stamp)
           K == filtered \cup {m}
<1>0. /\ Window \in Nat \ {0} /\ Burst \in Nat \ {0} /\ MaxTime \in Nat
      /\ stamps \in Seq(Nat) /\ kept \subseteq DOMAIN stamps
  BY Assumed DEF Constants, LimiterAssumption, EnvironmentAssumption, Limited
<1>1. /\ A \in Seq(Nat) /\ DOMAIN stamps = 1 .. m - 1 /\ DOMAIN A = 1 .. m /\ m \in Nat \ {0}
      /\ A[m] = stamp /\ \A i \in DOMAIN stamps : A[i] = stamps[i] /\ stamps[i] \in Nat
  BY <1>0
<1> HIDE DEF A, m
<1>2. K \subseteq DOMAIN A BY <1>0, <1>1
<1>3. ASSUME ~after
      PROVE  /\ K = {i \in DOMAIN A : A[i] > stamp - Window} /\ Cardinality(K) <= Burst
             /\ \A i \in DOMAIN stamps : stamps[i] <= stamp
  <2>0. ~late /\ ~\E i \in DOMAIN stamps : stamps[i] > stamp BY <1>3, Zenon
  <2>1. ~late /\ \A i \in DOMAIN stamps : stamps[i] <= stamp BY <1>1, <2>0
  <2>2. PICK cut \in 0 .. MaxTime : KeptSince(kept, stamps, cut) BY <2>1 DEF Limited
  <2>3. stamps # <<>> => cut <= stamp
    <3> SUFFICES ASSUME stamps # <<>>, stamp < cut PROVE FALSE BY <1>0
    <3>1. ~\E i \in DOMAIN stamps : cut <= stamps[i] BY <1>0, <1>1, <2>1
    <3>2. Cardinality(kept) >= Burst BY <2>2, <3>1 DEF KeptSince
    <3>3. filtered = kept BY <1>0, <1>1, <2>2 DEF KeptSince
    <3>4. Cardinality(kept) \in Nat BY <1>0, FewStamps
    <3>5. Cardinality(kept) < Burst BY <3>3
    <3> QED BY <1>0, <3>2, <3>4, <3>5
  <2>4. filtered = {i \in DOMAIN stamps : stamps[i] > stamp - Window}
    <3>1. CASE stamps = <<>> BY <1>0, <3>1
    <3>2. CASE stamps # <<>> BY <1>0, <1>1, <2>2, <2>3, <3>2 DEF KeptSince
    <3> QED BY <3>1, <3>2
  <2>5. K = {i \in DOMAIN A : A[i] > stamp - Window} BY <1>0, <1>1, <2>4
  <2>6. IsFiniteSet(filtered) /\ Cardinality(filtered) \in Nat BY <1>0, FewStamps
  <2>7. m \notin filtered BY <1>0, <1>1
  <2>8. Cardinality(K) = Cardinality(filtered) + 1 BY <2>6, <2>7, FS_AddElement
  <2> QED BY <1>0, <2>1, <2>5, <2>6, <2>8
<1>4. ASSUME ~after PROVE KeptSince(K, A, stamp)
  <2>1. m \in DOMAIN A /\ stamp <= A[m] BY <1>1
  <2> QED BY <1>3, <1>4, <2>1 DEF KeptSince
<1>5. ASSUME ~after, NEW end \in 0 .. MaxTime PROVE Cardinality(InWindow(A, end)) <= Burst
  <2>1. CASE end < stamp
    <3>1. InWindow(A, end) = InWindow(stamps, end) BY <1>0, <1>1, <2>1 DEF InWindow
    <3>2. ~late BY <1>5
    <3> QED BY <3>1, <3>2 DEF Limited
  <2>2. CASE stamp <= end
    <3>1. InWindow(A, end) \subseteq K BY <1>0, <1>1, <1>3, <1>5, <2>2 DEF InWindow
    <3>2. IsFiniteSet(K) /\ Cardinality(K) \in Nat BY <1>1, <1>2, FewStamps
    <3>3. Cardinality(InWindow(A, end)) \in Nat /\ Cardinality(InWindow(A, end)) <= Cardinality(K)
      BY <3>1, <3>2, FS_Subset, FS_CardinalityType
    <3> QED BY <1>0, <1>3, <1>5, <3>2, <3>3
  <2> QED BY <1>0, <2>1, <2>2
<1>6. Limited(K, A, after) BY <1>1, <1>2, <1>4, <1>5 DEF Limited
<1> QED BY <1>6 DEF A, m

(* The limiter after an attempt, after a reset and after anything else. *)
LEMMA SameLimiter ==
    ASSUME Limiter, UNCHANGED limiter,
           \A p \in Procs : op'[p].kind = "login" /\ op'[p].pc \notin {"idle", "done"}
                              => op'[p].address \in Addresses
    PROVE  Limiter'
BY DEF Limiter, limiter, Free

LEMMA LoginAddress ==
    ASSUME Limiter, NEW p \in Procs, Others(p), op'[p].kind = op[p].kind, ~Free(p),
           op'[p].pc = "done" \/ op'[p].address = op[p].address
    PROVE  \A q \in Procs : op'[q].kind = "login" /\ op'[q].pc \notin {"idle", "done"}
                               => op'[q].address \in Addresses
BY DEF Limiter, Others, Free

LEMMA AllowKept ==
    ASSUME PInv, RInv, Limiter, NEW p \in Procs, Allow(p)
    PROVE  Limiter'
<1> DEFINE a == op[p].address
           stamp == op[p].stamp
           filtered == Recent(a, stamp)
<1>0. /\ op[p] \in Op /\ op[p].pc = "allow" /\ ~Free(p) /\ stamp \in 0 .. MaxTime
      /\ op[p].kind = "login" /\ MaxTime \in Nat
  BY Typed, Assumed DEF Allow, Free, Op, RInv, Phases, PhaseOf, Constants, EnvironmentAssumption
<1>1. /\ a \in Addresses /\ Limited(attempt[a], admitted[a], overtaken[a])
      /\ admitted \in [Addresses -> Seq(Nat)] /\ attempt \in [Addresses -> SUBSET Nat]
      /\ overtaken \in [Addresses -> BOOLEAN]
      /\ \A b \in Addresses : Limited(attempt[b], admitted[b], overtaken[b])
  BY <1>0 DEF Limiter
<1>2. filtered = {i \in attempt[a] : admitted[a][i] > stamp - Window} BY DEF Recent
<1>3. \A q \in Procs : op'[q].kind = "login" /\ op'[q].pc \notin {"idle", "done"}
                         => op'[q].address \in Addresses
  <2>1. Others(p) /\ Load(op'[p]) = Load(op[p])
        /\ (op'[p].pc = "done" \/ op'[p].address = op[p].address)
    BY PlainOnly DEF Plain
  <2> QED BY <1>0, <2>1, LoginAddress DEF Load
<1>4. CASE /\ Cardinality(filtered) >= Burst
           /\ attempt' = [attempt EXCEPT ![a] = filtered]
           /\ UNCHANGED <<admitted, overtaken>>
  <2> HIDE DEF filtered, a, stamp
  <2>1. Limited(filtered, admitted[a], overtaken[a]) BY <1>0, <1>1, <1>2, <1>4, LimitedRefused
  <2>2. filtered \in SUBSET Nat BY <1>1, <1>2
  <2>3. attempt' \in [Addresses -> SUBSET Nat] BY <1>1, <1>4, <2>2
  <2>4. ASSUME NEW b \in Addresses PROVE Limited(attempt'[b], admitted'[b], overtaken'[b])
    <3>1. CASE b = a BY <1>1, <1>4, <2>1, <3>1
    <3>2. CASE b # a BY <1>1, <1>4, <3>2
    <3> QED BY <3>1, <3>2
  <2> QED BY <1>1, <1>3, <1>4, <2>3, <2>4 DEF Limiter, Free
<1>5. CASE /\ Cardinality(filtered) < Burst
           /\ attempt' = [attempt EXCEPT ![a] = filtered \cup {Len(admitted[a]) + 1}]
           /\ admitted' = [admitted EXCEPT ![a] = Append(@, stamp)]
           /\ overtaken' = [overtaken EXCEPT ![a] =
                               @ \/ \E i \in DOMAIN admitted[a] : admitted[a][i] > stamp]
  <2> HIDE DEF filtered, a, stamp
  <2> DEFINE after == overtaken[a] \/ \E i \in DOMAIN admitted[a] : admitted[a][i] > stamp
  <2>0. after \in BOOLEAN /\ overtaken' = [overtaken EXCEPT ![a] = after] BY <1>1, <1>5
  <2>1. Limited(filtered \cup {Len(admitted[a]) + 1}, Append(admitted[a], stamp), after)
    <3>1. after = (overtaken[a] \/ \E i \in DOMAIN admitted[a] : admitted[a][i] > stamp) OBVIOUS
    <3> HIDE DEF after
    <3> QED BY <1>0, <1>1, <1>2, <1>5, <3>1, LimitedAdmitted, Zenon
  <2> HIDE DEF after
  <2>2. /\ filtered \cup {Len(admitted[a]) + 1} \in SUBSET Nat
        /\ Append(admitted[a], stamp) \in Seq(Nat)
    BY <1>0, <1>1, <1>2
  <2>3. /\ attempt' \in [Addresses -> SUBSET Nat] /\ admitted' \in [Addresses -> Seq(Nat)]
        /\ overtaken' \in [Addresses -> BOOLEAN]
    BY <1>1, <1>5, <2>0, <2>2
  <2>4. ASSUME NEW b \in Addresses PROVE Limited(attempt'[b], admitted'[b], overtaken'[b])
    <3>1. CASE b = a
      <4>1. /\ attempt'[b] = filtered \cup {Len(admitted[a]) + 1}
            /\ admitted'[b] = Append(admitted[a], stamp) /\ overtaken'[b] = after
        BY <1>1, <1>5, <2>0, <3>1
      <4> QED BY <2>1, <4>1
    <3>2. CASE b # a
      <4>1. attempt'[b] = attempt[b] /\ admitted'[b] = admitted[b] /\ overtaken'[b] = overtaken[b]
        BY <1>1, <1>5, <2>0, <3>2
      <4> QED BY <1>1, <4>1
    <3> QED BY <3>1, <3>2
  <2> QED BY <1>1, <1>3, <2>3, <2>4 DEF Limiter, Free
<1> QED BY <1>4, <1>5 DEF Allow

LEMMA ResetKept ==
    ASSUME PInv, RInv, Limiter, NEW p \in Procs, Reset(p)
    PROVE  Limiter'
<1> DEFINE a == op[p].address
<1>0. /\ ~Free(p) /\ op[p].kind = "login" BY DEF Reset, Free, RInv, Phases, PhaseOf
<1>1. /\ a \in Addresses
      /\ admitted \in [Addresses -> Seq(Nat)] /\ attempt \in [Addresses -> SUBSET Nat]
      /\ overtaken \in [Addresses -> BOOLEAN]
      /\ \A b \in Addresses : Limited(attempt[b], admitted[b], overtaken[b])
  BY <1>0 DEF Limiter
<1>2. \A q \in Procs : op'[q].kind = "login" /\ op'[q].pc \notin {"idle", "done"}
                         => op'[q].address \in Addresses
  <2>1. Others(p) /\ Load(op'[p]) = Load(op[p])
        /\ (op'[p].pc = "done" \/ op'[p].address = op[p].address)
    BY PlainOnly DEF Plain
  <2> QED BY <1>0, <2>1, LoginAddress DEF Load
<1>3. /\ attempt' = [attempt EXCEPT ![a] = {}] /\ admitted' = [admitted EXCEPT ![a] = <<>>]
      /\ overtaken' = [overtaken EXCEPT ![a] = FALSE]
  BY DEF Reset
<1> HIDE DEF a
<1>4. /\ attempt' \in [Addresses -> SUBSET Nat] /\ admitted' \in [Addresses -> Seq(Nat)]
      /\ overtaken' \in [Addresses -> BOOLEAN]
  BY <1>1, <1>3
<1>5. ASSUME NEW b \in Addresses PROVE Limited(attempt'[b], admitted'[b], overtaken'[b])
  <2>1. CASE b = a
    <3>1. attempt'[b] = {} /\ admitted'[b] = <<>> /\ overtaken'[b] = FALSE BY <1>1, <1>3, <2>1
    <3> QED BY <3>1, Fresh
  <2>2. CASE b # a
    <3>1. attempt'[b] = attempt[b] /\ admitted'[b] = admitted[b] /\ overtaken'[b] = overtaken[b]
      BY <1>1, <1>3, <2>2
    <3> QED BY <1>1, <3>1
  <2> QED BY <2>1, <2>2
<1> QED BY <1>2, <1>4, <1>5 DEF Limiter, Free

LEMMA NewLimiter ==
    ASSUME attempt' = [a \in Addresses |-> {}], admitted' = [a \in Addresses |-> <<>>],
           overtaken' = [a \in Addresses |-> FALSE], \A p \in Procs : op'[p].pc = "idle"
    PROVE  Limiter'
<1>1. /\ attempt' \in [Addresses -> SUBSET Nat] /\ admitted' \in [Addresses -> Seq(Nat)]
      /\ overtaken' \in [Addresses -> BOOLEAN]
  OBVIOUS
<1>2. ASSUME NEW a \in Addresses PROVE Limited(attempt'[a], admitted'[a], overtaken'[a])
  <2>1. attempt'[a] = {} /\ admitted'[a] = <<>> /\ overtaken'[a] = FALSE OBVIOUS
  <2> QED BY <2>1, Fresh
<1> QED BY <1>1, <1>2 DEF Limiter, Free

LEMMA LimiterKept ==
    ASSUME PInv, RInv, RInv', Limiter, [Next]_vars
    PROVE  Limiter'
<1>0. op \in [Procs -> Op] BY Typed
<1>1. ASSUME NEW p \in Procs,
             \/ Arrive(p) \/ LookUp(p) \/ CreateSession(p) \/ Authenticate(p) \/ DeleteSession(p)
      PROVE  Limiter'
  <2>1. /\ Others(p) /\ Load(op'[p]) = Load(op[p])
        /\ (op'[p].pc = "done" \/ op'[p].address = op[p].address)
    BY <1>1, PlainOnly DEF Plain
  <2>2. ~Free(p) BY <1>1, ActsAreBusy DEF Acts, Plain
  <2>3. UNCHANGED limiter
    BY <1>1 DEF Arrive, LookUp, CreateSession, Authenticate, DeleteSession
  <2> QED BY <2>1, <2>2, <2>3, LoginAddress, SameLimiter DEF Load
<1>2. ASSUME NEW p \in Procs,
             \/ StartCopy(p) \/ FinishCopy(p) \/ SendFile(p)
             \/ Attach(p) \/ Copy(p) \/ Release(p) \/ Detach(p)
      PROVE  Limiter'
  <2>1. UNCHANGED limiter
    BY <1>2 DEF StartCopy, FinishCopy, SendFile, Attach, Copy, Release, Detach
  <2>2. Others(p)
    BY <1>2, StartCopyOnly, FinishCopyOnly, SendFileOnly, AttachOnly, CopyOnly, ReleaseOnly,
       DetachOnly
  <2>3. op'[p].pc \in {"copying", "open", "copy", "release", "detach", "done"}
    BY <1>2, RequestPlaces
  <2>4. op'[p].kind = "login" => op'[p].pc = "done" BY <2>3 DEF RInv, Phases, PhaseOf
  <2> QED BY <2>1, <2>2, <2>4, SameLimiter DEF Limiter, Others, Free
<1>3. ASSUME NEW p \in Procs, RemoveFile(p) PROVE Limiter'
  <2>1. UNCHANGED limiter BY <1>3 DEF RemoveFile
  <2>2. ASSUME NEW q \in Procs, op'[q].kind = "login", op'[q].pc \notin {"idle", "done"}
        PROVE  op'[q].address \in Addresses
    <3> DEFINE b == op[p].shared \/ Rivals(p) # {}
    <3>1. op[q] \in Op BY <1>0
    <3>2. \/ q = p /\ op'[q] = [op[q] EXCEPT !.pc = "vacuum", !.shared = b]
          \/ op'[q] = [op[q] EXCEPT !.shared = TRUE] \/ op'[q] = op[q]
      BY <1>3, RemoveFileOnly
    <3> HIDE DEF b
    <3>3. CASE op'[q] = [op[q] EXCEPT !.pc = "vacuum", !.shared = b]
      <4>1. op'[q].pc = "vacuum" BY <3>1, <3>3 DEF Op
      <4> QED BY <2>2, <4>1 DEF RInv, Phases, PhaseOf
    <3>4. CASE op'[q] = [op[q] EXCEPT !.shared = TRUE] \/ op'[q] = op[q]
      <4>1. op'[q].kind = op[q].kind /\ op'[q].pc = op[q].pc /\ op'[q].address = op[q].address
        BY <3>1, <3>4 DEF Op
      <4> QED BY <2>2, <4>1 DEF Limiter, Free
    <3> QED BY <3>2, <3>3, <3>4
  <2> QED BY <2>1, <2>2, SameLimiter
<1>4. ASSUME NEW p \in Procs, Begin(p) PROVE Limiter'
  <2>1. UNCHANGED limiter BY <1>4 DEF Begin
  <2>2. op'[p].kind = "login" => op'[p].address \in Addresses BY <1>4, BeginOnly
  <2>3. ASSUME NEW q \in Procs \ {p}, op'[q].kind = "login", op'[q].pc \notin {"idle", "done"}
        PROVE  op'[q].address \in Addresses
    <3>1. op'[q] = op[q] BY <1>4, BeginOnly DEF Others
    <3> QED BY <2>3, <3>1 DEF Limiter, Free
  <2> QED BY <2>1, <2>2, <2>3, SameLimiter
<1>5. ASSUME op' = op, UNCHANGED limiter PROVE Limiter'
  BY <1>5, SameLimiter DEF Limiter, Free
<1>6. CASE WriterTakes \/ WriterReturns \/ WritePolicies \/ Tick \/ Checkpoint \/ Start
  BY <1>5, <1>6
  DEF WriterTakes, WriterReturns, WritePolicies, Tick, Checkpoint, Start
<1>7. CASE Stop \/ Kill
  <2>1. Gone BY <1>7 DEF Stop, Kill
  <2>2. \A p \in Procs : op'[p].pc = "idle" BY <2>1 DEF Gone, NoOp
  <2> QED BY <2>1, <2>2, NewLimiter DEF Gone
<1>8. CASE (\E e \in Emails : BootstrapAdmin(e)) \/ BackupCommand \/ BeginOffline
           \/ SaveOld \/ DropLog \/ Replace \/ OfflineFails
  BY <1>5, <1>8
     DEF BootstrapAdmin, BackupCommand, BeginOffline, SaveOld, DropLog, Replace, OfflineFails, Offline
<1>9. CASE UNCHANGED vars BY <1>5, <1>9 DEF vars
<1> QED
  BY <1>1, <1>2, <1>3, <1>4, <1>6, <1>7, <1>8, <1>9, AllowKept, ResetKept DEF Next

(* All of it together. *)
TInv == PInv /\ RInv /\ Pool /\ FInv /\ Issued /\ Limiter /\ Attachments

LEMMA InitAll == Init => TInv
<1> SUFFICES ASSUME Init PROVE TInv OBVIOUS
<1>1. PInv BY InitInv
<1>2. \A p \in Procs : op[p] = NoOp BY DEF Init
<1>3. /\ NoOp.pc = "idle" /\ NoOp.conn = None /\ NoOp.refusal = "none" /\ NoOp.kind = "call"
  BY DEF NoOp
<1>4. RInv
  <2>1. writer = None BY DEF Init
  <2> QED BY <1>2, <1>3, <2>1, NoConnection DEF RInv, Phases, PhaseOf, Turns
<1>5. Pool BY <1>2, <1>3 DEF Init, Pool, Range
<1>6. FInv
  <2>1. \A p \in Procs : FileOf(p) BY <1>2, <1>3 DEF FileOf, DownloadOwn
  <2>2. DOMAIN files \subseteq Nat BY DEF Init
  <2> QED BY <2>1, <2>2, FInvIsFileOf
<1>7. Issued
  <2>1. DOMAIN Initial.sessions \in SUBSET Tokens
    BY SessionsAreTable, Assumed DEF Constants, InitialAssumption
  <2> QED BY <2>1 DEF Init, Issued
<1>8. Limiter
  <2>1. /\ attempt \in [Addresses -> SUBSET Nat] /\ admitted \in [Addresses -> Seq(Nat)]
        /\ overtaken \in [Addresses -> BOOLEAN]
    BY DEF Init
  <2>2. ASSUME NEW a \in Addresses PROVE Limited(attempt[a], admitted[a], overtaken[a])
    <3>1. attempt[a] = {} /\ admitted[a] = <<>> /\ overtaken[a] = FALSE BY DEF Init
    <3> QED BY <3>1, Fresh
  <2>3. \A p \in Procs : op[p].kind # "login" BY <1>2, <1>3
  <2> QED BY <2>1, <2>2, <2>3 DEF Limiter
<1>9. Attachments
  BY <1>2, <1>3 DEF Init, Attachments, AttachedOnlyWhileRestoring, UsedOf
<1> QED BY <1>1, <1>4, <1>5, <1>6, <1>7, <1>8, <1>9 DEF TInv

LEMMA AllInvariant == Spec => []TInv
<1>1. TInv /\ [Next]_vars => TInv'
  <2> SUFFICES ASSUME TInv, [Next]_vars PROVE TInv' OBVIOUS
  <2>1. PInv /\ RInv /\ Pool /\ FInv /\ Issued /\ Limiter /\ Attachments BY DEF TInv
  <2>2. PInv' BY <2>1, StepKeeps
  <2>3. RInv' BY <2>1, <2>2, PhasesKept
  <2>4. Pool' BY <2>1, <2>2, PoolKept
  <2>5. FInv' BY <2>1, <2>2, FilesKept
  <2>6. Issued' BY <2>1, IssuedKept
  <2>7. Limiter' BY <2>1, <2>3, LimiterKept
  <2>8. Attachments' BY <2>1, AttachmentsKept
  <2> QED BY <2>2, <2>3, <2>4, <2>5, <2>6, <2>7, <2>8 DEF TInv
<1> QED BY <1>1, InitAll, PTL DEF Spec

-----------------------------------------------------------------------------
(***************************************************************************)
(* Theorems.                                                               *)
(***************************************************************************)
(* Every session belongs to an administrator of the database, whatever     *)
(* restores, commands and connections without foreign keys do between the  *)
(* lookup of a login and its CreateSession.                                *)
THEOREM SessionsHaveAdminAlways == Spec => []SessionsHaveAdmin
<1>1. PInv => SessionsHaveAdmin BY DatabaseGood DEF PInv, SessionsHaveAdmin, Good
<1> QED BY <1>1, Invariant, PTL

(* An answered login stands until its logout or the next restore, through  *)
(* stops, kills and offline restores that fail, except one that only the   *)
(* log held which a stop that was not orderly left: SQLiteRestore removes  *)
(* that log before it has replaced the database.                           *)
THEOREM HeldSessionsStayAlways == Spec => []HeldSessionsStay
<1>1. PInv => HeldSessionsStay BY DEF PInv
<1> QED BY <1>1, Invariant, PTL

(* After an orderly stop of the service SQLiteRestore leaves, wherever it  *)
(* fails, the old database or the given one, and the latter only once the  *)
(* rollback copy holds the former.                                         *)
THEOREM OfflineRestoreKeepsAlways == Spec => []OfflineRestoreKeeps
<1>1. PInv => OfflineRestoreKeeps
  <2> SUFFICES ASSUME PInv, cmd.pc # "idle", orderly
               PROVE  /\ Database \in {cmd.found, cmd.source}
                      /\ cmd.rollback \in {None, cmd.found}
                      /\ Database # cmd.found => cmd.rollback # None
    BY DEF OfflineRestoreKeeps
  <2>1. wal = None /\ Database = main BY DEF PInv, Restoring, Database
  <2>2. cmd.found # None BY NoneIsNoContent, Assumed
                         DEF PInv, Copies, Command, Constants, NamesAssumption
  <2>3. cmd.pc \in {"save", "dropLog", "replace", "ended"} BY DEF PInv, Copies, Command
  <2> QED BY <2>1, <2>2, <2>3 DEF PInv, Restoring
<1> QED BY <1>1, Invariant, PTL

(* Every variable keeps its type; in particular a connection is in the     *)
(* list of idle ones once, or held by one request or by the background.    *)
THEOREM TypesHold == Spec => []TypeOK
<1>1. TInv => TypeOK
  <2> SUFFICES ASSUME TInv PROVE TypeOK OBVIOUS
  <2>1. main \in Contents /\ wal \in Contents \cup {None} /\ backup \in Contents \cup {None}
        /\ op \in [Procs -> Op] /\ now \in 0 .. MaxTime /\ cmd \in Command
        /\ \A n \in DOMAIN files : files[n] \in File
    BY Typed DEF TInv, PInv, Copies, Good, GoodFile
  <2>2. /\ idle \in Seq(Conns) /\ attached \subseteq Conns
        /\ \A i, j \in DOMAIN idle : idle[i] = idle[j] => i = j
        /\ \A p, q \in Procs : /\ op[p].conn \notin Range(idle)
                               /\ op[p].conn = op[q].conn => p = q \/ op[p].conn = None
        /\ \A p \in Procs : op[p].conn = writer => writer = None
        /\ writer \in (Conns \ Range(idle)) \cup {None}
    BY DEF TInv, Pool
  <2>3. DOMAIN files \subseteq Nat BY DEF TInv, FInv, OwnFiles
  <2>4. /\ admitted \in [Addresses -> Seq(Nat)] /\ attempt \in [Addresses -> SUBSET Nat]
        /\ \A a \in Addresses : attempt[a] \subseteq DOMAIN admitted[a]
    BY DEF TInv, Limiter, Limited
  <2>5. issued \subseteq Tokens /\ held \subseteq issued /\ lost \subseteq held
    BY DEF TInv, Issued
  <2>6. released \in Procs \cup {None} /\ stray \subseteq attached BY DEF TInv, Attachments
  <2> QED BY <2>1, <2>2, <2>3, <2>4, <2>5, <2>6 DEF TypeOK
<1> QED BY <1>1, AllInvariant, PTL

(* Unless an attempt was decided after one with a later stamp, at most     *)
(* Burst attempts of an address pass LoginRateLimiter.Allow in any window, *)
(* for every Burst and Window and any number of concurrent logins: what    *)
(* the limiter has dropped is older than every window it still bounds.     *)
THEOREM AttemptsBoundedAlways == Spec => []AttemptsBounded
<1>1. TInv => AttemptsBounded
  <2> SUFFICES ASSUME TInv, NEW a \in Addresses, ~overtaken[a], NEW end \in 0 .. now
               PROVE  Cardinality(InWindow(admitted[a], end)) <= Burst
    BY DEF AttemptsBounded, InWindow
  <2>1. now \in 0 .. MaxTime /\ MaxTime \in Nat
    BY Assumed DEF TInv, PInv, Copies, Constants, EnvironmentAssumption
  <2>2. end \in 0 .. MaxTime BY <2>1
  <2> QED BY <2>2 DEF TInv, Limiter, Limited
<1> QED BY <1>1, AllInvariant, PTL

(* DownloadSQLiteBackup sends the copy that its own VACUUM INTO made, and  *)
(* the whole of it, unless another download of the same second was under   *)
(* way.                                                                    *)
THEOREM DownloadIsOwnCopyAlways == Spec => []DownloadIsOwnCopy
<1>1. TInv => DownloadIsOwnCopy BY DEF TInv, FInv
<1> QED BY <1>1, AllInvariant, PTL

(* However RestoreFromBackup ends, src does not stay attached to a         *)
(* connection that no restore uses, for any number of connections and      *)
(* concurrent statements, unless the client left before the DETACH or      *)
(* another statement moved a connection between the end of the transaction *)
(* and the DETACH.                                                         *)
THEOREM AttachedOnlyWhileRestoringAlways == Spec => []AttachedOnlyWhileRestoring
<1>1. TInv => AttachedOnlyWhileRestoring BY DEF TInv, Attachments
<1> QED BY <1>1, AllInvariant, PTL
=============================================================================
