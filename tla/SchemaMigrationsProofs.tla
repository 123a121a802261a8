----------------------- MODULE SchemaMigrationsProofs -----------------------
(***************************************************************************)
(* Proofs about the schema migrations, for any migration table, any tables *)
(* of the two openers and any number of processes: recorded versions are   *)
(* applied, an open store has the complete schema, an added column has an  *)
(* owner, and a start on its own succeeds.                                 *)
(***************************************************************************)
EXTENDS SchemaMigrations, TLAPS

\* What a start has behind it: all versions below its own but imported ones, the
\* statements of its own version below the one that is due, all before the row.
Passed(p) ==
    /\ \A o \in Objects : o[1] < op[p].v => o \in objects \/ o[1] \in imported
    /\ op[p].step = "statement" =>
         \A o \in Objects : o[1] = op[p].v /\ o[2] < op[p].i => o \in objects
    /\ op[p].step = "record" => \A o \in Objects : o[1] = op[p].v => o \in objects

Counters(p) ==
    /\ op[p].step = "repo" => op[p].i \in 1 .. Len(RepoTables)
    /\ op[p].step = "core" => op[p].i \in 1 .. Len(StoreTables)
    /\ op[p].step \in {"repo", "baseline"} => op[p].cmd # "store"
    /\ op[p].step = "baseline" => op[p].i = 1
    /\ op[p].step \in {"statement", "record"} => op[p].v \in Versions
    /\ op[p].step = "statement" => op[p].i \in 1 .. Len(Migrations[op[p].v])
    /\ op[p].step = "ready" /\ op[p].cmd # "repository" => op[p].v = Len(Migrations) + 1

Applied == \A o \in Objects : o[1] \in rows \ imported => o \in objects

SInv == TypeOK /\ Applied /\ \A p \in Proc : Counters(p) /\ Passed(p)

-----------------------------------------------------------------------------
(* An object is a version and the index of one of its statements.          *)
LEMMA ObjectFacts ==
    ASSUME NEW o \in Objects
    PROVE  /\ o = <<o[1], o[2]>> /\ o[1] \in Versions
           /\ o[2] \in 1 .. Len(Migrations[o[1]])
BY SMT DEF Objects

(* A statement of a version is an object.                                  *)
LEMMA StatementIsObject ==
    ASSUME NEW v \in Versions, NEW i \in 1 .. Len(Migrations[v])
    PROVE  <<v, i>> \in Objects
BY SMT DEF Objects

(* The baseline version has no object.                                     *)
LEMMA BaselineIsEmpty == \A o \in Objects : o[1] # 1
<1> SUFFICES ASSUME NEW o \in Objects, o[1] = 1 PROVE FALSE OBVIOUS
<1>1. o[2] \in 1 .. Len(Migrations[1]) BY ObjectFacts
<1>2. Migrations[1] = <<>> BY SchemaAssumption
<1> QED BY <1>1, <1>2, SMT

(* The tables and migrations are well-formed.                              *)
LEMMA Shapes ==
    /\ Len(Migrations) \in Nat \ {0} /\ 1 \in Versions
    /\ \A v \in Versions : Len(Migrations[v]) \in Nat /\ (Migrations[v] = <<>> <=> Len(Migrations[v]) = 0)
    /\ Len(RepoTables) \in Nat \ {0} /\ Len(StoreTables) \in Nat \ {0}
    /\ \A i \in 1 .. Len(RepoTables) : RepoTables[i] \in TableNames
    /\ \A i \in 1 .. Len(StoreTables) : StoreTables[i] \in TableNames
    /\ \A t \in TableNames : Born[t] \subseteq Objects
<1>1. Len(Migrations) \in Nat \ {0} /\ 1 \in Versions
  BY SchemaAssumption, SMT DEF Versions
<1>2. \A v \in Versions : Len(Migrations[v]) \in Nat /\ (Migrations[v] = <<>> <=> Len(Migrations[v]) = 0)
  BY SchemaAssumption, SMT DEF Versions
<1>3. Len(RepoTables) \in Nat \ {0} /\ Len(StoreTables) \in Nat \ {0}
  BY SchemaAssumption, SMT
<1>4. \A i \in 1 .. Len(RepoTables) : RepoTables[i] \in TableNames
  BY SchemaAssumption, SMT
<1>5. \A i \in 1 .. Len(StoreTables) : StoreTables[i] \in TableNames
  BY DEF TableNames
<1>6. \A t \in TableNames : Born[t] \subseteq Objects
  BY SchemaAssumption
<1> QED BY <1>1, <1>2, <1>3, <1>4, <1>5, <1>6

-----------------------------------------------------------------------------
(* What a start has behind it stays behind it while objects are only added.*)
LEMMA PassedKept ==
    ASSUME NEW q \in Proc, Counters(q), Passed(q), objects \subseteq objects',
           op'[q].step = op[q].step, op'[q].v = op[q].v, op'[q].i = op[q].i,
           op'[q].cmd = op[q].cmd, imported \subseteq imported'
    PROVE  Counters(q)' /\ Passed(q)'
BY DEF Counters, Passed

(* An action of one process that writes only its own start and adds        *)
(* objects keeps the invariant once that start's own part is shown.        *)
LEMMA OneProcess ==
    ASSUME SInv, NEW p \in Proc, NEW e,
           op' = [op EXCEPT ![p] = e], TypeOK', Applied',
           objects \subseteq objects', imported' = imported, Counters(p)', Passed(p)'
    PROVE  SInv'
<1>1. ASSUME NEW q \in Proc, q # p PROVE Counters(q)' /\ Passed(q)'
  <2>1. op'[q] = op[q] BY <1>1 DEF SInv, TypeOK
  <2> QED BY <2>1, PassedKept DEF SInv
<1> QED BY <1>1 DEF SInv

LEMMA BeginKeeps ==
    ASSUME SInv, NEW p \in Proc, NEW cmd \in Commands, Begin(p, cmd)
    PROVE  SInv'
<1> USE Shapes
<1>1. op' = [q \in Proc |->
                IF q = p THEN [step |-> IF cmd = "store" THEN "core" ELSE "repo",
                               cmd |-> cmd, v |-> 1, i |-> 1,
                               alone |-> \A r \in Proc : ~Active(r)]
                ELSE [op[q] EXCEPT !.alone = FALSE]]
  BY DEF Begin
<1>a. (\A r \in Proc : ~Active(r)) \in BOOLEAN /\ (tables = {}) \in BOOLEAN
  OBVIOUS
<1>b. ASSUME NEW q \in Proc PROVE op'[q] \in Start
  <2>1. CASE q = p
    <3>1. op'[q] = [step |-> IF cmd = "store" THEN "core" ELSE "repo", cmd |-> cmd,
                    v |-> 1, i |-> 1, alone |-> \A r \in Proc : ~Active(r)] BY <1>1, <2>1
    <3>2. 1 \in 1 .. Len(Migrations) + 1 /\ 1 \in Nat \ {0} BY SMT
    <3>3. (IF cmd = "store" THEN "core" ELSE "repo") \in Opening \cup {"closed", "ready", "failed"}
      BY DEF Opening
    <3> QED BY <3>1, <3>2, <3>3, <1>a DEF Start
  <2>2. CASE q # p
    BY <1>1, <2>2, ZenonT(60) DEF SInv, TypeOK, Start
  <2> QED BY <2>1, <2>2
<1>2. TypeOK'
  BY <1>1, <1>b DEF SInv, TypeOK, Begin
<1>3. Applied' BY DEF Begin, SInv, Applied
<1>4. ASSUME NEW q \in Proc, q # p PROVE Counters(q)' /\ Passed(q)'
  <2>1. /\ op'[q].step = op[q].step /\ op'[q].v = op[q].v
        /\ op'[q].i = op[q].i /\ op'[q].cmd = op[q].cmd
    BY <1>1, <1>4 DEF SInv, TypeOK, Start
  <2>2. objects \subseteq objects' /\ imported' = imported BY DEF Begin
  <2> QED BY <2>1, <2>2, PassedKept DEF SInv
<1>5. Counters(p)' /\ Passed(p)'
  <2>1. /\ op'[p].step = (IF cmd = "store" THEN "core" ELSE "repo")
        /\ op'[p].cmd = cmd /\ op'[p].v = 1 /\ op'[p].i = 1
    BY <1>1
  <2>2. \A o \in Objects : ~(o[1] < 1) BY ObjectFacts, SMT DEF Versions
  <2> QED BY <2>1, <2>2, SMT DEF Counters, Passed
<1> QED BY <1>2, <1>3, <1>4, <1>5 DEF SInv

LEMMA RepoKeeps ==
    ASSUME SInv, NEW p \in Proc, RepoCreates(p) \/ RecordBaseline(p)
    PROVE  SInv'
<1> USE Shapes
<1>2. CASE RepoCreates(p)
  <2> DEFINE e == [op[p] EXCEPT !.step = IF op[p].i = Len(RepoTables) THEN "baseline" ELSE "repo",
                                !.i = IF op[p].i = Len(RepoTables) THEN 1 ELSE @ + 1]
  <2>1. op' = [op EXCEPT ![p] = e] /\ op'[p] = e
    BY <1>2 DEF RepoCreates, SInv, TypeOK
  <2>2. op[p].step = "repo" /\ op[p].i \in 1 .. Len(RepoTables) /\ op[p].cmd # "store"
    BY <1>2 DEF RepoCreates, SInv, Counters
  <2>3. TypeOK'
    <3>1. tables' \subseteq TableNames BY <1>2, <2>2 DEF RepoCreates, SInv, TypeOK
    <3>2. e \in Start
      <4>1. op[p] \in Start BY DEF SInv, TypeOK
      <4>2. 1 \in Nat \ {0} /\ op[p].i + 1 \in Nat \ {0} BY <4>1, SMT DEF Start
      <4> HIDE DEF e
      <4>3. CASE op[p].i = Len(RepoTables)
        <5>1. e = [op[p] EXCEPT !.step = "baseline", !.i = 1] BY <4>3 DEF e
        <5> QED BY <5>1, <4>1, <4>2 DEF Start, Opening
      <4>4. CASE op[p].i # Len(RepoTables)
        <5>1. e = [op[p] EXCEPT !.step = "repo", !.i = @ + 1] BY <4>4 DEF e
        <5> QED BY <5>1, <4>1, <4>2 DEF Start, Opening
      <4> QED BY <4>3, <4>4
    <3>3. op' \in [Proc -> Start] BY <2>1, <3>2 DEF SInv, TypeOK
    <3> QED BY <3>1, <3>3, <1>2 DEF RepoCreates, SInv, TypeOK
  <2>4. Applied' /\ objects' = objects /\ imported' = imported
    BY <1>2 DEF RepoCreates, SInv, Applied
  <2>5. Counters(p)' BY <2>1, <2>2, SMT DEF Counters, SInv, TypeOK
  <2>6. Passed(p)' BY <2>1, <2>2, <2>4 DEF Passed, SInv, TypeOK
  <2> HIDE DEF e
  <2> QED BY <2>1, <2>3, <2>4, <2>5, <2>6, OneProcess
<1>3. CASE RecordBaseline(p)
  <2> DEFINE e == [op[p] EXCEPT !.step = IF op[p].cmd = "serve" THEN "core" ELSE "ready"]
  <2>1. op' = [op EXCEPT ![p] = e] /\ op'[p] = e /\ op[p].step = "baseline"
    BY <1>3 DEF RecordBaseline, Go, SInv, TypeOK
  <2>2. op[p].cmd \in Commands /\ op[p].cmd # "store"
    BY <2>1 DEF SInv, Counters, TypeOK, Start
  <2>3. TypeOK'
    <3>1. e \in Start BY DEF SInv, TypeOK, Start, Opening
    <3>2. op' \in [Proc -> Start] BY <2>1, <3>1 DEF SInv, TypeOK
    <3> QED BY <1>3, <3>2 DEF RecordBaseline, SInv, TypeOK
  <2>4. Applied' /\ objects' = objects /\ imported' = imported
    BY <1>3, BaselineIsEmpty DEF RecordBaseline, SInv, Applied
  <2>6. Passed(p)' BY <2>1, <2>4 DEF Passed, SInv, TypeOK
  <2>5. Counters(p)'
    <3>1. CASE op[p].cmd = "serve"
      BY <3>1, <2>1 DEF Counters, SInv, TypeOK, Start
    <3>2. CASE op[p].cmd = "repository"
      BY <3>2, <2>1 DEF Counters, SInv, TypeOK
    <3> QED BY <3>1, <3>2, <2>2 DEF Commands
  <2> HIDE DEF e
  <2> QED BY <2>1, <2>3, <2>4, <2>5, <2>6, OneProcess
<1> QED BY <1>2, <1>3

(* A start whose step, version and index stay in range keeps its type.     *)
LEMMA StartTyped ==
    ASSUME SInv, NEW p \in Proc, NEW st \in Opening \cup {"closed", "ready", "failed"},
           NEW v \in 1 .. Len(Migrations) + 1, NEW i \in Nat \ {0}
    PROVE  /\ [op EXCEPT ![p].step = st] \in [Proc -> Start]
           /\ [op EXCEPT ![p].step = st, ![p].i = i] \in [Proc -> Start]
           /\ [op EXCEPT ![p].i = i, ![p].step = st] \in [Proc -> Start]
           /\ [op EXCEPT ![p].step = st, ![p].v = v] \in [Proc -> Start]
           /\ [op EXCEPT ![p].v = v] \in [Proc -> Start]
<1>1. op \in [Proc -> Start] /\ op[p] \in Start BY DEF SInv, TypeOK
<1>2. [op[p] EXCEPT !.step = st] \in Start BY <1>1 DEF Start
<1>3. [op[p] EXCEPT !.step = st, !.i = i] \in Start BY <1>1 DEF Start
<1>4. [op[p] EXCEPT !.i = i, !.step = st] \in Start BY <1>1 DEF Start
<1>5. [op[p] EXCEPT !.step = st, !.v = v] \in Start BY <1>1 DEF Start
<1>6. [op[p] EXCEPT !.v = v] \in Start BY <1>1 DEF Start
<1>7. ASSUME NEW f \in Start PROVE [op EXCEPT ![p] = f] \in [Proc -> Start] BY <1>1
<1>8. /\ [op EXCEPT ![p].step = st] = [op EXCEPT ![p] = [op[p] EXCEPT !.step = st]]
      /\ [op EXCEPT ![p].step = st, ![p].i = i] = [op EXCEPT ![p] = [op[p] EXCEPT !.step = st, !.i = i]]
      /\ [op EXCEPT ![p].i = i, ![p].step = st] = [op EXCEPT ![p] = [op[p] EXCEPT !.i = i, !.step = st]]
      /\ [op EXCEPT ![p].step = st, ![p].v = v] = [op EXCEPT ![p] = [op[p] EXCEPT !.step = st, !.v = v]]
      /\ [op EXCEPT ![p].v = v] = [op EXCEPT ![p] = [op[p] EXCEPT !.v = v]]
  BY <1>1
<1> QED BY <1>2, <1>3, <1>4, <1>5, <1>6, <1>7, <1>8

(* A process that gives up changes nothing else.                           *)
LEMMA FailsKeeps ==
    ASSUME SInv, NEW p \in Proc, Fails(p)
    PROVE  SInv'
<1> DEFINE e == [op[p] EXCEPT !.step = "failed"]
<1>1. op' = [op EXCEPT ![p] = e] /\ op'[p] = e /\ op[p] \in Start
  BY DEF Fails, Go, SInv, TypeOK
<1>2. op' \in [Proc -> Start]
  <2>1. op[p].v \in 1 .. Len(Migrations) + 1 /\ op[p].i \in Nat \ {0} BY <1>1 DEF Start
  <2> QED BY <2>1, StartTyped DEF Fails, Go
<1>3. TypeOK' BY <1>2 DEF Fails, SInv, TypeOK
<1>4. Applied' /\ objects' = objects /\ imported' = imported BY DEF Fails, SInv, Applied
<1>5. Counters(p)' /\ Passed(p)'
  BY <1>1, <1>4 DEF Counters, Passed, SInv, Start
<1> HIDE DEF e
<1> QED BY <1>1, <1>3, <1>4, <1>5, OneProcess

LEMMA StoreCreatesKeeps ==
    ASSUME SInv, NEW p \in Proc, StoreCreates(p)
    PROVE  SInv'
<1> USE Shapes
<1> DEFINE t == StoreTables[op[p].i]
           new == IF t \in tables THEN {} ELSE Born[t]
           st == IF op[p].i = Len(StoreTables) THEN "check" ELSE "core"
           i == IF op[p].i = Len(StoreTables) THEN 1 ELSE op[p].i + 1
           e == [op[p] EXCEPT !.step = st, !.i = i]
<1>1. /\ op[p].step = "core" /\ op[p].i \in 1 .. Len(StoreTables) /\ op[p] \in Start
      /\ tables' = tables \cup {t} /\ objects' = objects \cup new
      /\ rows' = rows /\ imported' = imported /\ disrupted' = disrupted
      /\ broken' \in {broken, broken \cup {"shape"}}
      /\ op' = [op EXCEPT ![p].step = st, ![p].i = i]
  BY DEF StoreCreates, SInv, Counters, TypeOK
<1>2. t \in TableNames /\ new \subseteq Objects BY <1>1
<1>3. st \in Opening /\ i \in Nat \ {0}
  BY <1>1, SMT DEF Opening
<1>4. op' \in [Proc -> Start]
  <2> HIDE DEF st, i
  <2>1. 1 \in 1 .. Len(Migrations) + 1 BY SMT
  <2> QED BY <1>1, <1>3, <2>1, StartTyped
<1>5. op' = [op EXCEPT ![p] = e] /\ op'[p] = e
  <2> HIDE DEF st, i
  <2> QED BY <1>1 DEF SInv, TypeOK
<1>6. TypeOK' BY <1>1, <1>2, <1>4 DEF SInv, TypeOK
<1>7. Applied' BY <1>1 DEF SInv, Applied
<1>8. Counters(p)'
  <2>1. op'[p].step = st /\ op'[p].i = i /\ op'[p].cmd = op[p].cmd /\ op'[p].v = op[p].v
    BY <1>5, <1>1 DEF Start
  <2>2. CASE op[p].i = Len(StoreTables)
    BY <2>1, <2>2 DEF Counters
  <2>3. CASE op[p].i # Len(StoreTables)
    <3>1. i \in 1 .. Len(StoreTables) BY <2>3, <1>1, SMT
    <3>2. st = "core" BY <2>3
    <3> HIDE DEF i, st
    <3> QED BY <2>1, <3>1, <3>2 DEF Counters
  <2> QED BY <2>2, <2>3
<1>9. Passed(p)'
  <2>1. op'[p].step \in {"check", "core"} /\ op'[p].v = op[p].v
    BY <1>5, <1>1 DEF Start
  <2>2. Passed(p) /\ objects \subseteq objects' /\ imported' = imported BY <1>1 DEF SInv
  <2> QED BY <2>1, <2>2 DEF Passed
<1>10. objects \subseteq objects' /\ imported' = imported BY <1>1
<1> HIDE DEF e
<1> QED BY <1>5, <1>6, <1>7, <1>8, <1>9, <1>10, OneProcess

LEMMA CheckVersionKeeps ==
    ASSUME SInv, NEW p \in Proc, CheckVersion(p)
    PROVE  SInv'
<1> USE Shapes
<1>1. /\ op[p] \in Start /\ op[p].step = "check" /\ Passed(p) /\ Counters(p)
      /\ UNCHANGED <<tables, objects, rows, imported, broken, disrupted>>
  BY DEF CheckVersion, SInv, TypeOK
<1>2. Applied' /\ objects \subseteq objects' /\ imported' = imported BY <1>1 DEF SInv, Applied
<1>3. CASE op[p].v = Len(Migrations) + 1 /\ Go(p, "ready")
  <2> DEFINE e == [op[p] EXCEPT !.step = "ready"]
  <2>1. op' = [op EXCEPT ![p] = e] /\ op'[p] = e BY <1>3 DEF Go, SInv, TypeOK
  <2>2. op' \in [Proc -> Start]
    BY <1>3, <1>1, StartTyped DEF Go, Start
  <2>3. TypeOK' BY <2>2, <1>1 DEF SInv, TypeOK
  <2>4. Counters(p)' /\ Passed(p)'
    BY <2>1, <1>1, <1>3 DEF Counters, Passed, Start
  <2> HIDE DEF e
  <2> QED BY <2>1, <2>3, <2>4, <1>2, OneProcess
<1>4. CASE op[p].v \in rows /\ op' = [op EXCEPT ![p].v = @ + 1]
  <2> DEFINE e == [op[p] EXCEPT !.v = @ + 1]
  <2>1. op' = [op EXCEPT ![p] = e] /\ op'[p] = e BY <1>4 DEF SInv, TypeOK
  <2>2. op[p].v \in Versions BY <1>4 DEF SInv, TypeOK
  <2>3. op[p].v + 1 \in 1 .. Len(Migrations) + 1 BY <2>2, SMTT(60) DEF Versions
  <2>4. op' \in [Proc -> Start]
    BY <1>4, <1>1, <2>3, StartTyped DEF Start, Opening
  <2>5. TypeOK' BY <2>4, <1>1 DEF SInv, TypeOK
  <2>6. op'[p].step = "check" /\ op'[p].v = op[p].v + 1 BY <2>1, <1>1 DEF Start
  <2>7. Counters(p)' BY <2>6 DEF Counters
  <2>8. \A o \in Objects : o[1] < op[p].v + 1 => o \in objects \/ o[1] \in imported
    <3> SUFFICES ASSUME NEW o \in Objects, o[1] < op[p].v + 1
                 PROVE  o \in objects \/ o[1] \in imported
      OBVIOUS
    <3>1. o[1] \in Versions BY ObjectFacts
    <3>2. o[1] < op[p].v \/ o[1] = op[p].v BY <3>1, <2>2, SMT DEF Versions
    <3> QED BY <3>2, <1>1, <1>4 DEF Passed, SInv, Applied
  <2>9. Passed(p)' BY <2>6, <2>8, <1>1 DEF Passed
  <2> HIDE DEF e
  <2> QED BY <2>1, <2>5, <2>7, <2>9, <1>2, OneProcess
<1>5. CASE /\ op[p].v \in Versions \ rows
           /\ op' = [op EXCEPT ![p].i = 1,
                       ![p].step = IF Migrations[op[p].v] = <<>> THEN "record" ELSE "statement"]
  <2> DEFINE st == IF Migrations[op[p].v] = <<>> THEN "record" ELSE "statement"
             e == [op[p] EXCEPT !.i = 1, !.step = st]
  <2>1. op' = [op EXCEPT ![p] = e] /\ op'[p] = e BY <1>5 DEF SInv, TypeOK
  <2>2. st \in Opening BY DEF Opening
  <2>3. op' \in [Proc -> Start]
    <3>1. 1 \in Nat \ {0} /\ 1 \in 1 .. Len(Migrations) + 1 BY SMT
    <3> HIDE DEF e
    <3> QED BY <1>5, <2>2, <3>1, StartTyped
  <2>4. TypeOK' BY <2>3, <1>1 DEF SInv, TypeOK
  <2>5. op'[p].step = st /\ op'[p].i = 1 /\ op'[p].v = op[p].v /\ op'[p].cmd = op[p].cmd
    <3>1. DOMAIN op[p] = {"step", "cmd", "v", "i", "alone"} BY <1>1 DEF Start
    <3> HIDE DEF st
    <3> QED BY <2>1, <3>1, ZenonT(60)
  <2>6. CASE Migrations[op[p].v] = <<>>
    <3>1. op'[p].step = "record" BY <2>5, <2>6
    <3>2. \A o \in Objects : o[1] # op[p].v
      <4> SUFFICES ASSUME NEW o \in Objects, o[1] = op[p].v PROVE FALSE OBVIOUS
      <4> QED BY ObjectFacts, <2>6, SMT
    <3>3. Counters(p)' BY <3>1, <2>5, <1>5 DEF Counters
    <3>4. Passed(p)' BY <3>1, <3>2, <2>5, <1>1 DEF Passed
    <3> HIDE DEF e
    <3> QED BY <2>1, <2>4, <3>3, <3>4, <1>2, OneProcess
  <2>7. CASE Migrations[op[p].v] # <<>>
    <3>1. op'[p].step = "statement" BY <2>5, <2>7
    <3>2. 1 \in 1 .. Len(Migrations[op[p].v]) BY <2>7, <1>5, SMT
    <3>3. Counters(p)' BY <3>1, <3>2, <2>5, <1>5 DEF Counters
    <3>4. \A o \in Objects : ~(o[2] < 1)
      <4> SUFFICES ASSUME NEW o \in Objects, o[2] < 1 PROVE FALSE OBVIOUS
      <4> QED BY ObjectFacts, SMT
    <3>5. Passed(p)' BY <3>1, <3>4, <2>5, <1>1 DEF Passed
    <3> HIDE DEF e
    <3> QED BY <2>1, <2>4, <3>3, <3>5, <1>2, OneProcess
  <2> QED BY <2>6, <2>7
<1> QED BY <1>3, <1>4, <1>5 DEF CheckVersion

LEMMA StatementKeeps ==
    ASSUME SInv, NEW p \in Proc, Statement(p)
    PROVE  SInv'
<1> USE Shapes
<1> DEFINE o == <<op[p].v, op[p].i>>
           st == IF op[p].i = Len(Migrations[op[p].v]) THEN "record" ELSE "statement"
           e == [op[p] EXCEPT !.i = @ + 1, !.step = st]
<1>1. /\ op[p] \in Start /\ op[p].step = "statement" /\ Passed(p)
      /\ op[p].v \in Versions /\ op[p].i \in 1 .. Len(Migrations[op[p].v])
  BY DEF Statement, SInv, TypeOK, Counters
<1>2. CASE o \in objects /\ o \in Added
  BY <1>2, FailsKeeps DEF Statement
<1>3. CASE ~(o \in objects /\ o \in Added)
  <2>1. /\ objects' = objects \cup {o} /\ op' = [op EXCEPT ![p].i = @ + 1, ![p].step = st]
        /\ UNCHANGED <<tables, rows, imported, broken, disrupted>>
    BY <1>3 DEF Statement
  <2>2. op' = [op EXCEPT ![p] = e] /\ op'[p] = e
    <3> HIDE DEF st
    <3> QED BY <2>1 DEF SInv, TypeOK
  <2>3. st \in Opening /\ op[p].i + 1 \in Nat \ {0}
    BY <1>1, SMT DEF Opening
  <2>4. op' \in [Proc -> Start]
    <3>1. e \in Start
      <4> HIDE DEF st
      <4> QED BY <1>1, <2>3 DEF Start
    <3> HIDE DEF e
    <3> QED BY <2>2, <3>1 DEF SInv, TypeOK
  <2>5. o \in Objects BY <1>1, StatementIsObject
  <2>6. TypeOK' BY <2>1, <2>4, <2>5 DEF SInv, TypeOK
  <2>7. Applied' /\ objects \subseteq objects' /\ imported' = imported BY <2>1 DEF SInv, Applied
  <2>8. op'[p].step = st /\ op'[p].i = op[p].i + 1 /\ op'[p].v = op[p].v /\ op'[p].cmd = op[p].cmd
    <3>1. DOMAIN op[p] = {"step", "cmd", "v", "i", "alone"} BY <1>1 DEF Start
    <3> HIDE DEF st
    <3> QED BY <2>2, <3>1, ZenonT(60)
  <2>9. ASSUME NEW x \in Objects, x[1] = op[p].v, x[2] < op[p].i + 1 PROVE x \in objects'
    <3>1. x = <<x[1], x[2]>> /\ x[2] \in 1 .. Len(Migrations[x[1]]) BY ObjectFacts
    <3>2. x[2] < op[p].i \/ x[2] = op[p].i BY <3>1, <1>1, <2>9, SMT
    <3>3. CASE x[2] < op[p].i BY <3>3, <1>1, <2>9, <2>1 DEF Passed
    <3>4. CASE x[2] = op[p].i BY <3>4, <3>1, <2>9, <2>1
    <3> QED BY <3>2, <3>3, <3>4
  <2>10. \A x \in Objects : x[1] < op[p].v => x \in objects' \/ x[1] \in imported'
    BY <1>1, <2>1 DEF Passed
  <2>11. CASE op[p].i = Len(Migrations[op[p].v])
    <3>1. op'[p].step = "record" BY <2>8, <2>11
    <3>2. Counters(p)' BY <3>1, <2>8, <1>1 DEF Counters
    <3>3. \A x \in Objects : x[1] = op[p].v => x \in objects'
      <4> SUFFICES ASSUME NEW x \in Objects, x[1] = op[p].v PROVE x \in objects' OBVIOUS
      <4>1. x[2] \in 1 .. Len(Migrations[op[p].v]) BY ObjectFacts
      <4>2. x[2] < op[p].i + 1 BY <4>1, <2>11, <1>1, SMT
      <4> QED BY <4>2, <2>9
    <3>4. Passed(p)' BY <3>1, <3>3, <2>8, <2>10 DEF Passed
    <3> HIDE DEF e
    <3> QED BY <2>2, <2>6, <3>2, <3>4, <2>7, OneProcess
  <2>12. CASE op[p].i # Len(Migrations[op[p].v])
    <3>1. op'[p].step = "statement" BY <2>8, <2>12
    <3>2. op[p].i + 1 \in 1 .. Len(Migrations[op[p].v]) BY <1>1, <2>12, SMT
    <3>3. Counters(p)' BY <3>1, <3>2, <2>8, <1>1 DEF Counters
    <3>4. Passed(p)' BY <3>1, <2>8, <2>9, <2>10 DEF Passed
    <3> HIDE DEF e
    <3> QED BY <2>2, <2>6, <3>3, <3>4, <2>7, OneProcess
  <2> QED BY <2>11, <2>12
<1> QED BY <1>2, <1>3

LEMMA RecordVersionKeeps ==
    ASSUME SInv, NEW p \in Proc, RecordVersion(p)
    PROVE  SInv'
<1> USE Shapes
<1> DEFINE e == [op[p] EXCEPT !.step = "check", !.v = @ + 1]
<1>1. /\ op[p] \in Start /\ op[p].step = "record" /\ Passed(p) /\ op[p].v \in Versions
  BY DEF RecordVersion, SInv, TypeOK, Counters
<1>2. CASE op[p].v \in rows
  BY <1>2, FailsKeeps DEF RecordVersion
<1>3. CASE op[p].v \notin rows
  <2>1. /\ rows' = rows \cup {op[p].v} /\ op' = [op EXCEPT ![p].step = "check", ![p].v = @ + 1]
        /\ UNCHANGED <<tables, objects, imported, broken, disrupted>>
    BY <1>3 DEF RecordVersion
  <2>2. op' = [op EXCEPT ![p] = e] /\ op'[p] = e BY <2>1 DEF SInv, TypeOK
  <2>3. op[p].v + 1 \in 1 .. Len(Migrations) + 1 BY <1>1, SMT DEF Versions
  <2>4. op' \in [Proc -> Start]
    <3>1. e \in Start BY <1>1, <2>3 DEF Start, Opening
    <3> HIDE DEF e
    <3> QED BY <2>2, <3>1 DEF SInv, TypeOK
  <2>5. TypeOK' BY <2>1, <2>4, <1>1 DEF SInv, TypeOK
  <2>6. Applied' BY <2>1, <1>1 DEF SInv, Applied, Passed
  <2>7. op'[p].step = "check" /\ op'[p].v = op[p].v + 1 BY <2>2, <1>1 DEF Start
  <2>8. Counters(p)' BY <2>7 DEF Counters
  <2>9. Passed(p)'
    <3>1. ASSUME NEW x \in Objects, x[1] < op[p].v + 1
          PROVE  x \in objects \/ x[1] \in imported
      <4>1. x[1] \in Versions BY ObjectFacts
      <4>2. x[1] < op[p].v \/ x[1] = op[p].v BY <4>1, <1>1, <3>1, SMT DEF Versions
      <4> QED BY <4>2, <1>1 DEF Passed
    <3> QED BY <3>1, <2>7, <2>1 DEF Passed
  <2>10. objects \subseteq objects' /\ imported' = imported BY <2>1
  <2> HIDE DEF e
  <2> QED BY <2>2, <2>5, <2>6, <2>8, <2>9, <2>10, OneProcess
<1> QED BY <1>2, <1>3

LEMMA EndsKeep ==
    ASSUME SInv, NEW p \in Proc, Close(p) \/ Crash(p)
    PROVE  SInv'
<1> USE Shapes
<1>1. /\ op' = [op EXCEPT ![p] = Closed]
      /\ UNCHANGED <<tables, objects, rows, imported>>
      /\ broken' \in {broken, broken \cup {"half"}} /\ disrupted' \in BOOLEAN
  BY DEF Close, Crash, SInv, TypeOK
<1>2. op'[p] = Closed BY <1>1 DEF SInv, TypeOK
<1>3. Closed \in Start BY SMT DEF Closed, Start, Commands
<1>4. TypeOK' BY <1>1, <1>3 DEF SInv, TypeOK
<1>5. Applied' /\ objects \subseteq objects' /\ imported' = imported BY <1>1 DEF SInv, Applied
<1>6. \A x \in Objects : ~(x[1] < 1) BY ObjectFacts, SMT DEF Versions
<1>7. Counters(p)' /\ Passed(p)' BY <1>2, <1>6 DEF Counters, Passed, Closed
<1> QED BY <1>1, <1>4, <1>5, <1>7, OneProcess

LEMMA RestoreKeeps ==
    ASSUME SInv, NEW p \in Proc, Restore(p)
    PROVE  SInv'
<1>1. PICK file \in Files :
         /\ rows' = file
         /\ imported' = imported \cup {v \in file : ~(ObjectsOf(v) \subseteq objects)}
         /\ broken' \in {broken, broken \cup {"rollback"}}
  BY DEF Restore
<1>2. UNCHANGED <<tables, objects>> /\ disrupted' \in BOOLEAN /\ file \subseteq Versions
  BY <1>1, SchemaAssumption DEF Restore
<1>3. \A q \in Proc : op'[q] = [op[q] EXCEPT !.alone = FALSE]
  BY DEF Restore
<1>4. op' \in [Proc -> Start]
  <2>1. \A q \in Proc : [op[q] EXCEPT !.alone = FALSE] \in Start BY DEF SInv, TypeOK, Start
  <2> QED BY <2>1 DEF Restore
<1>5. TypeOK' BY <1>1, <1>2, <1>4 DEF SInv, TypeOK
<1>6. Applied' BY <1>1, <1>2 DEF Applied, ObjectsOf
<1>7. ASSUME NEW q \in Proc PROVE Counters(q)' /\ Passed(q)'
  <2>1. /\ op'[q].step = op[q].step /\ op'[q].v = op[q].v
        /\ op'[q].i = op[q].i /\ op'[q].cmd = op[q].cmd
    BY <1>3 DEF SInv, TypeOK, Start
  <2>2. imported \subseteq imported' BY <1>1
  <2> QED BY <2>1, <2>2, <1>2, PassedKept DEF SInv
<1> QED BY <1>5, <1>6, <1>7 DEF SInv

-----------------------------------------------------------------------------
LEMMA SInvInit == Init => SInv
<1> SUFFICES ASSUME Init PROVE SInv OBVIOUS
<1> USE Shapes
<1>1. Closed \in Start BY SMT DEF Closed, Start, Commands
<1>2. TypeOK BY <1>1 DEF Init, TypeOK
<1>3. \A x \in Objects : ~(x[1] < 1) BY ObjectFacts, SMT DEF Versions
<1>4. \A p \in Proc : Counters(p) /\ Passed(p)
  BY <1>3 DEF Init, Counters, Passed, Closed
<1> QED BY <1>2, <1>4 DEF Init, SInv, Applied

LEMMA SInvStep == SInv /\ [Next]_vars => SInv'
<1> SUFFICES ASSUME SInv, [Next]_vars PROVE SInv' OBVIOUS
<1>1. CASE UNCHANGED vars
  BY <1>1 DEF vars, SInv, TypeOK, Applied, Counters, Passed
<1>2. ASSUME NEW p \in Proc, NEW cmd \in Commands, Begin(p, cmd) PROVE SInv'
  BY <1>2, BeginKeeps
<1>3. ASSUME NEW p \in Proc, Continue(p) PROVE SInv'
  BY <1>3, RepoKeeps, StoreCreatesKeeps, CheckVersionKeeps, StatementKeeps,
     RecordVersionKeeps DEF Continue
<1>4. ASSUME NEW p \in Proc, Close(p) \/ Crash(p) \/ Restore(p) PROVE SInv'
  BY <1>4, EndsKeep, RestoreKeeps
<1> QED BY <1>1, <1>2, <1>3, <1>4 DEF Next

LEMMA SInvAlways == Spec => []SInv
BY SInvInit, SInvStep, PTL DEF Spec

(* The types, for every migration table and any number of processes.       *)
THEOREM TypeCorrect == Spec => []TypeOK
<1>1. SInv => TypeOK BY DEF SInv
<1> QED BY <1>1, SInvAlways, PTL

(* Whatever overlaps, dies or is restored, a recorded version has all its  *)
(* tables and columns, unless a restored file recorded it before it was    *)
(* applied here.                                                           *)
THEOREM RecordedIsAppliedAlways == Spec => []RecordedIsApplied
<1>1. SInv => RecordedIsApplied BY DEF SInv, Applied, RecordedIsApplied, ObjectsOf
<1> QED BY <1>1, SInvAlways, PTL

(* A process whose core store is open works on the complete schema, up to  *)
(* the versions that a restored file recorded before they were applied.    *)
THEOREM OpenStoreIsCompleteAlways == Spec => []OpenStoreIsComplete
<1>1. SInv => OpenStoreIsComplete
  <2> SUFFICES ASSUME SInv, NEW p \in Proc, op[p].step = "ready", op[p].cmd # "repository",
                      NEW o \in Objects
               PROVE  o \in objects \/ o[1] \in imported
    BY DEF OpenStoreIsComplete
  <2>1. op[p].v = Len(Migrations) + 1 /\ Passed(p) BY DEF SInv, Counters
  <2>2. o[1] < op[p].v BY <2>1, ObjectFacts, Shapes, SMT DEF Versions
  <2> QED BY <2>1, <2>2 DEF Passed
<1> QED BY <1>1, SInvAlways, PTL

-----------------------------------------------------------------------------
(* A start that is still alone has no other beside it, its version is not  *)
(* recorded by anybody else, and it has not failed on a sound database.    *)
Solo(p) ==
    op[p].alone =>
      /\ \A q \in Proc \ {p} : ~Active(q)
      /\ op[p].step \in {"statement", "record"} => op[p].v \notin rows
      /\ broken = {} => op[p].step # "failed"

Owned == broken = {} => \A o \in Added \cap objects :
            o[1] \in rows \/ \E p \in Proc : o \in Pending(p)

OInv == SInv /\ Owned /\ \A p \in Proc : Solo(p)

(* An action that writes the start of p and takes no row back keeps every  *)
(* column owned, if p keeps or records what it owned and every new column  *)
(* is owned.                                                               *)
LEMMA OwnedKept ==
    ASSUME OInv, NEW p \in Proc, NEW e, op' = [op EXCEPT ![p] = e],
           broken' = {} => broken = {}, rows \subseteq rows',
           broken' = {} => \A o \in Added \cap objects' : o \notin objects =>
                 o[1] \in rows' \/ o \in Pending(p)',
           broken' = {} => \A o \in Pending(p) : o[1] \in rows' \/ o \in Pending(p)'
    PROVE  Owned'
<1> SUFFICES ASSUME broken' = {}, NEW o \in Added \cap objects', o[1] \notin rows'
             PROVE  \E q \in Proc : o \in Pending(q)'
  BY DEF Owned
<1>1. CASE o \notin objects BY <1>1
<1>2. CASE o \in objects
  <2>1. PICK q \in Proc : o \in Pending(q) BY <1>2 DEF OInv, Owned
  <2>2. CASE q = p BY <2>1, <2>2
  <2>3. CASE q # p
    <3>1. op'[q] = op[q] BY <2>3 DEF OInv, SInv, TypeOK
    <3>2. Pending(q)' = Pending(q) BY <3>1 DEF Pending
    <3> QED BY <2>1, <3>2
  <2> QED BY <2>2, <2>3
<1> QED BY <1>1, <1>2

(* The other starts stay solo when p, which is opening, goes on.           *)
LEMMA SoloKept ==
    ASSUME OInv, NEW p \in Proc, NEW e, op' = [op EXCEPT ![p] = e],
           Active(p), broken' = {} => broken = {}, Solo(p)'
    PROVE  \A q \in Proc : Solo(q)'
<1> SUFFICES ASSUME NEW q \in Proc, q # p PROVE Solo(q)'
  OBVIOUS
<1>1. op'[q] = op[q] BY DEF OInv, SInv, TypeOK
<1>2. ~op[q].alone BY DEF OInv, Solo
<1> QED BY <1>1, <1>2 DEF Solo

LEMMA BeginOwned ==
    ASSUME OInv, NEW p \in Proc, NEW cmd \in Commands, Begin(p, cmd)
    PROVE  Owned' /\ \A q \in Proc : Solo(q)'
<1>1. /\ op[p].step = "closed" /\ UNCHANGED <<objects, rows, broken>>
      /\ op' = [q \in Proc |->
                IF q = p THEN [step |-> IF cmd = "store" THEN "core" ELSE "repo",
                               cmd |-> cmd, v |-> 1, i |-> 1,
                               alone |-> \A r \in Proc : ~Active(r)]
                ELSE [op[q] EXCEPT !.alone = FALSE]]
  BY DEF Begin
<1>2. ASSUME NEW q \in Proc, q # p
      PROVE  ~op'[q].alone /\ op'[q].step = op[q].step /\ op'[q].v = op[q].v /\ op'[q].i = op[q].i
  BY <1>1, <1>2 DEF OInv, SInv, TypeOK, Start
<1>3. op'[p].step \in {"core", "repo"} /\ op'[p].alone = (\A r \in Proc : ~Active(r))
  BY <1>1
<1>4. Owned'
  <2> SUFFICES ASSUME broken' = {}, NEW o \in Added \cap objects', o[1] \notin rows'
               PROVE  \E q \in Proc : o \in Pending(q)'
    BY DEF Owned
  <2>1. PICK q \in Proc : o \in Pending(q) BY <1>1 DEF OInv, Owned
  <2>2. q # p BY <2>1, <1>1 DEF Pending
  <2>3. Pending(q)' = Pending(q) BY <2>2, <1>2 DEF Pending
  <2> QED BY <2>1, <2>3
<1>5. ASSUME NEW q \in Proc, q # p PROVE Solo(q)'
  BY <1>5, <1>2 DEF Solo
<1>6. Solo(p)'
  BY <1>2, <1>3 DEF Solo, Active
<1> QED BY <1>4, <1>5, <1>6

LEMMA BaseOwned ==
    ASSUME OInv, NEW p \in Proc, RepoCreates(p) \/ RecordBaseline(p) \/ StoreCreates(p)
    PROVE  Owned' /\ \A q \in Proc : Solo(q)'
<1>1. /\ op[p] \in Start /\ op[p].step \in {"repo", "baseline", "core"} /\ Active(p)
      /\ rows \subseteq rows' /\ (broken' = {} => broken = {})
  BY DEF RepoCreates, RecordBaseline, StoreCreates, OInv, SInv, TypeOK, Active, Opening
<1>2. broken' = {} => \A o \in Added \cap objects' : o \in objects
  BY DEF RepoCreates, RecordBaseline, StoreCreates
<1>3. Pending(p) = {} BY <1>1 DEF Pending
<1>4. PICK e \in {f \in Start : f.alone = op[p].alone /\ f.step \in {"repo", "baseline", "core", "check", "ready"}} :
         op' = [op EXCEPT ![p] = e]
  <2>0. op'[p] \in Start
    BY RepoKeeps, StoreCreatesKeeps DEF OInv, SInv, TypeOK
  <2>1. CASE RepoCreates(p)
    <3>1. op' = [op EXCEPT ![p] = op'[p]] /\ op'[p].alone = op[p].alone /\ op'[p].step \in {"baseline", "repo"}
      BY <2>1, <1>1 DEF RepoCreates, OInv, SInv, TypeOK, Start
    <3> QED BY <3>1, <2>0
  <2>2. CASE RecordBaseline(p)
    <3>1. op' = [op EXCEPT ![p] = op'[p]] /\ op'[p].alone = op[p].alone /\ op'[p].step \in {"core", "ready"}
      BY <2>2, <1>1 DEF RecordBaseline, Go, OInv, SInv, TypeOK, Start
    <3> QED BY <3>1, <2>0
  <2>3. CASE StoreCreates(p)
    <3>1. op' = [op EXCEPT ![p] = op'[p]] /\ op'[p].alone = op[p].alone /\ op'[p].step \in {"core", "check"}
      BY <2>3, <1>1 DEF StoreCreates, OInv, SInv, TypeOK, Start
    <3> QED BY <3>1, <2>0
  <2> QED BY <2>1, <2>2, <2>3
<1>5. Owned' BY <1>1, <1>2, <1>3, <1>4, OwnedKept
<1>6. op'[p] = e /\ \A q \in Proc \ {p} : op'[q] = op[q]
  BY <1>4 DEF OInv, SInv, TypeOK
<1>7. Solo(p)' BY <1>1, <1>4, <1>6 DEF OInv, Solo, Active
<1> QED BY <1>1, <1>4, <1>5, <1>7, SoloKept

(* What giving up or going on does to the start of p.                      *)
LEMMA OpStep ==
    ASSUME SInv, NEW p \in Proc, SInv',
           \/ CheckVersion(p) \/ Statement(p) \/ RecordVersion(p) \/ Close(p) \/ Crash(p)
    PROVE  op' = [op EXCEPT ![p] = op'[p]] /\ op'[p] \in Start /\ op[p] \in Start
<1>1. op \in [Proc -> Start] /\ op' \in [Proc -> Start] BY DEF SInv, TypeOK
<1>2. \A q \in Proc \ {p} : op'[q] = op[q]
  BY <1>1 DEF CheckVersion, Statement, RecordVersion, Close, Crash, Fails, Go
<1> QED BY <1>1, <1>2

LEMMA CheckOwned ==
    ASSUME OInv, NEW p \in Proc, CheckVersion(p)
    PROVE  Owned' /\ \A q \in Proc : Solo(q)'
<1>1. op' = [op EXCEPT ![p] = op'[p]] /\ op[p] \in Start
  BY OpStep, CheckVersionKeeps DEF OInv
<1>2. /\ op[p].step = "check" /\ Active(p)
      /\ UNCHANGED <<objects, rows, broken>>
  BY DEF CheckVersion, Active, Opening
<1>3. Pending(p) = {} BY <1>2 DEF Pending
<1>4. Owned' BY <1>1, <1>2, <1>3, OwnedKept
<1>5. op'[p].alone = op[p].alone /\ op'[p].step # "failed"
      /\ (op'[p].step \in {"statement", "record"} => op'[p].v \notin rows)
  <2>1. CASE Go(p, "ready") BY <2>1, <1>1 DEF Go, Start, OInv, SInv, TypeOK
  <2>2. CASE op' = [op EXCEPT ![p].v = @ + 1]
    BY <2>2, <1>2, <1>1 DEF Start, OInv, SInv, TypeOK
  <2>3. CASE op[p].v \in Versions \ rows /\ op' = [op EXCEPT ![p].i = 1,
                ![p].step = IF Migrations[op[p].v] = <<>> THEN "record" ELSE "statement"]
    BY <2>3, <1>1 DEF Start, OInv, SInv, TypeOK
  <2> QED BY <2>1, <2>2, <2>3 DEF CheckVersion
<1>6. \A q \in Proc \ {p} : op'[q] = op[q] BY <1>1 DEF OInv, SInv, TypeOK
<1>7. Solo(p)' BY <1>5, <1>6, <1>2 DEF OInv, Solo, Active
<1> QED BY <1>1, <1>2, <1>4, <1>7, SoloKept

LEMMA StatementOwned ==
    ASSUME OInv, NEW p \in Proc, Statement(p)
    PROVE  Owned' /\ \A q \in Proc : Solo(q)'
<1> DEFINE o == <<op[p].v, op[p].i>>
<1>1. op' = [op EXCEPT ![p] = op'[p]] /\ op[p] \in Start /\ op'[p] \in Start
  BY OpStep, StatementKeeps DEF OInv
<1>2. /\ op[p].step = "statement" /\ Active(p) /\ UNCHANGED <<rows, broken>>
      /\ op[p].v \in Versions /\ op[p].i \in 1 .. Len(Migrations[op[p].v])
  BY DEF Statement, Active, Opening, Fails, OInv, SInv, Counters
<1>3. \A q \in Proc \ {p} : op'[q] = op[q] BY <1>1 DEF OInv, SInv, TypeOK
<1>4. CASE o \in objects /\ o \in Added
  <2>1. objects' = objects /\ op' = [op EXCEPT ![p].step = "failed"]
    BY <1>4 DEF Statement, Fails, Go
  <2>2. ASSUME broken = {} PROVE \/ o[1] \in rows
                                \/ \E q \in Proc \ {p} : o \in Pending(q)
    <3>1. o \notin Pending(p) BY <1>2, SMT DEF Pending
    <3> QED BY <1>4, <2>2, <3>1 DEF OInv, Owned
  <2>3. Owned'
    <3> SUFFICES ASSUME broken' = {}, NEW x \in Added \cap objects', x[1] \notin rows'
                 PROVE  \E q \in Proc : x \in Pending(q)'
      BY DEF Owned
    <3>1. PICK q \in Proc : x \in Pending(q) BY <1>2, <2>1 DEF OInv, Owned
    <3>2. CASE q # p
      <4>1. Pending(q)' = Pending(q) BY <3>2, <1>3 DEF Pending
      <4> QED BY <3>1, <4>1
    <3>3. CASE q = p
      <4>1. x[1] = op[p].v /\ x[2] < op[p].i BY <3>1, <3>3, <1>2 DEF Pending
      <4>2. o[1] = x[1] BY <4>1
      <4>3. PICK r \in Proc \ {p} : o \in Pending(r)
        BY <2>2, <4>1, <4>2, <1>2
      <4>4. x \in Pending(r)
        <5>1. x \in Objects BY DEF Added
        <5>2. x[2] \in Nat BY <5>1, ObjectFacts, Shapes, SMT
        <5>3. op[r].i \in Nat /\ op[p].i \in Nat BY DEF OInv, SInv, TypeOK, Start
        <5>4. op[p].i < op[r].i => x[2] < op[r].i BY <4>1, <5>2, <5>3, SMT
        <5> QED BY <4>1, <4>3, <5>4 DEF Pending
      <4>5. Pending(r)' = Pending(r) BY <1>3 DEF Pending
      <4> QED BY <4>4, <4>5
    <3> QED BY <3>2, <3>3
  <2>4. Solo(p)'
    <3>1. op'[p].alone = op[p].alone /\ op'[p].step = "failed" /\ op'[p].v = op[p].v
      BY <2>1, <1>1 DEF Start, OInv, SInv, TypeOK
    <3>2. ASSUME op[p].alone, broken = {} PROVE FALSE
      <4>1. o[1] \notin rows BY <3>2, <1>2 DEF OInv, Solo
      <4>2. PICK q \in Proc \ {p} : o \in Pending(q) BY <2>2, <3>2, <4>1
      <4>3. Active(q) BY <4>2 DEF Pending, Active, Opening
      <4> QED BY <3>2, <4>2, <4>3 DEF OInv, Solo
    <3> QED BY <3>1, <3>2, <1>2, <1>3 DEF OInv, Solo, Active
  <2> QED BY <1>1, <1>2, <2>3, <2>4, SoloKept
<1>5. CASE ~(o \in objects /\ o \in Added)
  <2> DEFINE st == IF op[p].i = Len(Migrations[op[p].v]) THEN "record" ELSE "statement"
  <2>1. objects' = objects \cup {o} /\ op' = [op EXCEPT ![p].i = @ + 1, ![p].step = st]
    BY <1>5 DEF Statement
  <2>2. op'[p].step = st /\ op'[p].i = op[p].i + 1 /\ op'[p].v = op[p].v /\ op'[p].alone = op[p].alone
    <3> HIDE DEF st
    <3> QED BY <2>1, <1>1 DEF Start, OInv, SInv, TypeOK
  <2>3. st \in {"record", "statement"} OBVIOUS
  <2>4. ASSUME NEW x \in Added, x \in Pending(p) \/ x = o PROVE x \in Pending(p)'
    <3>1. x \in Objects BY DEF Added
    <3>2. x[2] \in Nat BY <3>1, ObjectFacts, Shapes, SMT
    <3>3. x[1] = op[p].v /\ x[2] < op[p].i + 1
      BY <2>4, <3>2, <1>2, <1>1, SMT DEF Pending, Start
    <3> QED BY <2>2, <2>3, <3>3 DEF Pending
  <2>5. \A x \in Pending(p) : x \in Pending(p)' BY <2>4 DEF Pending
  <2>6. \A x \in Added \cap objects' : x \notin objects => x \in Pending(p)'
    BY <2>1, <2>4
  <2>7. Owned' BY <1>1, <1>2, <2>5, <2>6, OwnedKept
  <2>8. Solo(p)' BY <2>2, <2>3, <1>2, <1>3 DEF OInv, Solo, Active
  <2> QED BY <1>1, <1>2, <2>7, <2>8, SoloKept
<1> QED BY <1>4, <1>5

LEMMA RecordOwned ==
    ASSUME OInv, NEW p \in Proc, RecordVersion(p)
    PROVE  Owned' /\ \A q \in Proc : Solo(q)'
<1>1. op' = [op EXCEPT ![p] = op'[p]] /\ op[p] \in Start
  BY OpStep, RecordVersionKeeps DEF OInv
<1>2. op[p].step = "record" /\ Active(p) /\ UNCHANGED <<objects, broken>>
      /\ rows' = rows \cup {op[p].v}
  BY DEF RecordVersion, Fails, Active, Opening
<1>3. \A q \in Proc \ {p} : op'[q] = op[q] BY <1>1 DEF OInv, SInv, TypeOK
<1>4. \A x \in Pending(p) : x[1] \in rows' BY <1>2 DEF Pending
<1>5. Owned' BY <1>1, <1>2, <1>4, OwnedKept
<1>6. Solo(p)'
  <2>1. CASE op[p].v \in rows
    <3>1. op' = [op EXCEPT ![p].step = "failed"] BY <2>1 DEF RecordVersion, Fails, Go
    <3>2. op'[p].alone = op[p].alone BY <3>1, <1>1 DEF Start, OInv, SInv, TypeOK
    <3>3. ~op[p].alone BY <2>1, <1>2 DEF OInv, Solo
    <3> QED BY <3>2, <3>3 DEF Solo
  <2>2. CASE op[p].v \notin rows
    <3>1. op'[p].alone = op[p].alone /\ op'[p].step = "check"
      BY <2>2, <1>1 DEF RecordVersion, Start, OInv, SInv, TypeOK
    <3> QED BY <3>1, <1>2, <1>3 DEF OInv, Solo, Active
  <2> QED BY <2>1, <2>2
<1> QED BY <1>1, <1>2, <1>5, <1>6, SoloKept

LEMMA EndsOwned ==
    ASSUME OInv, NEW p \in Proc, Close(p) \/ Crash(p)
    PROVE  Owned' /\ \A q \in Proc : Solo(q)'
<1>1. op' = [op EXCEPT ![p] = Closed] /\ op \in [Proc -> Start]
  BY DEF Close, Crash, OInv, SInv, TypeOK
<1>2. UNCHANGED <<objects, rows>> /\ (broken' = {} => broken = {} /\ Pending(p) = {})
  BY DEF Close, Crash, Pending
<1>3. Owned' BY <1>1, <1>2, OwnedKept
<1>4. op'[p] = Closed /\ \A q \in Proc \ {p} : op'[q] = op[q] BY <1>1
<1>5. ~Active(p)' /\ ~op'[p].alone BY <1>4 DEF Active, Closed, Opening
<1>6. ASSUME NEW q \in Proc PROVE Solo(q)'
  <2>1. CASE q = p BY <1>5, <2>1 DEF Solo
  <2>2. CASE q # p
    <3>1. \A r \in Proc \ {q} : Active(r)' => Active(r) BY <1>4, <1>5 DEF Active
    <3> QED BY <2>2, <3>1, <1>2, <1>4 DEF OInv, Solo
  <2> QED BY <2>1, <2>2
<1> QED BY <1>3, <1>6

LEMMA RestoreOwned ==
    ASSUME OInv, NEW p \in Proc, Restore(p)
    PROVE  Owned' /\ \A q \in Proc : Solo(q)'
<1>1. \A q \in Proc : ~op'[q].alone /\ op'[q].step = op[q].step
                     /\ op'[q].v = op[q].v /\ op'[q].i = op[q].i
  BY DEF Restore, OInv, SInv, TypeOK, Start
<1>2. \A q \in Proc : Pending(q)' = Pending(q) BY <1>1 DEF Pending
<1>3. objects' = objects
      /\ (broken' = {} => broken = {} /\ \A o \in Added \cap objects : o[1] \in rows => o[1] \in rows')
  BY DEF Restore
<1>4. Owned' BY <1>2, <1>3 DEF OInv, Owned
<1> QED BY <1>1, <1>4 DEF Solo

LEMMA OInvAlways == Spec => []OInv
<1>1. Init => OInv
  BY SInvInit DEF Init, OInv, Owned, Solo, Closed
<1>2. OInv /\ [Next]_vars => OInv'
  <2> SUFFICES ASSUME OInv, [Next]_vars PROVE OInv' OBVIOUS
  <2>1. SInv' BY SInvStep DEF OInv
  <2>2. CASE UNCHANGED vars
    BY <2>1, <2>2 DEF vars, OInv, Owned, Solo, Pending, Active
  <2>3. ASSUME NEW p \in Proc, NEW cmd \in Commands, Begin(p, cmd) PROVE OInv'
    BY <2>1, <2>3, BeginOwned DEF OInv
  <2>4. ASSUME NEW p \in Proc, Continue(p) PROVE OInv'
    BY <2>1, <2>4, BaseOwned, CheckOwned, StatementOwned, RecordOwned DEF OInv, Continue
  <2>5. ASSUME NEW p \in Proc, Close(p) \/ Crash(p) \/ Restore(p) PROVE OInv'
    BY <2>1, <2>5, EndsOwned, RestoreOwned DEF OInv
  <2> QED BY <2>2, <2>3, <2>4, <2>5 DEF Next
<1> QED BY <1>1, <1>2, PTL DEF Spec

(* On a sound database every column added and not recorded belongs to a    *)
(* process about to record it: overlapping starts do not lock the database.*)
THEOREM AddedColumnHasOwnerAlways == Spec => []AddedColumnHasOwner
<1>1. OInv => AddedColumnHasOwner BY DEF OInv, Owned, AddedColumnHasOwner
<1> QED BY <1>1, OInvAlways, PTL

(* A start that nothing overlaps succeeds on a sound database.             *)
THEOREM SoloStartSucceedsAlways == Spec => []SoloStartSucceeds
<1>1. OInv => SoloStartSucceeds BY DEF OInv, Solo, SoloStartSucceeds
<1> QED BY <1>1, OInvAlways, PTL
=============================================================================
