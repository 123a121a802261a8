-------------------------- MODULE RuntimeUsageProofs --------------------------
(***************************************************************************)
(* Proofs about RuntimeUsage.                                              *)
(***************************************************************************)
EXTENDS RuntimeUsage, TLAPS

-----------------------------------------------------------------------------
(***************************************************************************)
(* The inductive invariant.                                                *)
(***************************************************************************)
\* Users of the server have a name; no snapshot and no answer is of an instance
\* that has not run yet.
UsersNamed == \A u \in access : name[u] # None

InstancesKnown ==
    /\ \A u \in DOMAIN snapshot : snapshot[u].of <= Running
    /\ poll.of <= Running
    /\ poll.pc # "idle" => poll.of # 0

\* The running configuration has each user under one name.
OneNameEach ==
    \A m, n \in Names : serves[m] = serves[n] /\ serves[m] # None => m = n

TypeInv == TypeOK /\ UsersNamed /\ InstancesKnown /\ OneNameEach

\* The snapshot of u knows that c bytes of its count in instance i are credited.
Footing(u, i, c) ==
    /\ c # 0 => /\ u \in DOMAIN snapshot
                /\ snapshot[u].of = i
                /\ snapshot[u].instance \in {None, pids[i]}
    /\ u \in DOMAIN snapshot /\ snapshot[u].of = i => snapshot[u].bytes = c

\* What is credited, with what the running instance counted and is not covered,
\* has been transferred.
Credited(u) ==
    /\ used[u] <= actual[u]
    /\ \A n \in Names : serves[n] = u =>
          covered[u] <= counter[n] /\ used[u] + counter[n] <= actual[u] + covered[u]

\* The answer under way, when the instance that gave it still runs.
AnswerOfRunning(u) ==
    /\ poll.base[u] = covered[u]
    /\ \A n \in Names : poll.serves[n] = u =>
          serves[n] = u /\ poll.stats[n] <= counter[n]

\* The answer under way, when the service has restarted since.
AnswerOfEarlier(u) ==
    /\ covered[u] = 0
    /\ \A n \in Names : poll.serves[n] = u =>
          /\ used[u] + poll.stats[n] <= actual[u] + poll.base[u]
          /\ \A m \in Names : serves[m] = u =>
                used[u] + poll.stats[n] + counter[m] <= actual[u] + poll.base[u]

Answered(u) ==
    poll.pc # "idle" =>
        /\ \A n \in Names : poll.serves[n] = u => poll.base[u] <= poll.stats[n]
        /\ IF poll.of = Running THEN AnswerOfRunning(u) ELSE AnswerOfEarlier(u)

Founded(u) ==
    /\ Footing(u, Running, covered[u])
    /\ poll.pc # "idle" => Footing(u, poll.of, poll.base[u])

IInv == \A u \in Users \ doubtful : Credited(u) /\ Answered(u) /\ Founded(u)

-----------------------------------------------------------------------------
(***************************************************************************)
(* Types.                                                                  *)
(***************************************************************************)
LEMMA TypeInit == Init => TypeInv
  <1> SUFFICES ASSUME Init PROVE TypeInv
    OBVIOUS
  <1>1. TypeOK
    BY NamesAssumption DEF Init, TypeOK, NoPoll, Poll, Config
  <1>2. UsersNamed /\ InstancesKnown /\ OneNameEach
    BY DEF Init, UsersNamed, InstancesKnown, OneNameEach, NoPoll, Running
  <1> QED
    BY <1>1, <1>2 DEF TypeInv

\* A start appends an instance; the earlier ones keep their MainPID.
LEMMA InstancesStay ==
  ASSUME TypeInv, Restart
  PROVE  /\ pids' \in Seq(Pids)
         /\ Running \in Nat /\ Running' = Running + 1
         /\ \A i \in 1..Running : pids'[i] = pids[i]
  BY DEF Restart, Running, TypeInv, TypeOK

\* runtimeUsageDelta yields no negative amount.
LEMMA DeltaIsNat ==
  ASSUME TypeInv, NEW u \in access
  PROVE  Current(u) \in Nat /\ Delta(u) \in Nat
  <1>1. name[u] \in Names
    BY DEF TypeInv, TypeOK, UsersNamed
  <1>2. poll.stats[name[u]] \in Nat
    BY <1>1 DEF TypeInv, TypeOK, Poll
  <1>3. u \in DOMAIN snapshot => snapshot[u].bytes \in Nat
    BY DEF TypeInv, TypeOK
  <1>4. Current(u) \in Nat
    BY <1>2, <1>3 DEF Current, Counted
  <1>5. u \in DOMAIN snapshot => CounterDelta(snapshot[u].bytes, Current(u)) \in Nat
    BY <1>3, <1>4 DEF CounterDelta
  <1> QED
    BY <1>4, <1>5 DEF Delta

\* A configuration that is rendered lists every user under one name.
LEMMA RenderedNames ==
  ASSUME TypeInv, NEW n \in Names, Rendered(name, access)[n] # None
  PROVE  Rendered(name, access)[n] \in access /\ name[Rendered(name, access)[n]] = n
  BY DEF Rendered

LEMMA RenderedConfig ==
  ASSUME TypeInv
  PROVE  Rendered(name, access) \in Config
  BY RenderedNames DEF Rendered, Config, TypeInv, TypeOK

LEMMA TypeStep == TypeInv /\ [Next]_vars => TypeInv'
  <1> SUFFICES ASSUME TypeInv, [Next]_vars PROVE TypeInv'
    OBVIOUS
  <1> USE DEF TypeInv
  <1>1. ASSUME NEW n \in Names, Traffic(n) PROVE TypeInv'
    <2>1. serves[n] \in Users
      BY <1>1 DEF Traffic, TypeOK, Config
    <2>2. counter' \in [Names -> Nat] /\ actual' \in [Users -> Nat]
      BY <1>1, <2>1 DEF Traffic, TypeOK
    <2>3. TypeOK'
      BY <1>1, <2>2 DEF Traffic, TypeOK, database
    <2> QED
      BY <1>1, <2>3 DEF Traffic, database, UsersNamed, InstancesKnown, OneNameEach, Running
  <1>2. CASE Restart
    <2>1. serves' \in Config
      BY <1>2, RenderedConfig DEF Restart, TypeOK
    <2>2. pids' \in Seq(Pids) /\ Running \in Nat /\ Running' = Running + 1
      BY <1>2, InstancesStay
    <2>3. TypeOK'
      BY <1>2, <2>1, <2>2 DEF Restart, TypeOK, database
    <2>4. OneNameEach'
      <3>1. CASE serves' = serves
        BY <3>1 DEF OneNameEach
      <3>2. CASE serves' = Rendered(name, access)
        BY <3>2, RenderedNames DEF OneNameEach
      <3> QED
        BY <1>2, <3>1, <3>2 DEF Restart
    <2>5. UsersNamed'
      BY <1>2 DEF Restart, UsersNamed, database
    <2>6. InstancesKnown'
      BY <1>2, <2>2 DEF Restart, InstancesKnown, database, TypeOK, Poll
    <2> QED
      BY <2>3, <2>4, <2>5, <2>6
  <1>3. ASSUME NEW u \in Users, CreateUser(u) \/ RenameUser(u) \/ ChangeAccess(u) \/ DeleteUser(u)
        PROVE TypeInv'
    <2>1. CASE CreateUser(u)
      <3>1. TypeOK'
        BY <2>1 DEF CreateUser, Free, TypeOK, host
      <3>2. UsersNamed'
        BY <2>1, NamesAssumption DEF CreateUser, Free, UsersNamed, TypeOK
      <3> QED
        BY <2>1, <3>1, <3>2 DEF CreateUser, host, InstancesKnown, OneNameEach, Running
    <2>2. CASE RenameUser(u)
      <3>1. TypeOK'
        BY <2>2 DEF RenameUser, Free, TypeOK, host
      <3>2. UsersNamed'
        BY <2>2, NamesAssumption DEF RenameUser, Free, UsersNamed, TypeOK
      <3> QED
        BY <2>2, <3>1, <3>2 DEF RenameUser, host, InstancesKnown, OneNameEach, Running
    <2>3. CASE ChangeAccess(u)
      <3>1. TypeOK' /\ UsersNamed'
        BY <2>3 DEF ChangeAccess, TypeOK, UsersNamed, host
      <3> QED
        BY <2>3, <3>1 DEF ChangeAccess, host, InstancesKnown, OneNameEach, Running
    <2>4. CASE DeleteUser(u)
      <3>1. TypeOK'
        BY <2>4 DEF DeleteUser, TypeOK, host
      <3>2. UsersNamed'
        BY <2>4 DEF DeleteUser, UsersNamed, TypeOK
      <3> QED
        BY <2>4, <3>1, <3>2 DEF DeleteUser, host, InstancesKnown, OneNameEach, Running
    <2> QED
      BY <1>3, <2>1, <2>2, <2>3, <2>4
  <1>4. CASE Query
    <2>1. poll' \in Poll
      BY <1>4, NamesAssumption DEF Query, TypeOK, Poll, Running
    <2>2. TypeOK'
      BY <1>4, <2>1 DEF Query, TypeOK, database, host
    <2>3. InstancesKnown'
      BY <1>4 DEF Query, InstancesKnown, TypeOK, database, host, Running
    <2> QED
      BY <1>4, <2>2, <2>3 DEF Query, database, host, UsersNamed, OneNameEach
  <1>5. CASE ReadInstance
    <2>1. poll' \in Poll /\ poll'.of = poll.of /\ poll.pc # "idle"
      <3>1. PICK i \in {None, pids[Running]} :
               poll' = [poll EXCEPT !.pc = "sync", !.instance = i]
        BY <1>5 DEF ReadInstance
      <3>2. Running \in Nat \ {0}
        BY <1>5 DEF ReadInstance, InstancesKnown, Running, TypeOK, Poll
      <3>3. poll \in Poll /\ i \in Pids \cup {None} /\ poll.pc # "idle"
        BY <1>5, <3>1, <3>2 DEF ReadInstance, Running, TypeOK
      <3> QED
        BY <3>1, <3>3 DEF Poll
    <2>2. TypeOK'
      BY <1>5, <2>1 DEF ReadInstance, TypeOK, database, host
    <2>3. InstancesKnown'
      BY <1>5, <2>1 DEF ReadInstance, InstancesKnown, TypeOK, database, host, Running
    <2> QED
      BY <1>5, <2>2, <2>3 DEF ReadInstance, database, host, UsersNamed, OneNameEach
  <1>6. CASE Sync
    <2>1. poll' \in Poll
      BY <1>6, NamesAssumption DEF Sync, NoPoll, Poll, Config
    <2>2. used' \in [Users -> Nat]
      BY <1>6, DeltaIsNat DEF Sync, TypeOK
    <2>3. snapshot' \in [access -> [instance : Pids \cup {None}, bytes : Nat, of : Nat]]
      BY <1>6, DeltaIsNat DEF Sync, TypeOK, Poll
    <2>4. covered' \in [Users -> Nat]
      <3>1. \A u \in access : poll.stats[name[u]] \in Nat
        BY DEF TypeOK, Poll, UsersNamed
      <3> QED
        BY <1>6, <3>1 DEF Sync, TypeOK
    <2>5. TypeOK'
      BY <1>6, <2>1, <2>2, <2>3, <2>4 DEF Sync, TypeOK, host
    <2>6. InstancesKnown'
      BY <1>6 DEF Sync, InstancesKnown, host, NoPoll, TypeOK, Running
    <2> QED
      BY <1>6, <2>5, <2>6 DEF Sync, host, UsersNamed, OneNameEach
  <1>7. CASE PollFails
    <2>1. poll' \in Poll
      BY <1>7, NamesAssumption DEF PollFails, NoPoll, Poll, Config
    <2>2. TypeOK'
      BY <1>7, <2>1 DEF PollFails, TypeOK, database, host
    <2>3. InstancesKnown'
      BY <1>7 DEF PollFails, InstancesKnown, NoPoll, TypeOK, database, host, Running
    <2> QED
      BY <1>7, <2>2, <2>3 DEF PollFails, database, host, UsersNamed, OneNameEach
  <1>8. CASE UNCHANGED vars
    BY <1>8 DEF vars, TypeOK, UsersNamed, InstancesKnown, OneNameEach, Running
  <1> QED
    BY <1>1, <1>2, <1>3, <1>4, <1>5, <1>6, <1>7, <1>8 DEF Next, Operator

LEMMA TypeAlways == Spec => []TypeInv
  BY TypeInit, TypeStep, PTL DEF Spec

\* Every variable keeps its type; no amount credited is negative.
THEOREM TypeCorrect == Spec => []TypeOK
  <1>1. TypeInv => TypeOK
    BY DEF TypeInv
  <1> QED
    BY TypeAlways, <1>1, PTL

-----------------------------------------------------------------------------
(***************************************************************************)
(* The accounting.                                                         *)
(***************************************************************************)
LEMMA AccountingInit == Init => IInv
  <1> SUFFICES ASSUME Init, NEW u \in Users
               PROVE  Credited(u) /\ Answered(u) /\ Founded(u)
    BY DEF IInv
  <1>1. Credited(u)
    BY NamesAssumption DEF Init, Credited
  <1>2. Answered(u) /\ Founded(u)
    BY DEF Init, Answered, Founded, Footing, NoPoll
  <1> QED
    BY <1>1, <1>2

\* What a poll credits a user that keeps its footing: what the instance that
\* answered counted under the name of the user and is not covered yet, or
\* nothing when it has no counter for the name.
LEMMA SyncGain ==
  ASSUME TypeInv, IInv, Sync, NEW u \in access, u \notin doubtful'
  PROVE  /\ poll.instance \in {None, pids[poll.of]}
         /\ Counted(u) => /\ poll.serves[name[u]] = u
                          /\ Delta(u) <= poll.stats[name[u]] - poll.base[u]
                          /\ Current(u) = poll.stats[name[u]]
         /\ ~Counted(u) => Delta(u) = 0
  <1> DEFINE n == name[u]
  <1>1. n \in Names /\ u \in Users
    BY DEF TypeInv, TypeOK, UsersNamed
  <1>2. poll.stats[n] \in Nat /\ poll.base[u] \in Nat
    BY <1>1 DEF TypeInv, TypeOK, Poll
  <1>3. u \in DOMAIN snapshot => snapshot[u].bytes \in Nat
    BY DEF TypeInv, TypeOK
  <1>4. u \notin doubtful /\ ~LosesFooting(u) /\ poll.pc = "sync"
    BY <1>1 DEF Sync
  <1>6. Footing(u, poll.of, poll.base[u])
    BY <1>1, <1>4 DEF IInv, Founded
  <1>7. poll.instance \in {None, pids[poll.of]}
    BY <1>4 DEF LosesFooting
  <1>8. ASSUME Counted(u)
        PROVE  /\ poll.serves[n] = u
               /\ Delta(u) <= poll.stats[n] - poll.base[u]
               /\ Current(u) = poll.stats[n]
    <2>1. poll.serves[n] = u
      BY <1>4, <1>8 DEF LosesFooting
    <2>2. poll.base[u] <= poll.stats[n]
      BY <1>1, <1>4, <2>1 DEF IInv, Answered
    <2>3. Current(u) = poll.stats[n]
      BY <1>8 DEF Current
    <2>4. CASE poll.base[u] = 0
      <3>1. u \in DOMAIN snapshot =>
              CounterDelta(snapshot[u].bytes, Current(u)) <= poll.stats[n]
        BY <1>2, <1>3, <2>3 DEF CounterDelta
      <3>2. Delta(u) <= poll.stats[n]
        BY <1>2, <2>3, <3>1 DEF Delta
      <3> QED
        BY <1>2, <2>1, <2>3, <2>4, <3>2
    <2>5. CASE poll.base[u] # 0
      <3>1. /\ u \in DOMAIN snapshot
            /\ snapshot[u].instance \in {None, pids[poll.of]}
            /\ snapshot[u].bytes = poll.base[u]
        BY <1>6, <2>5 DEF Footing
      <3>2. Delta(u) = CounterDelta(snapshot[u].bytes, Current(u))
        BY <1>7, <3>1 DEF Delta, SameInstance
      <3>3. Delta(u) = poll.stats[n] - poll.base[u]
        BY <1>2, <2>2, <2>3, <3>1, <3>2 DEF CounterDelta
      <3> QED
        BY <1>2, <2>1, <2>3, <3>3
    <2> QED
      BY <2>1, <2>3, <2>4, <2>5
  <1>9. ASSUME ~Counted(u) PROVE Delta(u) = 0
    BY <1>2, <1>3, <1>9 DEF Current, Delta, CounterDelta, SameInstance
  <1> QED
    BY <1>7, <1>8, <1>9

\* The types of what the accounting of one user looks at.
LEMMA UserTypes ==
  ASSUME TypeInv, NEW u \in Users
  PROVE  /\ used[u] \in Nat /\ actual[u] \in Nat /\ covered[u] \in Nat
         /\ poll.base[u] \in Nat /\ poll.of \in Nat /\ Running \in Nat /\ poll.of <= Running
         /\ \A n \in Names : counter[n] \in Nat /\ poll.stats[n] \in Nat
         /\ u \in DOMAIN snapshot =>
               /\ snapshot[u].of \in Nat /\ snapshot[u].of <= Running
               /\ snapshot[u].bytes \in Nat
  BY DEF TypeInv, TypeOK, Poll, InstancesKnown, Running

LEMMA TrafficAccounting ==
  ASSUME TypeInv, NEW n \in Names, Traffic(n), NEW u \in Users,
         Credited(u), Answered(u), Founded(u)
  PROVE  Credited(u)' /\ Answered(u)' /\ Founded(u)'
  <1> USE UserTypes
  <1>1. /\ \A m \in Names : counter'[m] = IF m = n THEN counter[m] + 1 ELSE counter[m]
        /\ actual'[u] = IF serves[n] = u THEN actual[u] + 1 ELSE actual[u]
    BY DEF Traffic, TypeInv, TypeOK
  <1>2. UNCHANGED <<used, snapshot, serves, pids, Running, poll, covered>>
    BY DEF Traffic, database, Running
  <1>3. Credited(u)'
    BY <1>1, <1>2 DEF Credited
  <1>4. Answered(u)'
    <2>1. CASE poll.of = Running
      BY <1>1, <1>2, <2>1 DEF Answered, AnswerOfRunning
    <2>2. CASE poll.of # Running
      BY <1>1, <1>2, <2>2 DEF Answered, AnswerOfEarlier
    <2> QED
      BY <2>1, <2>2
  <1>5. Founded(u)'
    BY <1>2 DEF Founded, Footing
  <1> QED
    BY <1>3, <1>4, <1>5

LEMMA RestartAccounting ==
  ASSUME TypeInv, Restart, NEW u \in Users, Credited(u), Answered(u), Founded(u)
  PROVE  Credited(u)' /\ Answered(u)' /\ Founded(u)'
  <1> USE UserTypes
  <1>1. /\ covered'[u] = 0 /\ \A m \in Names : counter'[m] = 0
        /\ UNCHANGED <<used, snapshot, poll, actual>>
    BY DEF Restart, database
  <1>5. Running' = Running + 1 /\ \A i \in 1..Running : pids'[i] = pids[i]
    BY InstancesStay
  <1>2. Credited(u)'
    BY <1>1 DEF Credited
  <1>3. Answered(u)'
    <2> SUFFICES ASSUME poll.pc # "idle" PROVE Answered(u)'
      BY <1>1 DEF Answered
    <2>1. \A n \in Names : poll.serves[n] = u =>
             used[u] + poll.stats[n] <= actual[u] + poll.base[u]
      <3>1. CASE poll.of = Running
        BY <3>1 DEF Answered, AnswerOfRunning, Credited
      <3>2. CASE poll.of # Running
        BY <3>2 DEF Answered, AnswerOfEarlier
      <3> QED
        BY <3>1, <3>2
    <2>2. AnswerOfEarlier(u)'
      BY <1>1, <2>1 DEF AnswerOfEarlier
    <2> QED
      BY <1>1, <1>5, <2>2 DEF Answered
  <1>4. Founded(u)'
    <2>1. Footing(u, Running, covered[u])'
      BY <1>1, <1>5 DEF Footing
    <2>2. poll.pc # "idle" => Footing(u, poll.of, poll.base[u])'
      <3>1. poll.pc # "idle" => poll.of \in 1..Running
        BY DEF TypeInv, InstancesKnown
      <3> QED
        BY <1>1, <1>5, <3>1 DEF Founded, Footing
    <2> QED
      BY <1>1, <2>1, <2>2 DEF Founded
  <1> QED
    BY <1>2, <1>3, <1>4

LEMMA PollAccounting ==
  ASSUME TypeInv, Query \/ ReadInstance \/ PollFails, NEW u \in Users,
         Credited(u), Answered(u), Founded(u)
  PROVE  Credited(u)' /\ Answered(u)' /\ Founded(u)'
  <1>1. UNCHANGED <<used, snapshot, serves, pids, Running, counter, actual, covered>>
    BY DEF Query, ReadInstance, PollFails, database, host, Running
  <1>2. Credited(u)'
    BY <1>1 DEF Credited
  <1>3. CASE Query
    <2>1. /\ poll'.of = Running /\ poll'.serves = serves
          /\ poll'.stats = counter /\ poll'.base = covered
      BY <1>3 DEF Query
    <2>2. Answered(u)'
      BY <1>1, <2>1, UserTypes DEF Answered, AnswerOfRunning, Credited
    <2>3. Founded(u)'
      BY <1>1, <2>1 DEF Founded, Footing
    <2> QED
      BY <1>2, <2>2, <2>3
  <1>4. CASE ReadInstance
    <2>1. /\ poll.pc # "idle"
          /\ poll'.of = poll.of /\ poll'.serves = poll.serves
          /\ poll'.stats = poll.stats /\ poll'.base = poll.base
      BY <1>4 DEF ReadInstance, TypeInv, TypeOK, Poll
    <2>2. Answered(u)'
      BY <1>1, <2>1 DEF Answered, AnswerOfRunning, AnswerOfEarlier
    <2>3. Founded(u)'
      BY <1>1, <2>1 DEF Founded, Footing
    <2> QED
      BY <1>2, <2>2, <2>3
  <1>5. CASE PollFails
    BY <1>1, <1>2, <1>5 DEF PollFails, NoPoll, Answered, Founded, Footing
  <1> QED
    BY <1>3, <1>4, <1>5

LEMMA OperatorAccounting ==
  ASSUME TypeInv,
         NEW v \in Users, CreateUser(v) \/ RenameUser(v) \/ ChangeAccess(v) \/ DeleteUser(v),
         NEW u \in Users, u \notin doubtful', Credited(u), Answered(u), Founded(u)
  PROVE  Credited(u)' /\ Answered(u)' /\ Founded(u)'
  <1> USE UserTypes
  <1>1. UNCHANGED <<serves, pids, Running, counter, poll, actual, covered>>
    BY DEF CreateUser, RenameUser, ChangeAccess, DeleteUser, host, Running
  <1>2. used'[u] \in Nat /\ used'[u] <= used[u]
    <2>1. CASE CreateUser(v)
      BY <2>1 DEF CreateUser, TypeInv, TypeOK
    <2>2. CASE ~CreateUser(v)
      BY <2>2 DEF RenameUser, ChangeAccess, DeleteUser
    <2> QED
      BY <2>1, <2>2
  <1>3. Credited(u)'
    BY <1>1, <1>2 DEF Credited
  <1>4. Answered(u)'
    BY <1>1, <1>2 DEF Answered, AnswerOfRunning, AnswerOfEarlier
  <1>5. /\ u \in DOMAIN snapshot' <=> u \in DOMAIN snapshot
        /\ u \in DOMAIN snapshot => snapshot'[u] = snapshot[u]
    <2>1. CASE DeleteUser(v)
      BY <2>1 DEF DeleteUser
    <2>2. CASE ~DeleteUser(v)
      BY <2>2 DEF CreateUser, RenameUser, ChangeAccess
    <2> QED
      BY <2>1, <2>2
  <1>6. Founded(u)'
    BY <1>1, <1>5 DEF Founded, Footing
  <1> QED
    BY <1>3, <1>4, <1>6

LEMMA SyncAccounting ==
  ASSUME TypeInv, IInv, Sync, NEW u \in Users, u \notin doubtful'
  PROVE  Credited(u)' /\ Answered(u)' /\ Founded(u)'
  <1> USE UserTypes
  <1>1. /\ poll.pc = "sync" /\ poll'.pc = "idle" /\ DOMAIN snapshot' = access
        /\ UNCHANGED <<name, access, serves, pids, Running, counter, actual>>
    BY DEF Sync, host, NoPoll, Running
  <1>2. u \notin doubtful /\ ~LosesFooting(u)
    BY DEF Sync
  <1>3. Credited(u) /\ Answered(u) /\ Founded(u)
    BY <1>2 DEF IInv
  <1>4. poll.of # 0 /\ poll.of <= Running
    BY <1>1 DEF TypeInv, InstancesKnown
  <1>5. Answered(u)'
    BY <1>1 DEF Answered
  <1>6. CASE u \notin access
    <2>1. used'[u] = used[u] /\ covered'[u] = covered[u]
      BY <1>6 DEF Sync, TypeInv, TypeOK
    <2>2. u \notin DOMAIN snapshot
      BY <1>2, <1>6 DEF LosesFooting
    <2>3. Founded(u)'
      BY <1>1, <1>3, <1>6, <2>1, <2>2 DEF Founded, Footing
    <2> QED
      BY <1>1, <1>3, <1>5, <2>1, <2>3 DEF Credited
  <1>7. CASE u \in access /\ ~Counted(u)
    <2>1. Delta(u) = 0 /\ poll.instance \in {None, pids[poll.of]}
      BY <1>7, SyncGain
    <2>2. used'[u] = used[u] /\ covered'[u] = covered[u]
      BY <1>7, <2>1 DEF Sync, TypeInv, TypeOK
    <2>3. snapshot'[u] = [instance |-> poll.instance, bytes |-> Current(u), of |-> poll.of]
      BY <1>7 DEF Sync
    <2>4. Footing(u, Running, covered[u])'
      <3>1. Footing(u, Running, covered[u])
        BY <1>3 DEF Founded
      <3>2. CASE poll.of # Running
        <4>1. covered[u] = 0
          BY <1>1, <1>3, <3>2 DEF Answered, AnswerOfEarlier
        <4> QED
          BY <1>1, <2>2, <2>3, <3>2, <4>1 DEF Footing
      <3>3. CASE poll.of = Running /\ u \in DOMAIN snapshot
        <4>1. poll.instance # None /\ snapshot[u].instance # None
          BY <1>2, <1>7, <3>3 DEF LosesFooting
        <4>2. poll.instance = pids[Running]
          BY <2>1, <3>3, <4>1
        <4>3. CASE SameInstance(u)
          <5>1. snapshot[u].of = Running
            BY <1>2, <1>7, <3>3, <4>1, <4>3 DEF LosesFooting
          <5>2. Current(u) = covered[u]
            BY <1>7, <3>1, <3>3, <4>3, <5>1 DEF Footing, Current
          <5> QED
            BY <1>1, <1>7, <2>2, <2>3, <3>3, <4>2, <5>2 DEF Footing
        <4>4. CASE ~SameInstance(u)
          <5>1. covered[u] = 0
            BY <3>1, <4>1, <4>2, <4>4 DEF Footing, SameInstance
          <5>2. Current(u) = 0
            BY <1>7, <4>4 DEF Current
          <5> QED
            BY <1>1, <2>2, <2>3, <5>1, <5>2 DEF Footing
        <4> QED
          BY <4>3, <4>4
      <3>4. CASE poll.of = Running /\ u \notin DOMAIN snapshot
        <4>1. covered[u] = 0
          BY <3>1, <3>4 DEF Footing
        <4>2. Current(u) = 0
          BY <1>7, <3>4 DEF Current
        <4> QED
          BY <1>1, <2>2, <2>3, <4>1, <4>2 DEF Footing
      <3> QED
        BY <3>2, <3>3, <3>4
    <2>5. Founded(u)'
      BY <1>1, <2>4 DEF Founded
    <2> QED
      BY <1>1, <1>3, <1>5, <2>2, <2>5 DEF Credited
  <1>8. CASE u \in access /\ Counted(u)
    <2> DEFINE n == name[u]
    <2>1. n \in Names
      BY <1>8 DEF TypeInv, TypeOK, UsersNamed
    <2>2. /\ poll.instance \in {None, pids[poll.of]} /\ poll.serves[n] = u
          /\ Delta(u) <= poll.stats[n] - poll.base[u] /\ Current(u) = poll.stats[n]
      BY <1>8, SyncGain
    <2>3. Delta(u) \in Nat
      BY <1>8, DeltaIsNat
    <2>4. used'[u] = used[u] + Delta(u)
      BY <1>8 DEF Sync, TypeInv, TypeOK
    <2>5. covered'[u] = IF poll.of = Running THEN poll.stats[n] ELSE covered[u]
      BY <1>8 DEF Sync
    <2>6. snapshot'[u] = [instance |-> poll.instance, bytes |-> poll.stats[n], of |-> poll.of]
      BY <1>8, <2>2 DEF Sync
    <2> HIDE DEF n
    <2>7. CASE poll.of = Running
      <3>1. /\ poll.base[u] = covered[u] /\ serves[n] = u /\ poll.stats[n] <= counter[n]
        BY <1>1, <1>3, <2>1, <2>2, <2>7 DEF Answered, AnswerOfRunning
      <3>2. \A m \in Names : serves[m] = u => m = n
        BY <2>1, <3>1, NamesAssumption DEF TypeInv, OneNameEach
      <3>3. used[u] + counter[n] <= actual[u] + covered[u]
        BY <1>3, <2>1, <3>1 DEF Credited
      <3>4. /\ used'[u] + counter[n] <= actual[u] + poll.stats[n]
            /\ used'[u] <= actual[u]
        BY <2>1, <2>2, <2>3, <2>4, <3>1, <3>3
      <3>5. Credited(u)'
        BY <1>1, <2>1, <2>5, <2>7, <3>1, <3>2, <3>4 DEF Credited
      <3>6. Founded(u)'
        BY <1>1, <1>8, <2>2, <2>5, <2>6, <2>7 DEF Founded, Footing
      <3> QED
        BY <1>5, <3>5, <3>6
    <2>8. CASE poll.of # Running
      <3>1. AnswerOfEarlier(u)
        BY <1>1, <1>3, <2>8 DEF Answered
      <3>2. covered[u] = 0 /\ covered'[u] = 0
        BY <2>5, <2>8, <3>1 DEF AnswerOfEarlier
      <3>3. used'[u] <= actual[u]
        BY <2>1, <2>2, <2>3, <2>4, <3>1 DEF AnswerOfEarlier
      <3>4. \A m \in Names : serves[m] = u => used'[u] + counter[m] <= actual[u]
        BY <2>1, <2>2, <2>3, <2>4, <3>1 DEF AnswerOfEarlier
      <3>5. Credited(u)'
        BY <1>1, <3>2, <3>3, <3>4 DEF Credited
      <3>6. Founded(u)'
        BY <1>1, <1>4, <2>2, <2>6, <2>8, <3>2 DEF Founded, Footing
      <3> QED
        BY <1>5, <3>5, <3>6
    <2> QED
      BY <2>7, <2>8
  <1> QED
    BY <1>6, <1>7, <1>8

LEMMA AccountingStep == TypeInv /\ IInv /\ [Next]_vars => IInv'
  <1> SUFFICES ASSUME TypeInv, IInv, [Next]_vars, NEW u \in Users, u \notin doubtful'
               PROVE  Credited(u)' /\ Answered(u)' /\ Founded(u)'
    BY DEF IInv
  <1>1. CASE Sync
    BY <1>1, SyncAccounting
  <1>2. CASE ~Sync
    <2>1. doubtful \subseteq doubtful'
      BY <1>2 DEF Next, vars, Traffic, Restart, Operator, CreateUser, RenameUser,
                  ChangeAccess, DeleteUser, Query, ReadInstance, PollFails
    <2>2. Credited(u) /\ Answered(u) /\ Founded(u)
      BY <2>1 DEF IInv
    <2>3. CASE UNCHANGED vars
      BY <2>2, <2>3 DEF vars, Credited, Answered, AnswerOfRunning, AnswerOfEarlier,
                        Founded, Footing, Running
    <2> QED
      BY <1>2, <2>2, <2>3, TrafficAccounting, RestartAccounting, PollAccounting,
         OperatorAccounting DEF Next, Operator
  <1> QED
    BY <1>1, <1>2

LEMMA AccountingAlways == Spec => [](TypeInv /\ IInv)
  <1>1. Init => TypeInv /\ IInv
    BY TypeInit, AccountingInit
  <1>2. TypeInv /\ IInv /\ [Next]_vars => (TypeInv /\ IInv)'
    BY TypeStep, AccountingStep
  <1> QED
    BY <1>1, <1>2, PTL DEF Spec

\* SyncRuntimeUsage credits no user with more than it has transferred, however
\* polls, restarts, renames and failures interleave.
THEOREM NeverOverchargedAlways == Spec => []NeverOvercharged
  <1>1. IInv => NeverOvercharged
    BY DEF IInv, Credited, NeverOvercharged
  <1> QED
    BY AccountingAlways, <1>1, PTL

\* A poll with a known instance credits what was counted since the last one.
THEOREM PollCreditsTheGainAlways == Spec => PollCreditsTheGain
  <1> DEFINE Exact == \A u \in access \ doubtful' :
                /\ Sync /\ Counted(u) /\ poll.instance # None
                /\ u \in DOMAIN snapshot => snapshot[u].instance # None
                => used'[u] = used[u] + (poll.stats[name[u]] - poll.base[u])
  <1>1. TypeInv /\ IInv /\ [Next]_vars => [Exact]_vars
    <2> SUFFICES ASSUME TypeInv, IInv, Sync, NEW u \in access, u \notin doubtful',
                        Counted(u), poll.instance # None,
                        u \in DOMAIN snapshot => snapshot[u].instance # None
                 PROVE  used'[u] = used[u] + (poll.stats[name[u]] - poll.base[u])
      OBVIOUS
    <2> DEFINE n == name[u]
    <2>1. u \in Users /\ n \in Names
      BY DEF TypeInv, TypeOK, UsersNamed
    <2>2. /\ poll.instance = pids[poll.of] /\ poll.serves[n] = u
          /\ Current(u) = poll.stats[n]
      BY SyncGain
    <2>3. u \notin doubtful /\ ~LosesFooting(u) /\ poll.pc = "sync"
      BY <2>1 DEF Sync
    <2>5. /\ poll.base[u] <= poll.stats[n]
          /\ Footing(u, poll.of, poll.base[u])
      BY <2>1, <2>2, <2>3 DEF IInv, Answered, Founded
    <2>6. Delta(u) = poll.stats[n] - poll.base[u]
      <3> HIDE DEF n
      <3>1. CASE u \notin DOMAIN snapshot \/ ~SameInstance(u)
        <4>1. poll.base[u] = 0
          BY <2>2, <2>5, <3>1 DEF Footing, SameInstance
        <4>2. Delta(u) = poll.stats[n]
          BY <2>2, <3>1 DEF Delta, SameInstance
        <4> QED
          BY <2>1, <4>1, <4>2, UserTypes
      <3>2. CASE u \in DOMAIN snapshot /\ SameInstance(u)
        <4>1. snapshot[u].bytes = poll.base[u]
          BY <2>3, <2>5, <3>2 DEF Footing, LosesFooting
        <4>2. Delta(u) = CounterDelta(poll.base[u], poll.stats[n])
          BY <2>2, <3>2, <4>1 DEF Delta, SameInstance
        <4> QED
          BY <2>5, <4>2 DEF CounterDelta
      <3> QED
        BY <3>1, <3>2
    <2> QED
      BY <2>1, <2>6 DEF Sync, TypeInv, TypeOK
  <1>2. PollCreditsTheGain <=> [][Exact]_vars
    BY DEF PollCreditsTheGain
  <1> QED
    BY AccountingAlways, <1>1, <1>2, PTL DEF Spec
=============================================================================
