---------------------------- MODULE ServiceProofs ----------------------------
(***************************************************************************)
(* What Service keeps for any number of instances, releases and migrations, *)
(* any limits and any timing that its assumptions allow.                    *)
(***************************************************************************)
EXTENDS Service, FiniteSetTheorems, TLAPS

LEMMA Constants ==
  /\ Latest \in Nat /\ Legacy \in 0 .. Latest /\ Known \in [Instance -> 0 .. Latest]
  /\ PerMinute \in Nat \ {0} /\ ReportsPerHour \in Nat \ {0} /\ Window \in Nat \ {0}
  /\ HealthInterval \in Nat /\ DrainDelay \in Nat /\ DrainDelay > HealthInterval
  /\ ShutdownTimeout \in Nat /\ MaxStarts \in Nat
  /\ None \notin Instance /\ None \notin Callback
BY MigrationAssumption, ChannelAssumption, LifeCycleAssumption, InstanceAssumption

(* No more than a bucket holds.                                             *)
LEMMA Refilled == \A n \in 0 .. PerMinute : Min({n + 1, PerMinute}) \in 0 .. PerMinute
<1> SUFFICES ASSUME NEW n \in 0 .. PerMinute PROVE Min({n + 1, PerMinute}) \in 0 .. PerMinute
  OBVIOUS
<1>1. PerMinute \in Nat /\ n + 1 \in Nat BY Constants
<1>2. \E x \in {n + 1, PerMinute} : \A y \in {n + 1, PerMinute} : x =< y BY <1>1
<1>3. /\ Min({n + 1, PerMinute}) \in {n + 1, PerMinute}
      /\ \A y \in {n + 1, PerMinute} : Min({n + 1, PerMinute}) =< y
  BY <1>2 DEF Min
<1>4. QED BY <1>1, <1>3

-----------------------------------------------------------------------------
(* Every process has gone as far as it says; the lock keeps others out.     *)
Done(v) == v \in applied \/ v =< Legacy

Prepared(i) == 1 .. Legacy \subseteq applied /\ next[i] >= 1 /\ 1 .. next[i] - 1 \subseteq applied

StepInv(i) ==
  /\ step[i] = "bootstrapping" => lock = i
  /\ step[i] \in {"apply", "applying"} => Prepared(i)
  /\ step[i] = "applying" => lock = i /\ next[i] \notin applied /\ next[i] =< Known[i]

HistoryInv ==
  /\ ran = [v \in Version |-> IF Done(v) THEN 1 ELSE 0]
  /\ \A v \in applied : \A u \in 1 .. v : Done(u)

MigrationInv == HistoryInv /\ \A i \in Instance : StepInv(i)

ServingInv ==
  \A i \in Instance : pc[i] \in {"serving", "draining"} => \A v \in 1 .. Known[i] : Done(v)

(* The balancer will ask again before the delay is over.                    *)
DrainInv ==
  \A i \in Instance :
    /\ pc[i] = "draining" /\ i \in routed => left[i] + unpolled[i] >= DrainDelay
    /\ pc[i] = "stopping" => i \notin routed

(* What each request knows of the phone's account.                          *)
RequestInv(q) ==
  /\ request[q].pc = "commit" => linking = q /\ linked = None /\ request[q].account = q
  /\ request[q].pc \in {"count", "store"} => linked # None /\ request[q].account = linked
  /\ request[q].pc = "theirs" => linked # None

AccountInv == accounts \subseteq {linked} /\ \A q \in Callback : RequestInv(q)

-----------------------------------------------------------------------------
(* Migrations.  The statements of one process keep what holds of all: the   *)
(* lock is one's own or nobody's while one has work that is not committed.  *)

LEMMA ApplyingWhat ==
  ASSUME MigrationTypeOK, MigrationInv, NEW i \in Instance, ApplyCommit(i)
  PROVE  /\ next[i] \in Version /\ next[i] \notin applied /\ next[i] > Legacy
         /\ 1 .. next[i] - 1 \subseteq applied
<1>1. StepInv(i) /\ step[i] = "applying" BY DEF MigrationInv, ApplyCommit
<1>2. /\ Prepared(i) /\ next[i] \notin applied /\ next[i] =< Known[i]
  BY <1>1 DEF StepInv
<1>3. next[i] \in Nat /\ Known[i] \in 0 .. Latest
  BY Constants DEF MigrationTypeOK
<1>4. next[i] >= 1 /\ 1 .. Legacy \subseteq applied /\ 1 .. next[i] - 1 \subseteq applied
  BY <1>2 DEF Prepared
<1>5. next[i] \in Version BY <1>2, <1>3, <1>4, Constants DEF Version
<1>6. next[i] > Legacy BY <1>2, <1>3, <1>4, Constants
<1>7. QED BY <1>2, <1>4, <1>5, <1>6

LEMMA MigrateType ==
  ASSUME MigrationTypeOK, MigrationInv, NEW i \in Instance, Migrate(i)
  PROVE  MigrationTypeOK'
<1>1. CASE BootstrapBegin(i) BY <1>1 DEF BootstrapBegin, Begin, MigrationTypeOK
<1>2. CASE BootstrapCommit(i)
  BY <1>2, Constants DEF BootstrapCommit, Recorded, MigrationTypeOK, Version
<1>3. CASE ApplyDone(i) BY <1>3 DEF ApplyDone, MigrationTypeOK
<1>4. CASE ApplyBegin(i) BY <1>4 DEF ApplyBegin, Begin, MigrationTypeOK
<1>5. CASE ApplyCommit(i)
  <2>1. next[i] \in Version BY <1>5, ApplyingWhat
  <2>2. applied' \subseteq Version /\ ran' \in [Version -> Nat]
    BY <1>5, <2>1 DEF ApplyCommit, MigrationTypeOK
  <2>3. QED BY <1>5, <2>2 DEF ApplyCommit, MigrationTypeOK
<1>6. QED BY <1>1, <1>2, <1>3, <1>4, <1>5 DEF Migrate

LEMMA CommitHistory ==
  ASSUME MigrationTypeOK, MigrationInv, NEW i \in Instance, ApplyCommit(i)
  PROVE  HistoryInv'
<1>1. /\ next[i] \in Version /\ next[i] \notin applied /\ next[i] > Legacy
      /\ 1 .. next[i] - 1 \subseteq applied
  BY ApplyingWhat
<1>2. ran' = [v \in Version |-> IF v = next[i] THEN ran[v] + 1 ELSE ran[v]]
  BY DEF ApplyCommit, MigrationTypeOK
<1>3. \A v \in Version : ran[v] = IF Done(v) THEN 1 ELSE 0
  BY DEF MigrationInv, HistoryInv
<1>4. \A v \in Version : Done(v)' <=> Done(v) \/ v = next[i]
  BY DEF ApplyCommit, Done
<1>5. ~ Done(next[i])
  BY <1>1, Constants DEF Done, Version
<1>6. ran' = [v \in Version |-> IF Done(v)' THEN 1 ELSE 0]
  BY <1>1, <1>2, <1>3, <1>4, <1>5
<1>7. \A v \in applied' : \A u \in 1 .. v : Done(u)'
  <2> SUFFICES ASSUME NEW v \in applied', NEW u \in 1 .. v PROVE Done(u)'
    OBVIOUS
  <2>1. CASE v \in applied
    BY <2>1 DEF MigrationInv, HistoryInv, Done, ApplyCommit
  <2>2. CASE v = next[i]
    <3>1. u = next[i] \/ u \in 1 .. next[i] - 1
      BY <2>2, <1>1 DEF Version
    <3>2. QED BY <3>1, <1>1 DEF Done, ApplyCommit
  <2>3. QED BY <2>1, <2>2 DEF ApplyCommit
<1>8. QED BY <1>6, <1>7 DEF HistoryInv

LEMMA MigrateHistory ==
  ASSUME MigrationTypeOK, MigrationInv, NEW i \in Instance, Migrate(i)
  PROVE  HistoryInv'
<1>1. CASE BootstrapCommit(i)
  <2>1. \A v \in Nat : Done(v)' <=> Done(v) \/ v \in 1 .. Legacy
    BY <1>1 DEF BootstrapCommit, Recorded, Done
  <2>2. \A v \in Nat : Done(v)' <=> Done(v)
    BY <2>1, Constants DEF Done
  <2>3. \A v \in applied' : \A u \in 1 .. v : u \in Nat /\ Done(u)
    BY <1>1, Constants DEF BootstrapCommit, Recorded, Done, MigrationInv, HistoryInv, MigrationTypeOK, Version
  <2>4. \A v \in Version : Done(v)' <=> Done(v)
    BY <2>2, Constants DEF Version
  <2>5. ran' = [v \in Version |-> IF Done(v)' THEN 1 ELSE 0]
    BY <1>1, <2>4 DEF BootstrapCommit, MigrationInv, HistoryInv
  <2>6. QED BY <2>2, <2>3, <2>5 DEF HistoryInv
<1>2. CASE ApplyCommit(i) BY <1>2, CommitHistory
<1>3. CASE BootstrapBegin(i) \/ ApplyDone(i) \/ ApplyBegin(i)
  BY <1>3 DEF BootstrapBegin, ApplyDone, ApplyBegin, MigrationInv, HistoryInv, Done
<1>4. QED BY <1>1, <1>2, <1>3 DEF Migrate

(* Another process's steps: it can only take a lock that is free and let    *)
(* go of its own.                                                           *)
LEMMA StepOfOthers ==
  ASSUME MigrationTypeOK, MigrationInv, NEW i \in Instance, NEW j \in Instance, i # j,
         step'[j] = step[j], next'[j] = next[j],
         lock = j => lock' = j /\ applied' = applied,
         applied \subseteq applied'
  PROVE  StepInv(j)'
<1>1. StepInv(j) BY DEF MigrationInv
<1>2. QED BY <1>1 DEF StepInv, Prepared

LEMMA MigrateSteps ==
  ASSUME MigrationTypeOK, MigrationInv, NEW i \in Instance, Migrate(i)
  PROVE  \A j \in Instance : StepInv(j)'
<1> USE DEF MigrationTypeOK
<1>0. StepInv(i) BY DEF MigrationInv
<1>1. StepInv(i)'
  <2>1. CASE BootstrapBegin(i)
    BY <2>1 DEF BootstrapBegin, Begin, StepInv
  <2>2. CASE BootstrapCommit(i)
    BY <2>2, Constants DEF BootstrapCommit, Recorded, StepInv, Prepared
  <2>3. CASE ApplyDone(i)
    <3>1. 1 .. next[i] \subseteq applied /\ next[i] >= 1 /\ 1 .. Legacy \subseteq applied
      BY <2>3, <1>0 DEF ApplyDone, StepInv, Prepared
    <3>2. next'[i] = next[i] + 1 /\ next[i] + 1 - 1 = next[i] /\ step'[i] = "apply" /\ applied' = applied
      BY <2>3 DEF ApplyDone
    <3>3. Prepared(i)' BY <3>1, <3>2 DEF Prepared
    <3>4. QED BY <3>2, <3>3 DEF StepInv
  <2>4. CASE ApplyBegin(i)
    <3>1. Prepared(i) /\ step[i] = "apply" BY <2>4, <1>0 DEF ApplyBegin, Begin, StepInv
    <3>2. /\ step'[i] = "applying" /\ lock' = i /\ next' = next /\ applied' = applied
          /\ next[i] \notin applied /\ next[i] =< Known[i]
      BY <2>4 DEF ApplyBegin, Begin
    <3>3. QED BY <3>1, <3>2 DEF StepInv, Prepared
  <2>5. CASE ApplyCommit(i)
    <3>1. 1 .. next[i] - 1 \subseteq applied /\ next[i] >= 1 /\ 1 .. Legacy \subseteq applied
      BY <2>5, <1>0 DEF ApplyCommit, StepInv, Prepared
    <3>2. /\ next'[i] = next[i] + 1 /\ next[i] + 1 - 1 = next[i] /\ step'[i] = "apply"
          /\ applied' = applied \cup {next[i]}
      BY <2>5 DEF ApplyCommit
    <3>3. 1 .. next[i] \subseteq applied' BY <3>1, <3>2
    <3>4. Prepared(i)' BY <3>1, <3>2, <3>3 DEF Prepared
    <3>5. QED BY <3>2, <3>4 DEF StepInv
  <2>6. QED BY <2>1, <2>2, <2>3, <2>4, <2>5 DEF Migrate
<1>2. ASSUME NEW j \in Instance, j # i PROVE StepInv(j)'
  <2>1. step'[j] = step[j] /\ next'[j] = next[j] /\ applied \subseteq applied'
    BY <1>2 DEF Migrate, BootstrapBegin, BootstrapCommit, ApplyDone, ApplyBegin, ApplyCommit, Begin
  <2>2. ASSUME lock = j PROVE lock' = j /\ applied' = applied
    <3>1. lock # None /\ lock # i BY <2>2, <1>2, Constants
    <3>2. step[i] \notin {"bootstrapping", "applying"} BY <3>1, <1>0 DEF StepInv
    <3>3. QED BY <3>1, <3>2
            DEF Migrate, BootstrapBegin, BootstrapCommit, ApplyDone, ApplyBegin, ApplyCommit, Begin
  <2>3. QED BY <1>2, <2>1, <2>2, StepOfOthers
<1>3. QED BY <1>1, <1>2

(* A process may also begin, or stop anywhere.                              *)
LEMMA StartKeeps ==
  ASSUME MigrationTypeOK, MigrationInv, NEW i \in Instance, StartMigrate(i)
  PROVE  MigrationTypeOK' /\ MigrationInv'
<1>1. MigrationTypeOK' BY DEF StartMigrate, MigrationTypeOK
<1>2. HistoryInv' BY DEF StartMigrate, MigrationInv, HistoryInv, Done
<1>3. StepInv(i)' BY DEF StartMigrate, StepInv, MigrationTypeOK
<1>4. ASSUME NEW j \in Instance, j # i PROVE StepInv(j)'
  BY <1>4, StepOfOthers DEF StartMigrate, MigrationTypeOK
<1>5. QED BY <1>1, <1>2, <1>3, <1>4 DEF MigrationInv

LEMMA LeaveKeeps ==
  ASSUME MigrationTypeOK, MigrationInv, NEW i \in Instance, LeaveMigrate(i)
  PROVE  MigrationTypeOK' /\ MigrationInv'
<1>1. MigrationTypeOK' BY DEF LeaveMigrate, MigrationTypeOK
<1>2. HistoryInv' BY DEF LeaveMigrate, MigrationInv, HistoryInv, Done
<1>3. StepInv(i)' BY DEF LeaveMigrate, StepInv, MigrationTypeOK
<1>4. ASSUME NEW j \in Instance, j # i PROVE StepInv(j)'
  BY <1>4, StepOfOthers DEF LeaveMigrate, MigrationTypeOK
<1>5. QED BY <1>1, <1>2, <1>3, <1>4 DEF MigrationInv

LEMMA MigrationUnchanged ==
  ASSUME MigrationTypeOK, MigrationInv, UNCHANGED migrationVars
  PROVE  MigrationTypeOK' /\ MigrationInv'
BY DEF migrationVars, MigrationTypeOK, MigrationInv, HistoryInv, StepInv, Prepared, Done

-----------------------------------------------------------------------------
(* Channels.  A request that inserts the row keeps others from inserting it *)
(* until its transaction ends, and once there the row does not change.      *)

LEMMA ServeType ==
  ASSUME ChannelTypeOK, AccountInv, NEW q \in Callback, ServeChannel(q)
  PROVE  ChannelTypeOK'
<1> USE DEF ChannelTypeOK
<1> DEFINE r(p, a) == [pc |-> p, at |-> request[q].at, account |-> a]
<1>0. /\ \A p \in {"none", "create", "theirs", "commit", "count", "store"} :
           \A a \in Callback \cup {None} : r(p, a) \in Requests
      /\ request[q].account \in Callback \cup {None}
      /\ NoRequest \in Requests
  BY DEF Requests, NoRequest
<1>t. ASSUME NEW p \in {"none", "create", "theirs", "commit", "count", "store"},
             NEW a \in Callback \cup {None}, To(q, p, a)
      PROVE  request' \in [Callback -> Requests]
  <2>1. r(p, a) \in Requests BY <1>0
  <2>2. request' = [request EXCEPT ![q] = r(p, a)] BY <1>t DEF To
  <2>3. QED BY <2>1, <2>2
<1>n. ASSUME Answered(q) PROVE request' \in [Callback -> Requests]
  BY <1>0, <1>n DEF Answered
<1> HIDE DEF r
<1>1. CASE FindAccount(q) BY <1>1, <1>t DEF FindAccount
<1>2. CASE CreateAccount(q)
  <2>1. linking' \in Callback \cup {None} BY <1>2 DEF CreateAccount
  <2>2. request' \in [Callback -> Requests] BY <1>2, <1>t DEF CreateAccount
  <2>3. QED BY <1>2, <2>1, <2>2 DEF CreateAccount
<1>3. CASE TheirAccount(q) BY <1>3, <1>t DEF TheirAccount
<1>4. CASE CommitAccount(q)
  <2>1. request[q].account = q BY <1>4 DEF CommitAccount, AccountInv, RequestInv
  <2>2. QED BY <1>4, <1>t, <2>1 DEF CommitAccount
<1>5. CASE CountReports(q) BY <1>0, <1>5, <1>t, <1>n DEF CountReports
<1>6. CASE StoreReport(q)
  <2>1. reports' \in Seq(Nat) BY <1>6 DEF StoreReport
  <2>2. QED BY <1>6, <1>n, <2>1 DEF StoreReport
<1>7. QED BY <1>1, <1>2, <1>3, <1>4, <1>5, <1>6 DEF ServeChannel

LEMMA ServeAccounts ==
  ASSUME ChannelTypeOK, AccountInv, NEW q \in Callback, ServeChannel(q)
  PROVE  AccountInv'
<1>0. /\ accounts \subseteq {linked} /\ \A o \in Callback : RequestInv(o)
  BY DEF AccountInv
<1>1. CASE FindAccount(q)
  <2>1. \A o \in Callback : o # q => request'[o] = request[o]
    BY <1>1 DEF FindAccount, To, ChannelTypeOK, Requests
  <2>2. \/ request'[q] = [pc |-> "count", at |-> request[q].at, account |-> linked] /\ linked # None
        \/ request'[q] = [pc |-> "create", at |-> request[q].at, account |-> None]
    BY <1>1 DEF FindAccount, To, ChannelTypeOK, Requests
  <2>3. UNCHANGED <<accounts, linked, linking>> BY <1>1 DEF FindAccount
  <2>4. QED BY <1>0, <2>1, <2>2, <2>3 DEF AccountInv, RequestInv
<1>2. CASE CreateAccount(q)
  <2>1. \A o \in Callback : o # q => request'[o] = request[o]
    BY <1>2 DEF CreateAccount, To, ChannelTypeOK, Requests
  <2>2. \/ /\ linked = None /\ linking' = q
           /\ request'[q] = [pc |-> "commit", at |-> request[q].at, account |-> q]
        \/ /\ linked # None /\ linking' = linking
           /\ request'[q] = [pc |-> "theirs", at |-> request[q].at, account |-> None]
    BY <1>2 DEF CreateAccount, To, ChannelTypeOK, Requests
  <2>3. linking = None /\ UNCHANGED <<accounts, linked>> BY <1>2 DEF CreateAccount
  <2>4. \A o \in Callback : request[o].pc # "commit"
    BY <1>0, <2>3, Constants DEF RequestInv
  <2>5. QED BY <1>0, <2>1, <2>2, <2>3, <2>4 DEF AccountInv, RequestInv
<1>3. CASE TheirAccount(q)
  <2>1. \A o \in Callback : o # q => request'[o] = request[o]
    BY <1>3 DEF TheirAccount, To, ChannelTypeOK, Requests
  <2>2. request'[q] = [pc |-> "count", at |-> request[q].at, account |-> linked] /\ linked # None
    BY <1>0, <1>3 DEF TheirAccount, To, ChannelTypeOK, RequestInv
  <2>3. UNCHANGED <<accounts, linked, linking>> BY <1>3 DEF TheirAccount
  <2>4. QED BY <1>0, <2>1, <2>2, <2>3 DEF AccountInv, RequestInv
<1>4. CASE CommitAccount(q)
  <2>1. \A o \in Callback : o # q => request'[o] = request[o]
    BY <1>4 DEF CommitAccount, To, ChannelTypeOK, Requests
  <2>2. linking = q /\ linked = None /\ request[q].account = q
    BY <1>0, <1>4 DEF CommitAccount, RequestInv
  <2>3. /\ request'[q] = [pc |-> "count", at |-> request[q].at, account |-> q]
        /\ accounts' = accounts \cup {q} /\ linked' = q /\ linking' = None
    BY <1>4, <2>2 DEF CommitAccount, To, ChannelTypeOK, Requests
  <2>4. accounts' \subseteq {linked'}
    BY <1>0, <2>2, <2>3, Constants DEF ChannelTypeOK
  <2>5. \A o \in Callback : o # q => request[o].pc \notin {"commit", "count", "store", "theirs"}
    BY <1>0, <2>2 DEF RequestInv
  <2>6. q # None BY Constants
  <2>7. ASSUME NEW o \in Callback PROVE RequestInv(o)'
    <3>1. CASE o = q BY <3>1, <2>3, <2>6 DEF RequestInv
    <3>2. CASE o # q BY <3>2, <2>1, <2>5 DEF RequestInv
    <3>3. QED BY <3>1, <3>2
  <2>8. QED BY <2>4, <2>7 DEF AccountInv
<1>5. CASE CountReports(q)
  <2>1. \A o \in Callback : o # q => request'[o] = request[o]
    BY <1>5 DEF CountReports, To, Answered, NoRequest, ChannelTypeOK, Requests
  <2>2. \/ request'[q].pc = "none"
        \/ request'[q].pc = "store" /\ request'[q].account = request[q].account
    BY <1>5 DEF CountReports, To, Answered, NoRequest, ChannelTypeOK, Requests
  <2>3. request[q].pc = "count" /\ UNCHANGED <<accounts, linked, linking>>
    BY <1>5 DEF CountReports
  <2>4. QED BY <1>0, <2>1, <2>2, <2>3 DEF AccountInv, RequestInv
<1>6. CASE StoreReport(q)
  <2>1. \A o \in Callback : o # q => request'[o] = request[o]
    BY <1>6 DEF StoreReport, Answered, NoRequest, ChannelTypeOK, Requests
  <2>2. request'[q].pc = "none" /\ UNCHANGED <<accounts, linked, linking>>
    BY <1>6 DEF StoreReport, Answered, NoRequest, ChannelTypeOK, Requests
  <2>3. QED BY <1>0, <2>1, <2>2 DEF AccountInv, RequestInv
<1>7. QED BY <1>1, <1>2, <1>3, <1>4, <1>5, <1>6 DEF ServeChannel

(* A request that is cut off lets go of the row it inserted.                *)
LEMMA CutKeeps ==
  ASSUME ChannelTypeOK, AccountInv, NEW Q, Cut(Q), UNCHANGED tokens
  PROVE  ChannelTypeOK' /\ AccountInv'
<1>1. NoRequest \in Requests BY DEF NoRequest, Requests
<1>2. request' \in [Callback -> Requests] /\ linking' \in Callback \cup {None}
  BY <1>1 DEF Cut, ChannelTypeOK
<1>3. ChannelTypeOK' BY <1>2 DEF Cut, ChannelTypeOK
<1>4. /\ \A q \in Callback : IF q \in Q THEN request'[q].pc = "none" ELSE request'[q] = request[q]
      /\ linking \notin Q => linking' = linking
      /\ UNCHANGED <<accounts, linked>>
  BY DEF Cut, NoRequest
<1>5. accounts \subseteq {linked} /\ \A q \in Callback : RequestInv(q) BY DEF AccountInv
<1>6. ASSUME NEW q \in Callback PROVE RequestInv(q)'
  <2>1. CASE q \in Q BY <2>1, <1>4 DEF RequestInv
  <2>2. CASE q \notin Q BY <2>2, <1>4, <1>5 DEF RequestInv
  <2>3. QED BY <2>1, <2>2
<1>7. QED BY <1>3, <1>4, <1>5, <1>6 DEF AccountInv

LEMMA RequestKeeps ==
  ASSUME ChannelTypeOK, AccountInv, NEW q \in Callback, NEW i \in Instance, Request(q, i)
  PROVE  ChannelTypeOK' /\ AccountInv'
<1>1. /\ \A o \in Callback : request'[o] = request[o] \/ request'[o].pc = "account"
      /\ request' \in [Callback -> Requests]
      /\ UNCHANGED <<accounts, linked, linking, reports>>
  <2>1. CASE request' = request BY <2>1 DEF Request, ChannelTypeOK
  <2>2. CASE request' = [request EXCEPT ![q] = [pc |-> "account", at |-> i, account |-> None]]
    <3>1. [pc |-> "account", at |-> i, account |-> None] \in Requests BY DEF Requests
    <3>2. request' \in [Callback -> Requests] BY <2>2, <3>1 DEF ChannelTypeOK
    <3>3. \A o \in Callback : request'[o] = request[o] \/ request'[o].pc = "account"
      BY <2>2 DEF ChannelTypeOK
    <3>4. QED BY <3>2, <3>3 DEF Request
  <2>3. QED BY <2>1, <2>2 DEF Request
<1>2. tokens' \in [Instance -> 0 .. PerMinute]
  <2>1. tokens[i] > 0 /\ tokens' = [tokens EXCEPT ![i] = @ - 1] BY DEF Request
  <2>2. tokens[i] - 1 \in 0 .. PerMinute BY <2>1, Constants DEF ChannelTypeOK
  <2>3. QED BY <2>1, <2>2 DEF ChannelTypeOK
<1>3. ChannelTypeOK' BY <1>1, <1>2 DEF ChannelTypeOK
<1>4. AccountInv' BY <1>1 DEF AccountInv, RequestInv
<1>5. QED BY <1>3, <1>4

(* What a tick leaves of the hour's reports.                                *)
LEMMA ReportsAge ==
  ASSUME reports \in Seq(Nat), ChannelTick
  PROVE  reports' \in Seq(Nat) /\ Len(reports') \in Nat /\ Len(reports') =< Len(reports)
<1>1. Expired \in 0 .. Len(reports)
  <2>1. {n \in DOMAIN reports : reports[n] = Window - 1} \in SUBSET (1 .. Len(reports)) OBVIOUS
  <2>2. IsFiniteSet(1 .. Len(reports)) /\ Cardinality(1 .. Len(reports)) = Len(reports)
    <3>1. PICK n \in Nat : n = Len(reports) OBVIOUS
    <3>2. IsFiniteSet(1 .. n) /\ Cardinality(1 .. n) = IF 1 > n THEN 0 ELSE n - 1 + 1
      BY FS_Interval
    <3>3. QED BY <3>1, <3>2
  <2>3. QED BY <2>1, <2>2, FS_Subset, FS_CardinalityType DEF Expired
<1>2. PICK expired \in 0 .. Len(reports) : expired = Expired BY <1>1
<1>3. reports' = [n \in 1 .. Len(reports) - expired |-> reports[n + expired] + 1]
  BY <1>2 DEF ChannelTick
<1>4. Len(reports) - expired \in Nat BY <1>2
<1>5. \A n \in 1 .. Len(reports) - expired : reports[n + expired] + 1 \in Nat BY <1>2
<1>6. QED BY <1>3, <1>4, <1>5

LEMMA ChannelTickKeeps ==
  ASSUME ChannelTypeOK, AccountInv, ChannelTick
  PROVE  ChannelTypeOK' /\ AccountInv'
<1>1. tokens' \in [Instance -> 0 .. PerMinute]
  BY Refilled DEF ChannelTick, ChannelTypeOK
<1>2. reports' \in Seq(Nat) BY ReportsAge DEF ChannelTypeOK
<1>3. UNCHANGED <<accounts, linked, linking, request>> BY DEF ChannelTick
<1>4. ChannelTypeOK' BY <1>1, <1>2, <1>3 DEF ChannelTypeOK
<1>5. AccountInv' BY <1>3 DEF AccountInv, RequestInv
<1>6. QED BY <1>4, <1>5

LEMMA ChannelsUnchanged ==
  ASSUME ChannelTypeOK, AccountInv, UNCHANGED channelVars
  PROVE  ChannelTypeOK' /\ AccountInv'
BY DEF channelVars, ChannelTypeOK, AccountInv, RequestInv

-----------------------------------------------------------------------------
(* The hourly limit.  A request that counted too few moves from those that  *)
(* are about to store to the reports, so that the two only grow together    *)
(* when a count says that there is room.                                    *)

LEMMA StoringCounted ==
  /\ IsFiniteSet(Storing) /\ Cardinality(Storing) \in Nat
  /\ Cardinality(Callback) \in Nat /\ Cardinality(Callback) >= 1
  /\ Cardinality(Storing) =< Cardinality(Callback)
<1>1. Storing \in SUBSET Callback BY DEF Storing
<1>2. IsFiniteSet(Callback) /\ Callback # {} BY ChannelAssumption
<1>3. Cardinality(Callback) \in Nat /\ Cardinality(Callback) # 0
  BY <1>2, FS_CardinalityType, FS_EmptySet
<1>4. QED BY <1>1, <1>2, <1>3, FS_Subset, FS_CardinalityType

LEMMA FewerStoring ==
  ASSUME ReportsLimited, reports \in Seq(Nat), Len(reports') \in Nat,
         Len(reports') =< Len(reports), Storing' \subseteq Storing
  PROVE  ReportsLimited'
<1>1. Cardinality(Storing') \in Nat /\ Cardinality(Storing') =< Cardinality(Storing)
  BY StoringCounted, FS_Subset, FS_CardinalityType
<1>2. QED BY <1>1, StoringCounted, Constants DEF ReportsLimited, Recent

(* Only a count lets a request go on to store.                              *)
LEMMA OneRequestMoves ==
  ASSUME ChannelTypeOK, NEW q \in Callback, NEW p, NEW a,
         To(q, p, a) \/ (Answered(q) /\ p = "none")
  PROVE  Storing' = IF p = "store" THEN Storing \cup {q} ELSE Storing \ {q}
<1>1. /\ request'[q].pc = p
      /\ \A o \in Callback : o # q => request'[o] = request[o]
  <2>1. CASE To(q, p, a)
    <3>1. request' = [request EXCEPT ![q] = [pc |-> p, at |-> request[q].at, account |-> a]]
      BY <2>1 DEF To
    <3>2. QED BY <3>1 DEF ChannelTypeOK
  <2>2. CASE Answered(q) /\ p = "none" BY <2>2 DEF Answered, NoRequest, ChannelTypeOK
  <2>3. QED BY <2>1, <2>2
<1>2. QED BY <1>1 DEF Storing

LEMMA ServeLimited ==
  ASSUME ChannelTypeOK, ReportsLimited, NEW q \in Callback, ServeChannel(q)
  PROVE  ReportsLimited'
<1>0. reports \in Seq(Nat) /\ Len(reports) \in Nat BY DEF ChannelTypeOK
<1>s. ASSUME NEW p, NEW a, p # "store", To(q, p, a), UNCHANGED reports PROVE ReportsLimited'
  BY <1>s, <1>0, OneRequestMoves, FewerStoring
<1>n. ASSUME Answered(q), UNCHANGED reports PROVE ReportsLimited'
  <2>1. Storing' = Storing \ {q} BY <1>n, OneRequestMoves
  <2>2. QED BY <1>n, <1>0, <2>1, FewerStoring
<1>1. CASE FindAccount(q) BY <1>1, <1>s DEF FindAccount
<1>2. CASE CreateAccount(q) BY <1>2, <1>s DEF CreateAccount
<1>3. CASE TheirAccount(q) BY <1>3, <1>s DEF TheirAccount
<1>4. CASE CommitAccount(q) BY <1>4, <1>s DEF CommitAccount
<1>5. CASE CountReports(q)
  <2>1. CASE Recent >= ReportsPerHour BY <2>1, <1>5, <1>n DEF CountReports
  <2>2. CASE ~ (Recent >= ReportsPerHour)
    <3>1. Storing' \in SUBSET Callback BY DEF Storing
    <3>2. Cardinality(Storing') \in Nat /\ Cardinality(Storing') =< Cardinality(Callback)
      BY <3>1, ChannelAssumption, FS_Subset, FS_CardinalityType
    <3>3. UNCHANGED reports BY <1>5 DEF CountReports
    <3>4. Len(reports) + 1 =< ReportsPerHour BY <2>2, <1>0, Constants DEF Recent
    <3>5. QED BY <3>1, <3>2, <3>3, <3>4, <1>0, StoringCounted, Constants DEF ReportsLimited, Recent
  <2>3. QED BY <2>1, <2>2
<1>6. CASE StoreReport(q)
  <2>1. Len(reports') = Len(reports) + 1 BY <1>6, <1>0 DEF StoreReport
  <2>2. Storing' = Storing \ {q} BY <1>6, OneRequestMoves DEF StoreReport
  <2>3. q \in Storing BY <1>6 DEF StoreReport, Storing
  <2>4. Cardinality(Storing') = Cardinality(Storing) - 1
    BY <2>2, <2>3, StoringCounted, FS_RemoveElement
  <2>5. QED BY <2>1, <2>4, <1>0, StoringCounted, Constants DEF ReportsLimited, Recent
<1>7. QED BY <1>1, <1>2, <1>3, <1>4, <1>5, <1>6 DEF ServeChannel

(* What stores nothing and lets nobody store.                               *)
LEMMA OthersLimited ==
  ASSUME ChannelTypeOK, ReportsLimited,
         \/ UNCHANGED channelVars \/ ChannelTick
         \/ (\E q \in Callback, i \in Instance : Request(q, i)) \/ (\E i \in Instance : Start(i)) \/ (\E Q : Cut(Q))
  PROVE  ReportsLimited'
<1>0. reports \in Seq(Nat) /\ Len(reports) \in Nat BY DEF ChannelTypeOK
<1>1. CASE UNCHANGED <<reports, request>>
  <2>1. Storing' = Storing BY <1>1 DEF Storing
  <2>2. QED BY <1>1, <1>0, <2>1, FewerStoring
<1>2. CASE ChannelTick
  <2>1. Storing' = Storing BY <1>2 DEF Storing, ChannelTick
  <2>2. QED BY <1>2, <1>0, <2>1, ReportsAge, FewerStoring
<1>3. ASSUME NEW q \in Callback, NEW i \in Instance, Request(q, i) PROVE ReportsLimited'
  <2>1. /\ UNCHANGED reports
        /\ request' \in {request, [request EXCEPT ![q] = [pc |-> "account", at |-> i, account |-> None]]}
    BY <1>3 DEF Request
  <2>2. ASSUME NEW o \in Callback
        PROVE  request'[o].pc = request[o].pc \/ request'[o].pc = "account"
    <3>1. CASE request' = request BY <3>1
    <3>2. CASE request' = [request EXCEPT ![q] = [pc |-> "account", at |-> i, account |-> None]]
      BY <3>2 DEF ChannelTypeOK
    <3>3. QED BY <2>1, <3>1, <3>2
  <2>3. Storing' \subseteq Storing BY <2>2 DEF Storing
  <2>4. QED BY <2>1, <2>3, <1>0, FewerStoring
<1>4. ASSUME NEW Q, Cut(Q) PROVE ReportsLimited'
  <2>1. UNCHANGED reports BY <1>4 DEF Cut
  <2>2. \A o \in Callback : request'[o].pc = request[o].pc \/ request'[o].pc = "none"
    BY <1>4 DEF Cut, NoRequest
  <2>3. Storing' \subseteq Storing BY <2>2 DEF Storing
  <2>4. QED BY <2>1, <2>3, <1>0, FewerStoring
<1>5. QED BY <1>1, <1>2, <1>3, <1>4 DEF channelVars, Start

-----------------------------------------------------------------------------
(* The instances *)

Inv == TypeOK /\ MigrationInv /\ ServingInv /\ DrainInv /\ AccountInv /\ ReportsLimited

(* Nothing that was done is undone.                                         *)
LEMMA DoneStays ==
  ASSUME TypeOK, applied \subseteq applied', NEW v PROVE Done(v) => Done(v)'
BY DEF Done

(* What a migrated process serves is complete, and so is what the check     *)
(* finds complete.                                                          *)
LEMMA MigratedIsComplete ==
  ASSUME TypeOK, MigrationInv, NEW i \in Instance, Migrated(i)
  PROVE  \A v \in 1 .. Known[i] : Done(v)
<1>1. next[i] \in Nat /\ Known[i] \in Nat /\ next[i] > Known[i]
  BY Constants DEF TypeOK, MigrationTypeOK, Migrated
<1>2. 1 .. next[i] - 1 \subseteq applied
  BY DEF MigrationInv, StepInv, Prepared, Migrated
<1>3. QED BY <1>1, <1>2 DEF Done

LEMMA CheckedIsComplete ==
  ASSUME NEW i \in Instance, PendingMigrations(i) = {}
  PROVE  \A v \in 1 .. Known[i] : Done(v)
BY Constants DEF PendingMigrations, Done

LEMMA InitInv == Init => Inv
<1> SUFFICES ASSUME Init PROVE Inv OBVIOUS
<1> USE DEF Init, MigrationInit, ChannelInit
<1>1. MigrationTypeOK BY DEF MigrationTypeOK, Version
<1>2. ChannelTypeOK BY Constants DEF ChannelTypeOK, Requests, NoRequest
<1>3. TypeOK BY <1>1, <1>2, Constants DEF TypeOK
<1>4. MigrationInv
  BY DEF MigrationInv, HistoryInv, StepInv, Done
<1>5. AccountInv BY DEF AccountInv, RequestInv, NoRequest
<1>6. ServingInv /\ DrainInv BY DEF ServingInv, DrainInv
<1>7. ReportsLimited
  <2>1. Storing = {} /\ Recent = 0 BY DEF Storing, Recent, NoRequest
  <2>2. QED BY <2>1, StoringCounted, FS_EmptySet, Constants DEF ReportsLimited
<1>8. QED BY <1>3, <1>4, <1>5, <1>6, <1>7 DEF Inv

(* Each action keeps each part of the invariant; the migrations and the     *)
(* channels are touched by few of them.                                     *)

(* What happens to a request, and what to an instance.                      *)
Requested ==
  \E q \in Callback : \/ \E i \in Instance : RequestArrives(q, i)
                      \/ RequestServed(q) \/ RequestFails(q)

LEMMA MigrationsKept ==
  ASSUME Inv, [Next]_vars PROVE MigrationTypeOK' /\ MigrationInv' /\ applied \subseteq applied'
<1> USE DEF Inv, TypeOK
<1>1. CASE UNCHANGED migrationVars
  BY <1>1, MigrationUnchanged DEF migrationVars
<1>2. CASE \E i \in Instance : StartMigrate(i)
  BY <1>2, StartKeeps DEF StartMigrate
<1>3. CASE \E i \in Instance : Migrate(i)
  <2>1. PICK i \in Instance : Migrate(i) BY <1>3
  <2>2. MigrationTypeOK' BY <2>1, MigrateType
  <2>3. MigrationInv' BY <2>1, MigrateHistory, MigrateSteps DEF MigrationInv
  <2>4. applied \subseteq applied'
    BY <2>1 DEF Migrate, BootstrapBegin, BootstrapCommit, ApplyDone, ApplyBegin, ApplyCommit
  <2>5. QED BY <2>2, <2>3, <2>4
<1>4. CASE \E i \in Instance : LeaveMigrate(i)
  BY <1>4, LeaveKeeps DEF LeaveMigrate
<1>5. QED
  <2>1. CASE UNCHANGED vars BY <2>1, <1>1 DEF vars
  <2>2. CASE Tick BY <2>2, <1>1 DEF Tick
  <2>3. ASSUME NEW i \in Instance,
               \/ Start(i) \/ Migrating(i) \/ MigrationsComplete(i) \/ MigrationFails(i) \/ CheckPending(i)
               \/ Terminate(i) \/ SetDraining(i) \/ Shutdown(i) \/ Exit(i) \/ Kill(i)
               \/ Poll(i)
        PROVE  UNCHANGED migrationVars \/ StartMigrate(i) \/ Migrate(i) \/ LeaveMigrate(i)
    BY <2>3 DEF Start, Migrating, MigrationsComplete, MigrationFails, CheckPending, Terminate,
         SetDraining, Shutdown, Exit, Kill, Poll
  <2>4. CASE Requested
    BY <2>4, <1>1 DEF Requested, RequestArrives, RequestServed, RequestFails
  <2>5. QED BY <1>1, <1>2, <1>3, <1>4, <2>1, <2>2, <2>3, <2>4 DEF Next, Requested

LEMMA ChannelSteps ==
  ASSUME [Next]_vars
  PROVE  \/ UNCHANGED channelVars \/ ChannelTick
         \/ \E q \in Callback, i \in Instance : Request(q, i)
         \/ \E q \in Callback : ServeChannel(q)
         \/ \E i \in Instance : Start(i)
         \/ \E Q : Cut(Q) /\ UNCHANGED tokens
<1>1. CASE UNCHANGED vars BY <1>1 DEF vars
<1>2. CASE Tick BY <1>2 DEF Tick
<1>3. ASSUME NEW i \in Instance,
             \/ Start(i) \/ Migrating(i) \/ MigrationsComplete(i) \/ MigrationFails(i) \/ CheckPending(i)
             \/ Terminate(i) \/ SetDraining(i) \/ Shutdown(i) \/ Exit(i) \/ Kill(i)
             \/ Poll(i)
      PROVE  UNCHANGED channelVars \/ Start(i) \/ (\E Q : Cut(Q) /\ UNCHANGED tokens)
  <2>1. CASE Exit(i) \/ Kill(i)
    <3>1. Cut(RequestsAt(i)) /\ UNCHANGED tokens BY <2>1 DEF Exit, Kill
    <3>2. QED BY <3>1
  <2>2. CASE ~ (Exit(i) \/ Kill(i))
    BY <1>3, <2>2 DEF Migrating, MigrationsComplete, MigrationFails, CheckPending, Terminate,
         SetDraining, Shutdown, Poll
  <2>3. QED BY <2>1, <2>2
<1>4. CASE Requested
  <2>1. ASSUME NEW q \in Callback, NEW i \in Instance, RequestArrives(q, i) PROVE Request(q, i)
    BY <2>1 DEF RequestArrives
  <2>2. ASSUME NEW q \in Callback, RequestServed(q) PROVE ServeChannel(q)
    BY <2>2 DEF RequestServed
  <2>3. ASSUME NEW q \in Callback, RequestFails(q) PROVE Cut({q}) /\ UNCHANGED tokens
    BY <2>3 DEF RequestFails
  <2>4. QED BY <1>4, <2>1, <2>2, <2>3 DEF Requested
<1>5. QED BY <1>1, <1>2, <1>3, <1>4 DEF Next, Requested

LEMMA ChannelsKept ==
  ASSUME Inv, [Next]_vars PROVE ChannelTypeOK' /\ AccountInv'
<1> USE DEF Inv, TypeOK
<1>1. CASE UNCHANGED channelVars BY <1>1, ChannelsUnchanged
<1>2. CASE ChannelTick BY <1>2, ChannelTickKeeps
<1>3. ASSUME NEW q \in Callback, NEW i \in Instance, Request(q, i)
      PROVE  ChannelTypeOK' /\ AccountInv'
  BY <1>3, RequestKeeps
<1>4. ASSUME NEW q \in Callback, ServeChannel(q) PROVE ChannelTypeOK' /\ AccountInv'
  BY <1>4, ServeType, ServeAccounts
<1>5. ASSUME NEW Q, Cut(Q), UNCHANGED tokens PROVE ChannelTypeOK' /\ AccountInv'
  BY <1>5, CutKeeps
<1>6. ASSUME NEW i \in Instance, Start(i) PROVE ChannelTypeOK' /\ AccountInv'
  <2>1. tokens' \in [Instance -> 0 .. PerMinute] BY <1>6, Constants DEF Start, ChannelTypeOK
  <2>2. UNCHANGED <<accounts, linked, linking, reports, request>> BY <1>6 DEF Start
  <2>3. ChannelTypeOK' BY <2>1, <2>2 DEF ChannelTypeOK
  <2>4. AccountInv' BY <2>2 DEF AccountInv, RequestInv
  <2>5. QED BY <2>3, <2>4
<1>7. QED BY <1>1, <1>2, <1>3, <1>4, <1>5, <1>6, ChannelSteps

LEMMA LimitKept ==
  ASSUME Inv, [Next]_vars PROVE ReportsLimited'
<1>1. ChannelTypeOK /\ ReportsLimited BY DEF Inv, TypeOK
<1>2. ASSUME NEW q \in Callback, ServeChannel(q) PROVE ReportsLimited'
  BY <1>1, <1>2, ServeLimited
<1>3. CASE \/ UNCHANGED channelVars \/ ChannelTick
           \/ (\E q \in Callback, i \in Instance : Request(q, i))
           \/ (\E i \in Instance : Start(i)) \/ (\E Q : Cut(Q))
  BY <1>1, <1>3, OthersLimited
<1>4. QED BY <1>2, <1>3, ChannelSteps

LEMMA ServingKept ==
  ASSUME Inv, [Next]_vars PROVE ServingInv'
<1> SUFFICES ASSUME NEW j \in Instance, pc'[j] \in {"serving", "draining"}
             PROVE  \A v \in 1 .. Known[j] : Done(v)'
  BY DEF ServingInv
<1>1. \A v \in 1 .. Known[j] : Done(v) => Done(v)'
  BY MigrationsKept DEF Done
<1>2. CASE pc[j] \in {"serving", "draining"}
  BY <1>1, <1>2 DEF Inv, ServingInv
<1>3. CASE Migrated(j)
  BY <1>1, <1>3, MigratedIsComplete DEF Inv
<1>4. CASE PendingMigrations(j) = {}
  BY <1>1, <1>4, CheckedIsComplete
<1>5. pc[j] \in {"serving", "draining"} \/ Migrated(j) \/ PendingMigrations(j) = {}
  <2>0. pc \in [Instance -> {"exited", "killed", "migrate", "autoMigrate", "check",
                            "serving", "draining", "stopping"}]
    BY DEF Inv, TypeOK
  <2>1. CASE UNCHANGED pc BY <2>1
  <2>2. CASE \E i \in Instance : MigrationsComplete(i)
    BY <2>0, <2>2 DEF MigrationsComplete, Becomes
  <2>3. CASE \E i \in Instance : CheckPending(i)
    BY <2>0, <2>3 DEF CheckPending, Becomes
  <2>4. CASE \E i \in Instance : Start(i) \/ MigrationFails(i) \/ SetDraining(i) \/ Shutdown(i) \/ Exit(i) \/ Kill(i)
    BY <2>0, <2>4 DEF Start, MigrationFails, SetDraining, Shutdown, Exit, Kill, Becomes
  <2>5. CASE Requested
    BY <2>1, <2>5 DEF Requested, RequestArrives, RequestServed, RequestFails, lifeVars
  <2>6. QED
    BY <2>1, <2>2, <2>3, <2>4, <2>5 DEF Next, Requested, vars, lifeVars, Tick, Migrating, Terminate, Poll
<1>6. QED BY <1>2, <1>3, <1>4, <1>5

LifeTypeOK ==
  /\ pc \in [Instance -> {"exited", "killed", "migrate", "autoMigrate", "check",
                          "serving", "draining", "stopping"}]
  /\ signalled \subseteq Instance /\ routed \subseteq Instance
  /\ left \in [Instance -> Nat] /\ unpolled \in [Instance -> 0 .. HealthInterval]
  /\ starts \in 0 .. MaxStarts

LEMMA LifeTypeKept ==
  ASSUME Inv, [Next]_vars PROVE LifeTypeOK'
<1>0. LifeTypeOK BY DEF LifeTypeOK, Inv, TypeOK
<1> USE DEF LifeTypeOK, Becomes
<1>1. CASE UNCHANGED vars BY <1>0, <1>1 DEF vars, lifeVars
<1>2. CASE Tick
  <2>1. left' \in [Instance -> Nat] BY <1>0, <1>2 DEF Tick
  <2>2. unpolled' \in [Instance -> 0 .. HealthInterval] BY <1>0, <1>2, Constants DEF Tick
  <2>3. QED BY <1>0, <1>2, <2>1, <2>2 DEF Tick
<1>3. ASSUME NEW i \in Instance, Start(i) PROVE LifeTypeOK'
  <2>1. pc' \in [Instance -> {"exited", "killed", "migrate", "autoMigrate", "check",
                             "serving", "draining", "stopping"}]
    BY <1>0, <1>3 DEF Start
  <2>2. starts' \in 0 .. MaxStarts BY <1>0, <1>3, Constants DEF Start
  <2>3. QED BY <1>0, <1>3, <2>1, <2>2 DEF Start
<1>4. CASE Requested \/ \E i \in Instance : Migrating(i)
  BY <1>0, <1>4 DEF Requested, Migrating, RequestArrives, RequestServed, RequestFails, lifeVars
<1>5. ASSUME NEW i \in Instance, MigrationsComplete(i) \/ MigrationFails(i) \/ CheckPending(i) \/ Terminate(i)
      PROVE  LifeTypeOK'
  BY <1>0, <1>5 DEF MigrationsComplete, MigrationFails, CheckPending, Terminate
<1>6. ASSUME NEW i \in Instance, SetDraining(i) \/ Shutdown(i) PROVE LifeTypeOK'
  BY <1>0, <1>6, Constants DEF SetDraining, Shutdown
<1>7. ASSUME NEW i \in Instance, Exit(i) \/ Kill(i) PROVE LifeTypeOK'
  BY <1>0, <1>7 DEF Exit, Kill
<1>8. ASSUME NEW i \in Instance, Poll(i) PROVE LifeTypeOK'
  <2>1. unpolled' \in [Instance -> 0 .. HealthInterval] BY <1>0, <1>8, Constants DEF Poll
  <2>2. routed' \subseteq Instance BY <1>0, <1>8 DEF Poll
  <2>3. QED BY <1>0, <1>8, <2>1, <2>2 DEF Poll
<1>9. QED BY <1>1, <1>2, <1>3, <1>4, <1>5, <1>6, <1>7, <1>8 DEF Next, Requested

(* Once the balancer has asked, which it does before the delay is over, it  *)
(* knows; until then each tick takes as much from what is left as it adds   *)
(* to how long ago it asked.                                                *)
DrainOf(j) ==
  /\ pc[j] = "draining" /\ j \in routed => left[j] + unpolled[j] >= DrainDelay
  /\ pc[j] = "stopping" => j \notin routed

LEMMA DrainKept ==
  ASSUME Inv, [Next]_vars PROVE DrainInv'
<1> SUFFICES ASSUME NEW j \in Instance PROVE DrainOf(j)'
  BY DEF DrainInv, DrainOf
<1>0. /\ DrainOf(j) /\ LifeTypeOK
      /\ left[j] \in Nat /\ unpolled[j] \in 0 .. HealthInterval
  BY DEF Inv, TypeOK, LifeTypeOK, DrainInv, DrainOf
<1> USE DEF DrainOf
<1>1. CASE UNCHANGED <<pc[j], left[j], unpolled[j]>> /\ (j \in routed' => j \in routed)
  BY <1>0, <1>1
<1>2. CASE Tick
  <2>1. /\ unpolled'[j] = unpolled[j] + 1 /\ left'[j] = IF left[j] = 0 THEN 0 ELSE left[j] - 1
        /\ UNCHANGED <<pc, routed>> /\ unpolled[j] < HealthInterval
    BY <1>2 DEF Tick
  <2>2. CASE left[j] = 0 BY <1>0, <2>1, <2>2, Constants
  <2>3. CASE left[j] # 0
    <3>1. left'[j] + unpolled'[j] = left[j] + unpolled[j] BY <1>0, <2>1, <2>3, Constants
    <3>2. QED BY <1>0, <2>1, <3>1
  <2>4. QED BY <2>2, <2>3
<1>3. CASE pc'[j] \notin {"draining", "stopping"} BY <1>3
<1>4. CASE SetDraining(j)
  BY <1>0, <1>4, Constants DEF SetDraining, Becomes, LifeTypeOK
<1>5. CASE Shutdown(j)
  <2>1. j \notin routed BY <1>0, <1>5, Constants DEF Shutdown
  <2>2. QED BY <1>0, <1>5, <2>1 DEF Shutdown, Becomes, LifeTypeOK
<1>6. CASE Poll(j)
  BY <1>0, <1>6 DEF Poll, Ready
<1>7. ASSUME NEW i \in Instance, i # j, SetDraining(i) \/ Shutdown(i) \/ Exit(i) \/ Kill(i)
      PROVE  UNCHANGED <<pc[j], left[j], unpolled[j], routed>>
  BY <1>0, <1>7 DEF SetDraining, Shutdown, Exit, Kill, Becomes, LifeTypeOK
<1>8. ASSUME NEW i \in Instance, i # j,
             Start(i) \/ MigrationsComplete(i) \/ MigrationFails(i) \/ CheckPending(i)
      PROVE  UNCHANGED <<pc[j], left[j], unpolled[j], routed>>
  BY <1>0, <1>8 DEF Start, MigrationsComplete, MigrationFails, CheckPending, Becomes, LifeTypeOK
<1>9. ASSUME NEW i \in Instance, i # j, Poll(i)
      PROVE  UNCHANGED <<pc[j], left[j], unpolled[j]>> /\ (j \in routed' => j \in routed)
  BY <1>0, <1>9 DEF Poll, LifeTypeOK
<1>10. ASSUME Start(j) \/ MigrationsComplete(j) \/ MigrationFails(j) \/ CheckPending(j) \/ Exit(j) \/ Kill(j)
       PROVE  pc'[j] \notin {"draining", "stopping"}
  BY <1>0, <1>10 DEF Start, MigrationsComplete, MigrationFails, CheckPending, Exit, Kill, Becomes, LifeTypeOK
<1>11. ASSUME Requested \/ \E i \in Instance : Migrating(i) \/ Terminate(i)
       PROVE  UNCHANGED <<pc[j], left[j], unpolled[j], routed>>
  BY <1>11 DEF Requested, Migrating, Terminate, RequestArrives, RequestServed, RequestFails, lifeVars
<1>12. CASE UNCHANGED vars BY <1>1, <1>12 DEF vars, lifeVars
<1>13. QED
  <2>1. ASSUME NEW i \in Instance,
               \/ Start(i) \/ Migrating(i) \/ MigrationsComplete(i) \/ MigrationFails(i) \/ CheckPending(i)
               \/ Terminate(i) \/ SetDraining(i) \/ Shutdown(i) \/ Exit(i) \/ Kill(i)
               \/ Poll(i)
        PROVE  DrainOf(j)'
    <3>1. CASE i = j
      BY <2>1, <3>1, <1>1, <1>3, <1>4, <1>5, <1>6, <1>10, <1>11
    <3>2. CASE i # j
      BY <2>1, <3>2, <1>1, <1>7, <1>8, <1>9, <1>11
    <3>3. QED BY <3>1, <3>2
  <2>2. CASE Requested BY <2>2, <1>1, <1>11
  <2>3. QED BY <2>1, <2>2, <1>2, <1>12 DEF Next, Requested

-----------------------------------------------------------------------------
LEMMA NextInv == Inv /\ [Next]_vars => Inv'
<1> SUFFICES ASSUME Inv, [Next]_vars PROVE Inv' OBVIOUS
<1>1. MigrationTypeOK' /\ MigrationInv' BY MigrationsKept
<1>2. ChannelTypeOK' /\ AccountInv' BY ChannelsKept
<1>3. LifeTypeOK' BY LifeTypeKept
<1>4. TypeOK' BY <1>1, <1>2, <1>3 DEF TypeOK, LifeTypeOK
<1>5. ServingInv' /\ DrainInv' BY ServingKept, DrainKept
<1>6. ReportsLimited' BY LimitKept
<1>7. QED BY <1>1, <1>2, <1>4, <1>5, <1>6 DEF Inv

(* The inductive invariant of the instances: types, how far each migration  *)
(* has come, what who serves has seen done, when the balancer will ask, and *)
(* what each request knows of the account, and how many may yet store a     *)
(* report (database.go, main.go, channels.go).                              *)
THEOREM ServiceInvariant == Spec => []Inv
<1>1. Init => Inv BY InitInv
<1>2. Inv /\ [Next]_vars => Inv' BY NextInv
<1>3. QED BY <1>1, <1>2, PTL DEF Spec

(* Migrate commits every migration once and in order for any number of      *)
(* processes, releases and crashes, and who serves has its schema           *)
(* (database.go Migrate, main.go).                                          *)
THEOREM SchemaAlwaysInStep == Spec => []SchemaInStep
<1>1. Inv => SchemaInStep
  <2> SUFFICES ASSUME Inv PROVE SchemaInStep OBVIOUS
  <2>1. \A v \in Version : ran[v] = IF Done(v) THEN 1 ELSE 0
    BY DEF Inv, MigrationInv, HistoryInv
  <2>2. \A v \in Version : ran[v] =< 1 /\ (ran[v] = 1 <=> Done(v))
    BY <2>1
  <2>3. ASSUME NEW v \in Version, Done(v), NEW u \in 1 .. v PROVE u \in Version /\ Done(u)
    <3>1. u \in Version BY Constants DEF Version
    <3>2. CASE v \in applied BY <3>1, <3>2 DEF Inv, MigrationInv, HistoryInv
    <3>3. CASE v =< Legacy BY <3>1, <3>3, Constants DEF Done, Version
    <3>4. QED BY <2>3, <3>1, <3>2, <3>3 DEF Done
  <2>4. ASSUME NEW i \in Instance, Listening(i), NEW v \in 1 .. Known[i] PROVE ran[v] = 1
    <3>1. Done(v) BY <2>4 DEF Inv, ServingInv, Listening
    <3>2. v \in Version BY Constants DEF Version
    <3>3. QED BY <2>2, <3>1, <3>2
  <2>5. QED BY <2>2, <2>3, <2>4 DEF SchemaInStep
<1>2. QED BY <1>1, ServiceInvariant, PTL

(* With a drain delay above the health-check interval, no request is sent   *)
(* to a closed listener, whatever the timing (main.go, health.go).          *)
THEOREM NothingEverRefused == Spec => []NothingRefused
<1>1. Inv => NothingRefused BY DEF Inv, DrainInv, NothingRefused
<1>2. QED BY <1>1, ServiceInvariant, PTL

(* However many first requests of a phone run at once and wherever they are *)
(* cut off, it gets one account (channels.go channelAccount).               *)
THEOREM AlwaysOneAccountPerPhone == Spec => []OneAccountPerPhone
<1>1. Inv => OneAccountPerPhone BY DEF Inv, AccountInv, RequestInv, OneAccountPerPhone
<1>2. QED BY <1>1, ServiceInvariant, PTL

(* However many requests of a phone are under way at once, at one instance  *)
(* or at several, the hourly limit is exceeded by fewer than they are       *)
(* (channels.go storeChannelReport).                                        *)
THEOREM ReportsAlwaysLimited == Spec => []ReportsLimited
<1>1. Inv => ReportsLimited BY DEF Inv
<1>2. QED BY <1>1, ServiceInvariant, PTL
=============================================================================
