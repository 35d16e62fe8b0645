------------------------ MODULE CountyResponseProofs ------------------------
(***************************************************************************)
(* What CountyResponse keeps for any number of reports, responders, counties *)
(* and instances, any bounds and any number of faults.                      *)
(***************************************************************************)
EXTENDS CountyResponse, FiniteSetTheorems, TLAPS

LEMMA Constants ==
  /\ None \notin Responder /\ None \notin Report /\ None \notin Instance
  /\ Retention \notin Instance /\ Retention # None
  /\ IsFiniteSet(Instance) /\ MaxFaults \in Nat
BY CountyAssumption, BoundAssumption, RetentionAssumption

-----------------------------------------------------------------------------
(* Responders.  What a transaction has read of the row it locked is what the *)
(* row still says, since nobody else passes the lock.                        *)
LifeFields == {"status", "moderatedBy", "duplicateOf"}

Event == [from : ResponseStatus, to : ResponseStatus, actor : Responder]

DeskTypes ==
  /\ DOMAIN life = Report /\ \A r \in Report : LifeFields \subseteq DOMAIN life[r]
  /\ response \in [Report -> Response]
  /\ trail \in [Report -> Seq(Event)]
  /\ answering \in [Responder -> Answer]

Locked(p, r) == answering[p].report = r

LockInv ==
  \A p \in Responder : \A r \in Report : Locked(p, r) =>
    /\ InScope(r, Desk[p])
    /\ answering[p].current = response[r].status
    /\ answering[p].to \in {"acknowledged", "resolved"}
    /\ CanChangeResponse(answering[p].current, answering[p].to)
    /\ \A q \in Responder : Locked(q, r) => q = p

DeskInv == DeskTypes /\ LockInv /\ ResponseTrail

LEMMA DeskInit == Init => DeskInv
<1> SUFFICES ASSUME Init PROVE DeskInv OBVIOUS
<1>1. life = [r \in Report |-> Curation!Absent] BY DEF Init, Curation!Init
<1>2. DeskTypes
  BY <1>1 DEF Init, DeskTypes, LifeFields, Curation!Absent, Response, Unanswered,
              ResponseStatus, Answer, NoAnswer, Event
<1>3. LockInv BY Constants DEF Init, LockInv, Locked, NoAnswer
<1>4. ResponseTrail BY DEF Init, ResponseTrail, Chained, Unanswered
<1>5. QED BY <1>2, <1>3, <1>4 DEF DeskInv

(* Curation changes one row at a time, never one that a responder holds.    *)
LEMMA CurationKeeps ==
  ASSUME DeskInv, NEW r \in Report, CurationStep(r)
  PROVE  DeskInv'
<1>1. UNCHANGED desks BY DEF CurationStep, Publish, Decide
<1>2. /\ DOMAIN life' = Report /\ LifeFields \subseteq DOMAIN life'[r]
      /\ \A q \in Report : q # r => life'[q] = life[q]
  BY DEF CurationStep, Publish, Decide, Curation!Publish, Curation!AutoVerify, Curation!Decide,
         Curation!Become, DeskInv, DeskTypes, LifeFields
<1>3. \A p \in Responder : ~ Locked(p, r)
  <2>1. CASE Decide(r) BY <2>1 DEF Decide, RowLocked, Locked
  <2>2. CASE Publish(r)
    <3>1. life[r].status = "absent" BY <2>2 DEF Publish, Curation!Publish, Curation!Published
    <3>2. QED BY <3>1 DEF DeskInv, LockInv, InScope, Verified
  <2>3. QED BY <2>1, <2>2 DEF CurationStep
<1>4. DeskTypes' BY <1>1, <1>2 DEF DeskInv, DeskTypes, desks
<1>5. LockInv'
  BY <1>1, <1>2, <1>3 DEF DeskInv, LockInv, desks, Locked, InScope, Verified, IsOriginal
<1>6. ResponseTrail' BY <1>1 DEF DeskInv, ResponseTrail, desks
<1>7. QED BY <1>4, <1>5, <1>6 DEF DeskInv

LEMMA LockKeeps ==
  ASSUME DeskInv, NEW p \in Responder, NEW r \in Report, NEW to \in ResponseStatus,
         LockForResponse(p, r, to)
  PROVE  DeskInv'
<1> DEFINE tx == [report |-> r, to |-> to, current |-> response[r].status]
<1>1. /\ UNCHANGED <<life, response, trail>>
      /\ answering' = [answering EXCEPT ![p] = tx]
      /\ InScope(r, Desk[p]) /\ to \in {"acknowledged", "resolved"}
      /\ CanChangeResponse(response[r].status, to)
      /\ \A q \in Responder : ~ Locked(q, r)
  BY DEF LockForResponse, curation, RowLocked, Locked
<1>2. tx \in Answer BY DEF DeskInv, DeskTypes, Response, Answer
<1>3. tx.report = r /\ tx.to = to /\ tx.current = response[r].status OBVIOUS
<1> HIDE DEF tx
<1>4. /\ answering' \in [Responder -> Answer] /\ answering'[p] = tx
      /\ \A q \in Responder : q # p => answering'[q] = answering[q]
  BY <1>1, <1>2 DEF DeskInv, DeskTypes
<1>5. DeskTypes' BY <1>1, <1>4 DEF DeskInv, DeskTypes
<1>6. LockInv'
  BY <1>1, <1>3, <1>4 DEF DeskInv, LockInv, Locked, InScope, Verified, IsOriginal
<1>7. ResponseTrail' BY <1>1 DEF DeskInv, ResponseTrail
<1>8. QED BY <1>5, <1>6, <1>7 DEF DeskInv

(* The response that a transaction commits follows the one it read.         *)
LEMMA StampFacts ==
  ASSUME NEW old \in Response, NEW to \in {"acknowledged", "resolved"},
         old.acknowledged <=> old.status # "open", old.resolved <=> old.status = "resolved",
         CanChangeResponse(old.status, to)
  PROVE  /\ Stamp(old, to) \in Response /\ Stamp(old, to).status = to
         /\ Stamp(old, to).acknowledged
         /\ Stamp(old, to).resolved <=> to = "resolved"
BY DEF Stamp, Response, ResponseStatus, CanChangeResponse

LEMMA AppendChained ==
  ASSUME NEW log \in Seq(Event), NEW e \in Event, Chained(log),
         e.from = IF log = <<>> THEN "open" ELSE log[Len(log)].to
  PROVE  /\ Chained(Append(log, e)) /\ Append(log, e) \in Seq(Event)
         /\ Append(log, e) # <<>> /\ Append(log, e)[Len(Append(log, e))] = e
<1> DEFINE new == Append(log, e)
<1>1. /\ new \in Seq(Event) /\ Len(new) = Len(log) + 1 /\ Len(log) \in Nat
      /\ new[Len(log) + 1] = e /\ \A k \in 1 .. Len(log) : new[k] = log[k]
  OBVIOUS
<1>2. log = <<>> <=> Len(log) = 0 OBVIOUS
<1> HIDE DEF new
<1>3. ASSUME NEW k \in 1 .. Len(new)
      PROVE  new[k].from = IF k = 1 THEN "open" ELSE new[k - 1].to
  <2>1. CASE k = Len(log) + 1
    <3>1. CASE Len(log) = 0 BY <1>1, <1>2, <2>1, <3>1
    <3>2. CASE Len(log) # 0
      <4>1. new[k].from = log[Len(log)].to /\ k # 1 /\ k - 1 = Len(log) BY <1>1, <1>2, <2>1, <3>2
      <4>2. new[k - 1] = log[Len(log)] BY <1>1, <3>2, <4>1
      <4>3. QED BY <4>1, <4>2
    <3>3. QED BY <3>1, <3>2
  <2>2. CASE k # Len(log) + 1
    <3>1. k \in 1 .. Len(log) BY <1>1, <2>2
    <3>2. log[k].from = IF k = 1 THEN "open" ELSE log[k - 1].to BY <3>1 DEF Chained
    <3>3. k # 1 => k - 1 \in 1 .. Len(log) BY <1>1, <3>1
    <3>4. QED BY <1>1, <3>1, <3>2, <3>3
  <2>3. QED BY <2>1, <2>2
<1>4. Chained(new) BY <1>3 DEF Chained
<1>5. new # <<>> BY <1>1
<1>6. QED BY <1>1, <1>4, <1>5 DEF new

LEMMA CommitKeeps ==
  ASSUME DeskInv, NEW p \in Responder, CommitResponse(p)
  PROVE  DeskInv'
<1>1. PICK r \in Report : Locked(p, r)
  BY DEF CommitResponse, DeskInv, DeskTypes, Answer, Locked
<1>2. PICK to \in {"acknowledged", "resolved"} : to = answering[p].to
  BY <1>1 DEF DeskInv, LockInv
<1>3. PICK e \in Event : e = [from |-> answering[p].current, to |-> to, actor |-> p]
  BY <1>2 DEF DeskInv, DeskTypes, Answer, Event, ResponseStatus
<1>4. /\ UNCHANGED life
      /\ response' = [response EXCEPT ![r] = Stamp(@, to)]
      /\ trail' = [trail EXCEPT ![r] = Append(@, e)]
      /\ answering' = [answering EXCEPT ![p] = NoAnswer]
  BY <1>1, <1>2, <1>3 DEF CommitResponse, Locked, curation
<1>5. /\ response[r] \in Response /\ e.from = response[r].status /\ e.to = to
      /\ CanChangeResponse(response[r].status, to)
      /\ trail[r] \in Seq(Event) /\ Chained(trail[r])
      /\ response[r].status = IF trail[r] = <<>> THEN "open" ELSE trail[r][Len(trail[r])].to
      /\ response[r].acknowledged <=> response[r].status # "open"
      /\ response[r].resolved <=> response[r].status = "resolved"
  BY <1>1, <1>2, <1>3 DEF DeskInv, DeskTypes, LockInv, ResponseTrail
<1>6. /\ Stamp(response[r], to) \in Response /\ Stamp(response[r], to).status = to
      /\ Stamp(response[r], to).acknowledged
      /\ Stamp(response[r], to).resolved <=> to = "resolved"
  BY <1>5, StampFacts
<1>7. /\ response' \in [Report -> Response] /\ response'[r] = Stamp(response[r], to)
      /\ \A q \in Report : q # r => response'[q] = response[q]
  BY <1>4, <1>6 DEF DeskInv, DeskTypes
<1>8. /\ Chained(Append(trail[r], e)) /\ Append(trail[r], e) \in Seq(Event)
      /\ Append(trail[r], e) # <<>> /\ Append(trail[r], e)[Len(Append(trail[r], e))] = e
  BY <1>5, AppendChained
<1>9. /\ trail' \in [Report -> Seq(Event)] /\ trail'[r] = Append(trail[r], e)
      /\ \A q \in Report : q # r => trail'[q] = trail[q]
  BY <1>4, <1>8 DEF DeskInv, DeskTypes
<1>10. NoAnswer \in Answer /\ NoAnswer.report = None BY DEF NoAnswer, Answer, ResponseStatus
<1>11. /\ answering' \in [Responder -> Answer] /\ answering'[p].report = None
       /\ \A q \in Responder : q # p => answering'[q] = answering[q]
  BY <1>4, <1>10 DEF DeskInv, DeskTypes
<1>12. DeskTypes' BY <1>4, <1>7, <1>9, <1>11 DEF DeskInv, DeskTypes
<1>13. LockInv'
  <2>1. \A q \in Responder : \A s \in Report : Locked(q, s)' => q # p /\ Locked(q, s) /\ s # r
    BY <1>1, <1>11, Constants DEF Locked, DeskInv, LockInv
  <2>2. QED
    BY <1>4, <1>7, <1>11, <2>1 DEF DeskInv, LockInv, Locked, InScope, Verified, IsOriginal
<1>14. ResponseTrail'
  <2>1. ASSUME NEW s \in Report
        PROVE  /\ Chained(trail'[s])
               /\ response'[s].status = IF trail'[s] = <<>> THEN "open" ELSE trail'[s][Len(trail'[s])].to
               /\ response'[s].acknowledged <=> response'[s].status # "open"
               /\ response'[s].resolved <=> response'[s].status = "resolved"
    <3>1. CASE s = r BY <1>5, <1>6, <1>7, <1>8, <1>9, <3>1
    <3>2. CASE s # r BY <1>7, <1>9, <3>2 DEF DeskInv, ResponseTrail
    <3>3. QED BY <3>1, <3>2
  <2>2. QED BY <2>1 DEF ResponseTrail, Chained
<1>15. QED BY <1>12, <1>13, <1>14 DEF DeskInv

LEMMA AbortKeeps ==
  ASSUME DeskInv, NEW p \in Responder, AbortResponse(p)
  PROVE  DeskInv'
<1>1. UNCHANGED <<life, response, trail>> /\ answering' = [answering EXCEPT ![p] = NoAnswer]
  BY DEF AbortResponse, curation
<1>2. NoAnswer \in Answer /\ NoAnswer.report = None BY DEF NoAnswer, Answer, ResponseStatus
<1>3. /\ answering' \in [Responder -> Answer] /\ answering'[p].report = None
      /\ \A q \in Responder : q # p => answering'[q] = answering[q]
  BY <1>1, <1>2 DEF DeskInv, DeskTypes
<1>4. DeskTypes' BY <1>1, <1>3 DEF DeskInv, DeskTypes
<1>5. LockInv'
  <2>1. \A q \in Responder : \A s \in Report : Locked(q, s)' => q # p /\ Locked(q, s)
    BY <1>3, Constants DEF Locked
  <2>2. QED BY <1>1, <1>3, <2>1 DEF DeskInv, LockInv, Locked, InScope, Verified, IsOriginal
<1>6. ResponseTrail' BY <1>1 DEF DeskInv, ResponseTrail
<1>7. QED BY <1>4, <1>5, <1>6 DEF DeskInv

LEMMA DeskUnmoved ==
  ASSUME DeskInv, UNCHANGED <<life, desks>>
  PROVE  DeskInv'
<1>1. DeskTypes' BY DEF DeskInv, DeskTypes, desks
<1>2. LockInv' BY DEF DeskInv, LockInv, desks, Locked, InScope, Verified, IsOriginal
<1>3. ResponseTrail' BY DEF DeskInv, ResponseTrail, desks
<1>4. QED BY <1>1, <1>2, <1>3 DEF DeskInv

LEMMA DeskNext == DeskInv /\ [Next]_vars => DeskInv'
<1> SUFFICES ASSUME DeskInv, [Next]_vars PROVE DeskInv' OBVIOUS
<1>1. ASSUME NEW r \in Report, CurationStep(r) PROVE DeskInv' BY <1>1, CurationKeeps
<1>2. ASSUME NEW p \in Responder, DeskStep(p) PROVE DeskInv'
  BY <1>2, LockKeeps, CommitKeeps, AbortKeeps DEF DeskStep
<1>3. ASSUME NEW i \in Instance,
             StartRun(i) \/ RunStep(i) \/ SendUnanswered(i) \/ FailRun(i) \/ LoseSession(i)
      PROVE  UNCHANGED <<life, desks>>
  BY <1>3 DEF StartRun, RunStep, QueueVerified, LoadDue, Send, Record, FinishRun,
              NoticeLostSession, SendUnanswered, FailRun, LoseSession, curation
<1>4. ASSUME Tick \/ StartRetention \/ FinishRetention PROVE UNCHANGED <<life, desks>>
  BY <1>4 DEF Tick, StartRetention, FinishRetention, curation
<1>5. ASSUME UNCHANGED vars PROVE UNCHANGED <<life, desks>> BY <1>5 DEF vars, curation
<1>6. QED BY <1>1, <1>2, <1>3, <1>4, <1>5, DeskUnmoved DEF Next

(* The events of a report explain its response: they chain from 'open' to    *)
(* its status, with the timestamps that go with it.                          *)
THEOREM TrailAlwaysExplains == Spec => []ResponseTrail
<1>1. DeskInv => ResponseTrail BY DEF DeskInv
<1>2. QED BY <1>1, DeskInit, DeskNext, PTL DEF Spec

LEMMA ScopeStep ==
  DeskInv /\ [Next]_vars =>
    [\A r \in Report : trail'[r] # trail[r] =>
          /\ life[r].status = "verified"
          /\ life[r].duplicateOf = None
          /\ Desk[trail'[r][Len(trail'[r])].actor] = County[r]]_vars
<1> SUFFICES ASSUME DeskInv, Next, NEW r \in Report, trail'[r] # trail[r]
             PROVE  /\ life[r].status = "verified"
                    /\ life[r].duplicateOf = None
                    /\ Desk[trail'[r][Len(trail'[r])].actor] = County[r]
  OBVIOUS
<1>1. PICK p \in Responder : CommitResponse(p)
  BY DEF Next, CurationStep, Publish, Decide, Tick, DeskStep, LockForResponse, AbortResponse,
         StartRun, RunStep, QueueVerified, LoadDue, Send, Record, FinishRun, NoticeLostSession,
         SendUnanswered, FailRun, LoseSession, StartRetention, FinishRetention, desks
<1>2. PICK q \in Report : Locked(p, q)
  BY <1>1 DEF CommitResponse, DeskInv, DeskTypes, Answer, Locked
<1>3. PICK e \in Event : e = [from |-> answering[p].current, to |-> answering[p].to, actor |-> p]
  BY DEF DeskInv, DeskTypes, Answer, Event
<1>4. q = r /\ trail'[r] = Append(trail[r], e) /\ trail[r] \in Seq(Event)
  BY <1>1, <1>2, <1>3 DEF CommitResponse, Locked, DeskInv, DeskTypes
<1>5. trail'[r][Len(trail'[r])] = e BY <1>4
<1>6. e.actor = p BY <1>3
<1>7. QED BY <1>2, <1>4, <1>5, <1>6 DEF DeskInv, LockInv, InScope, Verified, IsOriginal

(* Every response that is committed is one to a verified original of the     *)
(* responder's own county, as it is at that moment.                          *)
THEOREM AlwaysRespondedInScope == Spec => RespondedInScope
<1>1. QED BY DeskInit, DeskNext, ScopeStep, PTL DEF Spec, RespondedInScope

-----------------------------------------------------------------------------
(* The webhooks.  Only the run that holds the lock records what it has done,  *)
(* so each delivery it has left is one that nobody has recorded; a run that   *)
(* lost the lock posts once more at most, and losing it was a fault.          *)
RunFields == {"pc", "todo", "current", "sent"}
RowFields == {"queued", "attempts", "wait", "delivered"}

OutboxTypes ==
  /\ DOMAIN outbox = Report /\ \A r \in Report : RowFields \subseteq DOMAIN outbox[r]
  /\ DOMAIN run = Instance /\ \A i \in Instance : RunFields \subseteq DOMAIN run[i]
  /\ received \in [Report -> Nat] /\ faults \in Nat

Undelivered(r) == outbox[r].queued /\ ~ outbox[r].delivered

Plain(i) ==
  /\ run[i].pc \in {"idle", "queue", "load"} => run[i].todo = {}
  /\ \A d \in run[i].todo : d.report \in Report

Deliverable(i) ==
  /\ run[i].pc # "idle"
  /\ \A d \in run[i].todo : d.report \in Report /\ Undelivered(d.report)
  /\ \A d, e \in run[i].todo : d.report = e.report => d = e
  /\ run[i].pc = "record" =>
       /\ run[i].current.report \in Report /\ Undelivered(run[i].current.report)
       /\ \A d \in run[i].todo : d.report # run[i].current.report

(* The post of a report is done and not recorded yet.                       *)
Unrecorded(r) ==
  \E i \in Instance : /\ Has(i) /\ run[i].pc = "record" /\ run[i].sent
                      /\ run[i].current.report = r

Outstanding(r) == IF outbox[r].delivered \/ Unrecorded(r) THEN 0 ELSE 1

(* Runs that lost the lock and may still post what they have at hand.        *)
Stray == {i \in Instance : run[i].pc = "send" /\ ~ Has(i)}

OutboxInv ==
  /\ OutboxTypes
  /\ \A r \in Report : outbox[r].delivered => outbox[r].queued
  /\ \A i \in Instance : Plain(i) /\ (Has(i) => Deliverable(i))
  /\ \A r \in Report : received[r] + Outstanding(r) + Cardinality(Stray) <= 1 + faults

LEMMA StrayFinite == IsFiniteSet(Stray) /\ Cardinality(Stray) \in Nat
<1>1. Stray \subseteq Instance BY DEF Stray
<1>2. QED BY <1>1, Constants, FS_Subset, FS_CardinalityType

LEMMA StrayFewer ==
  ASSUME Stray' \subseteq Stray
  PROVE  Cardinality(Stray') <= Cardinality(Stray) /\ Cardinality(Stray') \in Nat
BY StrayFinite, FS_Subset, FS_CardinalityType

LEMMA StrayLess ==
  ASSUME NEW i \in Stray, Stray' \subseteq Stray \ {i}
  PROVE  Cardinality(Stray') <= Cardinality(Stray) - 1 /\ Cardinality(Stray') \in Nat
<1>1. /\ IsFiniteSet(Stray \ {i})
      /\ Cardinality(Stray \ {i}) = Cardinality(Stray) - 1
  BY StrayFinite, FS_RemoveElement
<1>2. QED BY <1>1, FS_Subset, FS_CardinalityType

LEMMA StrayMore ==
  ASSUME NEW i \in Instance, Stray' \subseteq Stray \cup {i}
  PROVE  Cardinality(Stray') <= Cardinality(Stray) + 1 /\ Cardinality(Stray') \in Nat
<1>1. /\ IsFiniteSet(Stray \cup {i})
      /\ Cardinality(Stray \cup {i}) <= Cardinality(Stray) + 1
  <2>1. /\ IsFiniteSet(Stray \cup {i})
        /\ Cardinality(Stray \cup {i}) =
              IF i \in Stray THEN Cardinality(Stray) ELSE Cardinality(Stray) + 1
    BY StrayFinite, FS_AddElement
  <2>2. QED BY <2>1, StrayFinite
<1>2. /\ IsFiniteSet(Stray') /\ Cardinality(Stray') <= Cardinality(Stray \cup {i})
      /\ Cardinality(Stray \cup {i}) \in Nat
  BY <1>1, FS_Subset, FS_CardinalityType
<1>3. QED BY <1>1, <1>2, StrayFinite, FS_CardinalityType

LEMMA OutstandingType == \A r \in Report : Outstanding(r) \in 0 .. 1
BY DEF Outstanding

LEMMA OutboxInit == Init => OutboxInv
<1> SUFFICES ASSUME Init PROVE OutboxInv OBVIOUS
<1>1. /\ DOMAIN outbox = Report /\ \A r \in Report : outbox[r] = NoRow
      /\ DOMAIN run = Instance /\ \A i \in Instance : run[i] = IdleRun
      /\ lockHolder = None /\ received = [r \in Report |-> 0] /\ faults = 0
  BY DEF Init
<1>2. OutboxTypes BY <1>1 DEF OutboxTypes, RunFields, RowFields, NoRow, IdleRun
<1>3. \A i \in Instance : ~ Has(i) BY <1>1, Constants DEF Has
<1>4. Cardinality(Stray) = 0
  <2>1. Stray = {} BY <1>1 DEF Stray, IdleRun
  <2>2. QED BY <2>1, FS_EmptySet
<1>5. \A r \in Report : received[r] + Outstanding(r) + Cardinality(Stray) <= 1 + faults
  BY <1>1, <1>4, OutstandingType
<1>6. QED BY <1>1, <1>2, <1>3, <1>5 DEF OutboxInv, Plain, NoRow, IdleRun

(* A step of one run that leaves the outbox alone and neither posts nor      *)
(* takes the lock; what a crash or a lost session costs is a fault.          *)
LEMMA RunEnds ==
  ASSUME OutboxInv, NEW i \in Instance, run[i].pc # "idle", End(i), UNCHANGED <<outbox, received>>,
         \/ UNCHANGED faults /\ ~ (Has(i) /\ run[i].pc = "record")
         \/ faults' = faults + 1
  PROVE  OutboxInv'
<1>1. /\ DOMAIN run' = Instance /\ run'[i] = IdleRun
      /\ \A j \in Instance : j # i => run'[j] = run[j]
  BY DEF End, OutboxInv, OutboxTypes
<1>2. \A j \in Instance : (Has(j)' <=> j # i /\ Has(j)) BY Constants DEF End, Has
<1>3. OutboxTypes' BY <1>1 DEF OutboxInv, OutboxTypes, RunFields, IdleRun
<1>4. \A j \in Instance : Has(j)' => Deliverable(j)'
  BY <1>1, <1>2 DEF OutboxInv, Deliverable, Undelivered
<1>5. Cardinality(Stray') <= Cardinality(Stray) /\ Cardinality(Stray') \in Nat
  <2>1. Stray' \subseteq Stray BY <1>1, <1>2 DEF Stray, IdleRun
  <2>2. QED BY <2>1, StrayFewer
<1>6. ASSUME NEW r \in Report
      PROVE  received'[r] + Outstanding(r)' + Cardinality(Stray') <= 1 + faults'
  <2>1. received[r] + Outstanding(r) + Cardinality(Stray) <= 1 + faults
        /\ received[r] \in Nat /\ faults \in Nat
    BY DEF OutboxInv, OutboxTypes
  <2>2. Outstanding(r) \in 0 .. 1 /\ Outstanding(r)' \in 0 .. 1 BY DEF Outstanding
  <2>3. CASE faults' = faults + 1 BY <1>5, <2>1, <2>2, <2>3, StrayFinite
  <2>4. CASE UNCHANGED faults /\ ~ (Has(i) /\ run[i].pc = "record")
    <3>1. Unrecorded(r) => Unrecorded(r)' BY <1>1, <1>2, <2>4 DEF Unrecorded
    <3>2. Outstanding(r)' <= Outstanding(r) BY <3>1 DEF Outstanding
    <3>3. QED BY <1>5, <2>1, <2>2, <2>4, <3>2, StrayFinite
  <2>5. QED BY <2>3, <2>4
<1>7. \A j \in Instance : Plain(j)' BY <1>1 DEF OutboxInv, Plain, IdleRun
<1>8. QED BY <1>3, <1>4, <1>6, <1>7 DEF OutboxInv

LEMMA StartKeeps ==
  ASSUME OutboxInv, NEW i \in Instance, StartRun(i)
  PROVE  OutboxInv'
<1>1. /\ DOMAIN run' = Instance /\ run'[i].pc = "queue" /\ run'[i].todo = {}
      /\ RunFields \subseteq DOMAIN run'[i]
      /\ \A j \in Instance : j # i => run'[j] = run[j]
      /\ run[i].pc = "idle" /\ lockHolder = None /\ lockHolder' = i
      /\ UNCHANGED <<outbox, received, faults>>
  BY DEF StartRun, LockIsFree, OutboxInv, OutboxTypes, RunFields, Plain
<1>2. \A j \in Instance : (Has(j)' <=> j = i) /\ ~ Has(j) BY <1>1, Constants DEF Has
<1>3. OutboxTypes' BY <1>1 DEF OutboxInv, OutboxTypes
<1>4. \A j \in Instance : Has(j)' => Deliverable(j)' BY <1>1, <1>2 DEF Deliverable
<1>5. Cardinality(Stray') <= Cardinality(Stray) /\ Cardinality(Stray') \in Nat
  <2>1. Stray' \subseteq Stray BY <1>1, <1>2 DEF Stray
  <2>2. QED BY <2>1, StrayFewer
<1>6. ASSUME NEW r \in Report
      PROVE  received'[r] + Outstanding(r)' + Cardinality(Stray') <= 1 + faults'
  <2>1. ~ Unrecorded(r) /\ ~ Unrecorded(r)' BY <1>1, <1>2 DEF Unrecorded
  <2>2. Outstanding(r)' = Outstanding(r) BY <1>1, <2>1 DEF Outstanding
  <2>3. QED BY <1>1, <1>5, <2>2, OutstandingType, StrayFinite DEF OutboxInv, OutboxTypes
<1>7. \A j \in Instance : Plain(j)' BY <1>1 DEF OutboxInv, Plain
<1>8. QED BY <1>1, <1>3, <1>4, <1>6, <1>7 DEF OutboxInv

(* The rows change, or a run goes on, and nothing is posted or lost.        *)
LEMMA CountKept ==
  ASSUME OutboxInv, OutboxTypes', UNCHANGED <<received, faults>>,
         \A r \in Report : outbox[r].delivered \/ Unrecorded(r) =>
                            outbox'[r].delivered \/ Unrecorded(r)',
         Stray' \subseteq Stray
  PROVE  \A r \in Report : received'[r] + Outstanding(r)' + Cardinality(Stray') <= 1 + faults'
<1> SUFFICES ASSUME NEW r \in Report
             PROVE  received'[r] + Outstanding(r)' + Cardinality(Stray') <= 1 + faults'
  OBVIOUS
<1>1. Outstanding(r)' <= Outstanding(r) /\ Outstanding(r) \in 0 .. 1 /\ Outstanding(r)' \in 0 .. 1
  BY DEF Outstanding
<1>2. Cardinality(Stray') <= Cardinality(Stray) /\ Cardinality(Stray') \in Nat BY StrayFewer
<1>3. QED BY <1>1, <1>2, StrayFinite DEF OutboxInv, OutboxTypes

LEMMA TickKeeps ==
  ASSUME OutboxInv, Tick
  PROVE  OutboxInv'
<1>1. /\ DOMAIN outbox' = Report
      /\ \A r \in Report : /\ RowFields \subseteq DOMAIN outbox'[r]
                            /\ outbox'[r].queued = outbox[r].queued
                            /\ outbox'[r].delivered = outbox[r].delivered
      /\ UNCHANGED <<run, lockHolder, received, faults>>
  BY DEF Tick, OutboxInv, OutboxTypes, RowFields
<1>2. OutboxTypes' BY <1>1 DEF OutboxInv, OutboxTypes
<1>3. \A r \in Report : Undelivered(r)' <=> Undelivered(r) BY <1>1 DEF Undelivered
<1>4. \A i \in Instance : Plain(i)' /\ (Has(i)' => Deliverable(i)')
  BY <1>1, <1>3 DEF OutboxInv, Plain, Has, Deliverable
<1>5. Stray' \subseteq Stray BY <1>1 DEF Stray, Has
<1>6. \A r \in Report : Unrecorded(r)' <=> Unrecorded(r) BY <1>1 DEF Unrecorded, Has
<1>7. \A r \in Report : received'[r] + Outstanding(r)' + Cardinality(Stray') <= 1 + faults'
  BY <1>1, <1>2, <1>5, <1>6, CountKept
<1>8. QED BY <1>1, <1>2, <1>4, <1>7 DEF OutboxInv

LEMMA QueueKeeps ==
  ASSUME OutboxInv, NEW i \in Instance, QueueVerified(i)
  PROVE  OutboxInv'
<1> DEFINE new == [NoRow EXCEPT !.queued = TRUE]
<1>a. RowFields \subseteq DOMAIN new /\ ~ new.delivered BY DEF NoRow, RowFields
<1>b. outbox' = [r \in Report |-> IF r \in NewlyQueued THEN new ELSE outbox[r]]
  BY DEF QueueVerified
<1> HIDE DEF new
<1>1. /\ DOMAIN outbox' = Report
      /\ \A r \in Report : (outbox'[r] = new /\ ~ outbox[r].queued) \/ outbox'[r] = outbox[r]
  BY <1>b DEF NewlyQueued
<1>2. /\ DOMAIN run' = Instance /\ run'[i].pc = "load" /\ run'[i].todo = run[i].todo
      /\ RunFields \subseteq DOMAIN run'[i]
      /\ \A j \in Instance : j # i => run'[j] = run[j]
      /\ run[i].pc = "queue" /\ UNCHANGED <<lockHolder, received, faults>>
  BY DEF QueueVerified, OutboxInv, OutboxTypes, RunFields
<1>3. OutboxTypes'
  <2>1. \A r \in Report : RowFields \subseteq DOMAIN outbox'[r]
    BY <1>a, <1>1 DEF OutboxInv, OutboxTypes
  <2>2. QED BY <1>1, <1>2, <2>1 DEF OutboxInv, OutboxTypes
<1>4. ASSUME NEW r \in Report
      PROVE  /\ outbox'[r].delivered => outbox'[r].queued
             /\ outbox[r].delivered => outbox'[r].delivered
             /\ Undelivered(r) => Undelivered(r)'
  <2>1. CASE outbox'[r] = outbox[r] BY <2>1 DEF OutboxInv, Undelivered
  <2>2. CASE outbox'[r] = new /\ ~ outbox[r].queued
    BY <1>a, <2>2 DEF OutboxInv, Undelivered
  <2>3. QED BY <1>1, <2>1, <2>2
<1>5. \A j \in Instance : Plain(j)' /\ (Has(j)' => Deliverable(j)')
  BY <1>2, <1>4 DEF OutboxInv, Plain, Has, Deliverable
<1>6. Stray' \subseteq Stray BY <1>2 DEF Stray, Has
<1>7. \A r \in Report : Unrecorded(r) => Unrecorded(r)' BY <1>2 DEF Unrecorded, Has
<1>8. \A r \in Report : received'[r] + Outstanding(r)' + Cardinality(Stray') <= 1 + faults'
  BY <1>2, <1>3, <1>4, <1>6, <1>7, CountKept
<1>9. QED BY <1>3, <1>4, <1>5, <1>8 DEF OutboxInv

LEMMA LoadKeeps ==
  ASSUME OutboxInv, NEW i \in Instance, LoadDue(i)
  PROVE  OutboxInv'
<1>1. PICK S \in SUBSET Due :
        run' = [run EXCEPT ![i] = [@ EXCEPT !.pc = "send",
                  !.todo = {[report |-> r, attempts |-> outbox[r].attempts] : r \in S}]]
  BY DEF LoadDue
<1> DEFINE todo == {[report |-> r, attempts |-> outbox[r].attempts] : r \in S}
<1>2. /\ \A d \in todo : d.report \in S
      /\ \A d, e \in todo : d.report = e.report => d = e
  OBVIOUS
<1>3. \A r \in S : r \in Report /\ Undelivered(r) BY DEF Due, Undelivered
<1> HIDE DEF todo
<1>4. run' = [run EXCEPT ![i] = [@ EXCEPT !.pc = "send", !.todo = todo]] BY <1>1 DEF todo
<1>5. /\ DOMAIN run' = Instance /\ run'[i].pc = "send" /\ run'[i].todo = todo
      /\ RunFields \subseteq DOMAIN run'[i]
      /\ \A j \in Instance : j # i => run'[j] = run[j]
  BY <1>4 DEF OutboxInv, OutboxTypes, RunFields
<1>6. run[i].pc = "load" /\ Has(i) /\ UNCHANGED <<outbox, lockHolder, received, faults>>
  BY DEF LoadDue
<1>7. OutboxTypes' BY <1>5, <1>6 DEF OutboxInv, OutboxTypes
<1>8. \A j \in Instance : Plain(j)' /\ (Has(j)' => Deliverable(j)')
  BY <1>2, <1>3, <1>5, <1>6 DEF OutboxInv, Plain, Has, Deliverable, Undelivered
<1>9. Stray' \subseteq Stray BY <1>5, <1>6 DEF Stray, Has
<1>10. \A r \in Report : Unrecorded(r) => Unrecorded(r)' BY <1>5, <1>6 DEF Unrecorded, Has
<1>11. \A r \in Report : received'[r] + Outstanding(r)' + Cardinality(Stray') <= 1 + faults'
  BY <1>6, <1>7, <1>9, <1>10, CountKept
<1>12. QED BY <1>6, <1>7, <1>8, <1>11 DEF OutboxInv

(* A post that the county may have received: it is recorded as sent, or its   *)
(* answer is lost, or the run has lost the lock.                              *)
LEMMA SendingKeeps ==
  ASSUME OutboxInv, NEW i \in Instance, run[i].pc = "send", NEW d \in run[i].todo,
         NEW answered \in BOOLEAN, Sending(i, d, answered), UNCHANGED <<outbox, lockHolder>>,
         \/ UNCHANGED <<received, faults>> /\ ~ answered
         \/ received' = [received EXCEPT ![d.report] = @ + 1] /\ UNCHANGED faults /\ answered
         \/ received' = [received EXCEPT ![d.report] = @ + 1] /\ faults' = faults + 1 /\ ~ answered
  PROVE  OutboxInv'
<1>1. PICK q \in Report : q = d.report BY DEF OutboxInv, Plain
<1>2. /\ DOMAIN run' = Instance /\ run'[i].pc = "record" /\ run'[i].todo = run[i].todo \ {d}
      /\ run'[i].current = d /\ run'[i].sent = answered
      /\ RunFields \subseteq DOMAIN run'[i]
      /\ \A j \in Instance : j # i => run'[j] = run[j]
  BY DEF Sending, OutboxInv, OutboxTypes, RunFields
<1>3. OutboxTypes'
  <2>1. received' \in [Report -> Nat] /\ faults' \in Nat BY <1>1 DEF OutboxInv, OutboxTypes
  <2>2. QED BY <1>2, <2>1 DEF OutboxInv, OutboxTypes
<1>4. \A j \in Instance : Plain(j)' /\ (Has(j)' => Deliverable(j)')
  BY <1>1, <1>2 DEF OutboxInv, Plain, Has, Deliverable, Undelivered
<1>5. ASSUME NEW r \in Report
      PROVE  received'[r] + Outstanding(r)' + Cardinality(Stray') <= 1 + faults'
  <2>1. /\ received[r] + Outstanding(r) + Cardinality(Stray) <= 1 + faults
        /\ received[r] \in Nat /\ received'[r] \in Nat /\ faults \in Nat /\ Cardinality(Stray) \in Nat
    BY <1>3, StrayFinite DEF OutboxInv, OutboxTypes
  <2>2. /\ Outstanding(r) \in 0 .. 1 /\ Outstanding(r)' \in 0 .. 1
        /\ Outstanding(r)' <= Outstanding(r)
    BY <1>2 DEF Outstanding, Unrecorded, Has
  <2>3. Stray' \subseteq Stray \ {i} BY <1>2 DEF Stray, Has
  <2>4. Cardinality(Stray') <= Cardinality(Stray) /\ Cardinality(Stray') \in Nat
    BY <2>3, StrayFewer
  <2>5. CASE received'[r] = received[r] /\ faults' \in {faults, faults + 1}
    BY <2>1, <2>2, <2>4, <2>5
  <2>6. CASE received'[r] = received[r] + 1 /\ faults' = faults + 1
    BY <2>1, <2>2, <2>4, <2>6
  <2>7. CASE received'[r] = received[r] + 1 /\ UNCHANGED faults /\ answered /\ r = q
    <3>1. CASE Has(i)
      <4>1. Undelivered(r) BY <1>1, <2>7, <3>1 DEF OutboxInv, Deliverable
      <4>2. ~ Unrecorded(r) BY <3>1 DEF Unrecorded, Has
      <4>3. Outstanding(r) = 1 BY <4>1, <4>2 DEF Outstanding, Undelivered
      <4>4. Unrecorded(r)' BY <1>1, <1>2, <2>7, <3>1 DEF Unrecorded, Has
      <4>5. Outstanding(r)' = 0 BY <4>4 DEF Outstanding
      <4>6. QED BY <2>1, <2>4, <2>7, <4>3, <4>5
    <3>2. CASE ~ Has(i)
      <4>1. i \in Stray BY <3>2 DEF Stray
      <4>2. Cardinality(Stray') <= Cardinality(Stray) - 1 /\ Cardinality(Stray') \in Nat
        BY <2>3, <4>1, StrayLess
      <4>3. QED BY <2>1, <2>2, <2>7, <4>2
    <3>3. QED BY <3>1, <3>2
  <2>8. QED BY <1>1, <2>5, <2>6, <2>7 DEF OutboxInv, OutboxTypes
<1>6. QED BY <1>3, <1>4, <1>5 DEF OutboxInv

LEMMA RecordKeeps ==
  ASSUME OutboxInv, NEW i \in Instance, Record(i)
  PROVE  OutboxInv'
<1>1. PICK q \in Report : q = run[i].current.report /\ Undelivered(q)
  BY DEF Record, OutboxInv, Deliverable
<1>2. /\ run[i].pc = "record" /\ Has(i) /\ UNCHANGED <<lockHolder, received, faults>>
      /\ DOMAIN outbox' = Report /\ \A r \in Report : r # q => outbox'[r] = outbox[r]
      /\ outbox'[q] = After(outbox[q], run[i].current, run[i].sent)
  BY <1>1 DEF Record, OutboxInv, OutboxTypes
<1>3. /\ RowFields \subseteq DOMAIN outbox'[q] /\ outbox'[q].queued
      /\ outbox'[q].delivered <=> run[i].sent
  BY <1>1, <1>2 DEF After, OutboxInv, OutboxTypes, RowFields, Undelivered
<1>4. /\ DOMAIN run' = Instance /\ run'[i].pc = "send" /\ run'[i].todo = run[i].todo
      /\ RunFields \subseteq DOMAIN run'[i]
      /\ \A j \in Instance : j # i => run'[j] = run[j]
  BY DEF Record, OutboxInv, OutboxTypes, RunFields
<1>5. OutboxTypes' BY <1>2, <1>3, <1>4 DEF OutboxInv, OutboxTypes
<1>6. \A r \in Report : outbox'[r].delivered => outbox'[r].queued BY <1>2, <1>3 DEF OutboxInv
<1>7. \A j \in Instance : Plain(j)' /\ (Has(j)' => Deliverable(j)')
  <2>1. \A j \in Instance : Has(j)' => j = i /\ Has(j) BY <1>2 DEF Has
  <2>2. \A r \in Report : r # q /\ Undelivered(r) => Undelivered(r)' BY <1>2 DEF Undelivered
  <2>3. QED BY <1>1, <1>2, <1>4, <2>1, <2>2 DEF OutboxInv, Plain, Deliverable
<1>8. Stray' \subseteq Stray BY <1>2, <1>4 DEF Stray, Has
<1>9. \A r \in Report : outbox[r].delivered \/ Unrecorded(r) => outbox'[r].delivered
  <2>1. \A r \in Report : Unrecorded(r) => r = q /\ run[i].sent
    BY <1>1, <1>2 DEF Unrecorded, Has
  <2>2. QED BY <1>1, <1>2, <1>3, <2>1 DEF Undelivered
<1>10. \A r \in Report : received'[r] + Outstanding(r)' + Cardinality(Stray') <= 1 + faults'
  BY <1>2, <1>5, <1>8, <1>9, CountKept
<1>11. QED BY <1>5, <1>6, <1>7, <1>10 DEF OutboxInv

LEMMA LoseKeeps ==
  ASSUME OutboxInv, NEW i \in Instance, LoseSession(i)
  PROVE  OutboxInv'
<1>1. /\ Has(i) /\ lockHolder' = None /\ faults' = faults + 1
      /\ UNCHANGED <<outbox, run, received>>
  BY DEF LoseSession
<1>2. \A j \in Instance : ~ Has(j)' BY <1>1, Constants DEF Has
<1>3. OutboxTypes' BY <1>1 DEF OutboxInv, OutboxTypes
<1>4. \A j \in Instance : Plain(j)' /\ (Has(j)' => Deliverable(j)')
  BY <1>1, <1>2 DEF OutboxInv, Plain
<1>5. ASSUME NEW r \in Report
      PROVE  received'[r] + Outstanding(r)' + Cardinality(Stray') <= 1 + faults'
  <2>1. /\ received[r] + Outstanding(r) + Cardinality(Stray) <= 1 + faults
        /\ received[r] \in Nat /\ faults \in Nat /\ Cardinality(Stray) \in Nat
    BY StrayFinite DEF OutboxInv, OutboxTypes
  <2>2. Outstanding(r) \in 0 .. 1 /\ Outstanding(r)' \in 0 .. 1 BY DEF Outstanding
  <2>3. CASE run[i].pc = "send"
    <3>1. Stray' \subseteq Stray \cup {i} BY <1>1, <1>2 DEF Stray, Has
    <3>2. Cardinality(Stray') <= Cardinality(Stray) + 1 /\ Cardinality(Stray') \in Nat
      BY <3>1, StrayMore
    <3>3. ~ Unrecorded(r) BY <1>1, <2>3 DEF Unrecorded, Has
    <3>4. Outstanding(r)' <= Outstanding(r) BY <1>1, <3>3 DEF Outstanding
    <3>5. QED BY <1>1, <2>1, <2>2, <3>2, <3>4
  <2>4. CASE run[i].pc # "send"
    <3>1. Stray' \subseteq Stray BY <1>1, <1>2, <2>4 DEF Stray, Has
    <3>2. Cardinality(Stray') <= Cardinality(Stray) /\ Cardinality(Stray') \in Nat
      BY <3>1, StrayFewer
    <3>3. QED BY <1>1, <2>1, <2>2, <3>2
  <2>5. QED BY <2>3, <2>4
<1>6. QED BY <1>1, <1>3, <1>4, <1>5 DEF OutboxInv

LEMMA RetentionKeeps ==
  ASSUME OutboxInv, StartRetention \/ FinishRetention
  PROVE  OutboxInv'
<1>1. /\ UNCHANGED <<outbox, run, received, faults>>
      /\ \A j \in Instance : ~ Has(j) /\ ~ Has(j)'
  BY Constants DEF StartRetention, FinishRetention, LockIsFree, Has
<1>2. OutboxTypes' BY <1>1 DEF OutboxInv, OutboxTypes
<1>3. \A j \in Instance : Plain(j)' /\ (Has(j)' => Deliverable(j)')
  BY <1>1 DEF OutboxInv, Plain
<1>4. Stray' \subseteq Stray BY <1>1 DEF Stray
<1>5. \A r \in Report : ~ Unrecorded(r) BY <1>1 DEF Unrecorded
<1>6. \A r \in Report : received'[r] + Outstanding(r)' + Cardinality(Stray') <= 1 + faults'
  BY <1>1, <1>2, <1>4, <1>5, CountKept
<1>7. QED BY <1>1, <1>2, <1>3, <1>6 DEF OutboxInv

LEMMA OutboxUnmoved ==
  ASSUME OutboxInv, UNCHANGED webhooks
  PROVE  OutboxInv'
<1>1. UNCHANGED <<outbox, run, lockHolder, received, faults>> BY DEF webhooks
<1>2. OutboxTypes' BY <1>1 DEF OutboxInv, OutboxTypes
<1>3. \A j \in Instance : Plain(j)' /\ (Has(j)' => Deliverable(j)')
  BY <1>1 DEF OutboxInv, Plain, Deliverable, Undelivered, Has
<1>4. Stray' \subseteq Stray BY <1>1 DEF Stray, Has
<1>5. \A r \in Report : Unrecorded(r) => Unrecorded(r)' BY <1>1 DEF Unrecorded, Has
<1>6. \A r \in Report : received'[r] + Outstanding(r)' + Cardinality(Stray') <= 1 + faults'
  BY <1>1, <1>2, <1>4, <1>5, CountKept
<1>7. QED BY <1>1, <1>2, <1>3, <1>6 DEF OutboxInv

LEMMA OutboxNext == OutboxInv /\ [Next]_vars => OutboxInv'
<1> SUFFICES ASSUME OutboxInv, [Next]_vars PROVE OutboxInv' OBVIOUS
<1>1. ASSUME NEW i \in Instance, RunStep(i) PROVE OutboxInv'
  <2>1. CASE QueueVerified(i) BY <2>1, QueueKeeps
  <2>2. CASE LoadDue(i) BY <2>2, LoadKeeps
  <2>3. CASE Send(i)
    <3>1. run[i].pc = "send" /\ UNCHANGED <<outbox, lockHolder, faults>> BY <2>3 DEF Send
    <3>2. PICK d \in run[i].todo :
            \/ received' = [received EXCEPT ![d.report] = @ + 1] /\ Sending(i, d, TRUE)
            \/ UNCHANGED received /\ Sending(i, d, FALSE)
      BY <2>3 DEF Send
    <3>3. QED BY <3>1, <3>2, SendingKeeps
  <2>4. CASE Record(i) BY <2>4, RecordKeeps
  <2>5. CASE FinishRun(i) BY <2>5, RunEnds DEF FinishRun
  <2>6. CASE NoticeLostSession(i) BY <2>6, RunEnds DEF NoticeLostSession
  <2>7. QED BY <1>1, <2>1, <2>2, <2>3, <2>4, <2>5, <2>6 DEF RunStep
<1>2. ASSUME NEW i \in Instance, SendUnanswered(i) PROVE OutboxInv'
  <2>1. /\ run[i].pc = "send" /\ UNCHANGED <<outbox, lockHolder>> /\ faults' = faults + 1
    BY <1>2 DEF SendUnanswered
  <2>2. PICK d \in run[i].todo :
          received' = [received EXCEPT ![d.report] = @ + 1] /\ Sending(i, d, FALSE)
    BY <1>2 DEF SendUnanswered
  <2>3. QED BY <2>1, <2>2, SendingKeeps
<1>3. ASSUME NEW i \in Instance, FailRun(i) PROVE OutboxInv' BY <1>3, RunEnds DEF FailRun
<1>4. ASSUME NEW i \in Instance, StartRun(i) \/ LoseSession(i) PROVE OutboxInv'
  BY <1>4, StartKeeps, LoseKeeps
<1>5. ASSUME Tick \/ StartRetention \/ FinishRetention PROVE OutboxInv'
  BY <1>5, TickKeeps, RetentionKeeps
<1>6. ASSUME NEW r \in Report, CurationStep(r) PROVE UNCHANGED webhooks
  BY <1>6 DEF CurationStep, Publish, Decide
<1>7. ASSUME NEW p \in Responder, DeskStep(p) PROVE UNCHANGED webhooks
  BY <1>7 DEF DeskStep, LockForResponse, CommitResponse, AbortResponse
<1>8. ASSUME UNCHANGED vars PROVE UNCHANGED webhooks BY <1>8 DEF vars
<1>9. QED BY <1>1, <1>2, <1>3, <1>4, <1>5, <1>6, <1>7, <1>8, OutboxUnmoved DEF Next

(* Without faults a county receives a report once, and every further copy is *)
(* due to a fault of its own, for any number of instances and reports.       *)
THEOREM AlwaysAnnouncedOnce == Spec => []AnnouncedOnce
<1>1. OutboxInv => AnnouncedOnce
  <2> SUFFICES ASSUME OutboxInv, NEW r \in Report PROVE received[r] <= 1 + faults
    BY DEF AnnouncedOnce
  <2>1. Outstanding(r) \in 0 .. 1 BY DEF Outstanding
  <2>2. QED BY <2>1, StrayFinite DEF OutboxInv, OutboxTypes
<1>2. QED BY <1>1, OutboxInit, OutboxNext, PTL DEF Spec
=============================================================================
