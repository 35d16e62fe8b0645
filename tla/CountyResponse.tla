--------------------------- MODULE CountyResponse ---------------------------
(***************************************************************************)
(* What county governments do with verified reports: the responders'       *)
(* statuses (handlers/responders.go) and the webhook outbox                *)
(* (workers/webhooks.go).  The curation of the reports themselves is       *)
(* ReportLifecycle, which ReportCuration implements.                       *)
(*                                                                         *)
(* There is no absolute clock: freshness and retries count down, so that   *)
(* time may pass for ever.                                                 *)
(***************************************************************************)
EXTENDS Integers, FiniteSets, Sequences

CONSTANTS
    Report, Moderator, None,
    County,          \* county of each report, None when it was not given
    Responder,       \* concurrent requests of the responder API
    Desk,            \* the county of each responder
    Webhooks,        \* counties with a webhook
    Instance,        \* backend instances, each with a CountyWebhooks worker
    Lookback,        \* webhookLookback, in ticks
    MaxAttempts,     \* webhookMaxAttempts
    MaxBackoff,      \* webhookMaxBackoff, in ticks
    Batch,           \* webhookBatch
    MaxFaults        \* bound of the model: crashes, lost sessions, lost answers

ASSUME CountyAssumption ==
    /\ None \notin Responder \cup Report \cup Instance
    /\ County \in [Report -> Webhooks \cup {Desk[p] : p \in Responder} \cup {None}]
    /\ None \notin Webhooks \cup {Desk[p] : p \in Responder}

ASSUME BoundAssumption ==
    /\ {Lookback, MaxFaults} \subseteq Nat
    /\ {MaxAttempts, MaxBackoff, Batch} \subseteq Nat \ {0}
    /\ IsFiniteSet(Instance)

(* The retention cleaner's advisory lock has the number of the webhooks'.  *)
Retention == "retention"
ASSUME RetentionAssumption == Retention \notin Instance /\ Retention # None

VARIABLES
    life,        \* moderation status, decider and original of each report
    fresh,       \* ticks until status_updated_at is older than Lookback
    response,    \* response_status, acknowledged_at and resolved_at
    trail,       \* report_response_events of each report, in order of id
    answering,   \* open UpdateReportResponse transactions
    outbox,      \* report_webhook_deliveries
    run,         \* the run of each instance's CountyWebhooks
    lockHolder,  \* who holds the advisory lock 7311004
    received,    \* how often the county's system got each report
    faults       \* crashes, lost sessions and lost answers so far

curation == <<life, fresh>>
desks == <<response, trail, answering>>
webhooks == <<outbox, run, lockHolder, received, faults>>
vars == <<curation, desks, webhooks>>

Curation == INSTANCE ReportLifecycle
    WITH Report <- Report, Moderator <- Moderator, None <- None, life <- life

-----------------------------------------------------------------------------
(* responderScope.  The mutant only looks for a report of the county. *)
Verified(r) == life[r].status = "verified"
IsOriginal(r) == life[r].duplicateOf = None
BugInScope(r, county) == life[r].status # "absent" /\ County[r] = county
InScope(r, county) == Verified(r) /\ IsOriginal(r) /\ County[r] = county

CanChangeResponse(from, to) ==
    \/ from = "open" /\ to \in {"acknowledged", "resolved"}
    \/ from = "acknowledged" /\ to = "resolved"

ResponseStatus == {"open", "acknowledged", "resolved"}
Response == [status : ResponseStatus, acknowledged : BOOLEAN, resolved : BOOLEAN]
Unanswered == [status |-> "open", acknowledged |-> FALSE, resolved |-> FALSE]

Answer == [report : Report \cup {None}, to : ResponseStatus, current : ResponseStatus]
NoAnswer == [report |-> None, to |-> "open", current |-> "open"]

(* A row of the outbox: wait counts down to next_attempt_at. *)
Row == [queued : BOOLEAN, attempts : 0 .. MaxAttempts, wait : 0 .. MaxBackoff,
        delivered : BOOLEAN]
NoRow == [queued |-> FALSE, attempts |-> 0, wait |-> 0, delivered |-> FALSE]

(* A due delivery as RunOnce loaded it. *)
Delivery == [report : Report, attempts : 0 .. MaxAttempts]

Run == [pc : {"idle", "queue", "load", "send", "record"}, todo : SUBSET Delivery,
        current : Delivery \cup {None}, sent : BOOLEAN]
IdleRun == [pc |-> "idle", todo |-> {}, current |-> None, sent |-> FALSE]

TypeOK ==
    /\ life \in [Report -> [status : {"absent", "pending", "verified", "rejected"},
                            moderatedBy : Moderator \cup {Curation!ModeratedByAuto, None},
                            duplicateOf : Report \cup {None}]]
    /\ fresh \in [Report -> 0 .. Lookback]
    /\ response \in [Report -> Response]
    /\ trail \in [Report -> Seq([from : ResponseStatus, to : ResponseStatus, actor : Responder])]
    /\ answering \in [Responder -> Answer]
    /\ outbox \in [Report -> Row]
    /\ run \in [Instance -> Run]
    /\ lockHolder \in Instance \cup {Retention, None}
    /\ received \in [Report -> Nat]
    /\ faults \in 0 .. MaxFaults

Init ==
    /\ Curation!Init
    /\ fresh = [r \in Report |-> 0]
    /\ response = [r \in Report |-> Unanswered]
    /\ trail = [r \in Report |-> <<>>]
    /\ answering = [p \in Responder |-> NoAnswer]
    /\ outbox = [r \in Report |-> NoRow]
    /\ run = [i \in Instance |-> IdleRun]
    /\ lockHolder = None
    /\ received = [r \in Report |-> 0]
    /\ faults = 0

-----------------------------------------------------------------------------
(* Curation.  Whoever decides waits for a responder's row lock.             *)
RowLocked(r) == \E p \in Responder : answering[p].report = r

Publish(r) ==
    /\ Curation!Publish(r)
    /\ UNCHANGED <<fresh, desks, webhooks>>

(* status_updated_at is the start of the deciding transaction, which may   *)
(* have waited a while.                                                    *)
Decide(r) ==
    /\ ~RowLocked(r)
    /\ Curation!AutoVerify(r) \/ \E m \in Moderator : Curation!Decide(m, r)
    /\ \E age \in 0 .. Lookback : fresh' = [fresh EXCEPT ![r] = Lookback - age]
    /\ UNCHANGED <<desks, webhooks>>

Tick ==
    /\ fresh' = [r \in Report |-> IF fresh[r] = 0 THEN 0 ELSE fresh[r] - 1]
    /\ outbox' = [r \in Report |->
          [outbox[r] EXCEPT !.wait = IF @ = 0 THEN 0 ELSE @ - 1]]
    /\ UNCHANGED <<life, desks, run, lockHolder, received, faults>>

-----------------------------------------------------------------------------
(* UpdateReportResponse: SELECT ... FOR UPDATE, which looks at the row as   *)
(* it is once the lock is free; then UPDATE, INSERT of the event, COMMIT.   *)

LockForResponse(p, r, to) ==
    /\ answering[p] = NoAnswer
    /\ ~RowLocked(r)
    /\ InScope(r, Desk[p])
    /\ to \in {"acknowledged", "resolved"}
    /\ CanChangeResponse(response[r].status, to)
    /\ answering' = [answering EXCEPT ![p] =
          [report |-> r, to |-> to, current |-> response[r].status]]
    /\ UNCHANGED <<curation, response, trail, webhooks>>

(* A direct resolution also acknowledges; the mutant forgets it. *)
BugStamp(old, to) ==
    [status |-> to, acknowledged |-> to = "acknowledged" \/ old.acknowledged,
     resolved |-> to = "resolved" \/ old.resolved]
Stamp(old, to) ==
    [status |-> to, acknowledged |-> TRUE, resolved |-> to = "resolved" \/ old.resolved]

CommitResponse(p) ==
    LET tx == answering[p] IN
    /\ tx.report # None
    /\ response' = [response EXCEPT ![tx.report] = Stamp(@, tx.to)]
    /\ trail' = [trail EXCEPT ![tx.report] =
          Append(@, [from |-> tx.current, to |-> tx.to, actor |-> p])]
    /\ answering' = [answering EXCEPT ![p] = NoAnswer]
    /\ UNCHANGED <<curation, webhooks>>

(* The client went away or a statement failed: rollback. *)
AbortResponse(p) ==
    /\ answering[p] # NoAnswer
    /\ answering' = [answering EXCEPT ![p] = NoAnswer]
    /\ UNCHANGED <<curation, response, trail, webhooks>>

-----------------------------------------------------------------------------
(* CountyWebhooks.RunOnce.  Its statements use the connection that took the *)
(* advisory lock: they fail once that session is lost.                      *)

Has(i) == lockHolder = i

LockIsFree == lockHolder = None

(* pg_try_advisory_lock: a run that finds the lock taken ends at once. *)
StartRun(i) ==
    /\ run[i].pc = "idle"
    /\ LockIsFree
    /\ Webhooks # {}
    /\ run' = [run EXCEPT ![i].pc = "queue"]
    /\ lockHolder' = i
    /\ UNCHANGED <<curation, desks, outbox, received, faults>>

(* INSERT ... SELECT ... ON CONFLICT DO NOTHING: the mutant re-queues. *)
Announceable(r) ==
    Verified(r) /\ IsOriginal(r) /\ County[r] \in Webhooks /\ fresh[r] > 0

BugNewlyQueued == {r \in Report : Announceable(r)}
NewlyQueued == {r \in Report : Announceable(r) /\ ~outbox[r].queued}

QueueVerified(i) ==
    /\ run[i].pc = "queue" /\ Has(i)
    /\ outbox' = [r \in Report |->
          IF r \in NewlyQueued THEN [NoRow EXCEPT !.queued = TRUE] ELSE outbox[r]]
    /\ run' = [run EXCEPT ![i].pc = "load"]
    /\ UNCHANGED <<curation, desks, lockHolder, received, faults>>

(* Due deliveries are not checked against the report's status again.       *)
Due == {r \in Report : /\ outbox[r].queued
                       /\ ~outbox[r].delivered
                       /\ outbox[r].attempts < MaxAttempts
                       /\ outbox[r].wait = 0
                       /\ County[r] \in Webhooks}

AtMost(bound, n) == IF n > bound THEN bound ELSE n

LoadDue(i) ==
    /\ run[i].pc = "load" /\ Has(i)
    /\ \E S \in SUBSET Due :
         /\ Cardinality(S) = AtMost(Batch, Cardinality(Due))
         /\ run' = [run EXCEPT ![i] = [@ EXCEPT !.pc = "send",
              !.todo = {[report |-> r, attempts |-> outbox[r].attempts] : r \in S}]]
    /\ UNCHANGED <<curation, desks, outbox, lockHolder, received, faults>>

Sending(i, d, answered) ==
    run' = [run EXCEPT ![i] =
        [pc |-> "record", todo |-> run[i].todo \ {d}, current |-> d, sent |-> answered]]

(* The county's system takes the report, or refuses it or cannot be reached. *)
Send(i) ==
    /\ run[i].pc = "send"
    /\ \E d \in run[i].todo :
         \/ /\ received' = [received EXCEPT ![d.report] = @ + 1]
            /\ Sending(i, d, TRUE)
         \/ UNCHANGED received /\ Sending(i, d, FALSE)
    /\ UNCHANGED <<curation, desks, outbox, lockHolder, faults>>

(* It takes the report, but its answer is late or lost. *)
SendUnanswered(i) ==
    /\ run[i].pc = "send"
    /\ faults < MaxFaults
    /\ \E d \in run[i].todo :
         /\ received' = [received EXCEPT ![d.report] = @ + 1]
         /\ Sending(i, d, FALSE)
    /\ faults' = faults + 1
    /\ UNCHANGED <<curation, desks, outbox, lockHolder>>

(* min(time.Minute << attempts, webhookMaxBackoff) *)
Backoff(attempts) == IF 2 ^ attempts \in 0 .. MaxBackoff THEN 2 ^ attempts ELSE MaxBackoff

BugAfter(row, d, sent) ==
    IF sent THEN [row EXCEPT !.attempts = @ + 1, !.delivered = TRUE]
    ELSE [row EXCEPT !.wait = Backoff(d.attempts)]
After(row, d, sent) ==
    IF sent THEN [row EXCEPT !.attempts = @ + 1, !.delivered = TRUE]
    ELSE [row EXCEPT !.attempts = @ + 1, !.wait = Backoff(d.attempts)]

Record(i) ==
    LET d == run[i].current IN
    /\ run[i].pc = "record" /\ Has(i)
    /\ outbox' = [outbox EXCEPT ![d.report] = After(@, d, run[i].sent)]
    /\ run' = [run EXCEPT ![i] = [@ EXCEPT !.pc = "send", !.current = None, !.sent = FALSE]]
    /\ UNCHANGED <<curation, desks, lockHolder, received, faults>>

End(i) ==
    /\ run' = [run EXCEPT ![i] = IdleRun]
    /\ lockHolder' = IF Has(i) THEN None ELSE lockHolder

FinishRun(i) ==
    /\ run[i].pc = "send" /\ run[i].todo = {}
    /\ End(i)
    /\ UNCHANGED <<curation, desks, outbox, received, faults>>

(* A statement on the lost session fails, and with it the run. *)
NoticeLostSession(i) ==
    /\ run[i].pc \in {"queue", "load", "record"} /\ ~Has(i)
    /\ End(i)
    /\ UNCHANGED <<curation, desks, outbox, received, faults>>

(* The instance dies, its context is cancelled or a statement fails. *)
FailRun(i) ==
    /\ run[i].pc # "idle"
    /\ faults < MaxFaults
    /\ faults' = faults + 1
    /\ End(i)
    /\ UNCHANGED <<curation, desks, outbox, received>>

LoseSession(i) ==
    /\ run[i].pc # "idle" /\ Has(i)
    /\ faults < MaxFaults
    /\ faults' = faults + 1
    /\ lockHolder' = None
    /\ UNCHANGED <<curation, desks, outbox, run, received>>

(* RetentionCleaner.RunOnce, as far as the lock goes. *)
StartRetention ==
    /\ LockIsFree
    /\ lockHolder' = Retention
    /\ UNCHANGED <<curation, desks, outbox, run, received, faults>>

FinishRetention ==
    /\ lockHolder = Retention
    /\ lockHolder' = None
    /\ UNCHANGED <<curation, desks, outbox, run, received, faults>>

-----------------------------------------------------------------------------
CurationStep(r) == Publish(r) \/ Decide(r)

DeskStep(p) ==
    \/ CommitResponse(p)
    \/ AbortResponse(p)
    \/ \E r \in Report, to \in ResponseStatus : LockForResponse(p, r, to)

RunStep(i) ==
    QueueVerified(i) \/ LoadDue(i) \/ Send(i) \/ Record(i) \/ FinishRun(i) \/ NoticeLostSession(i)

Next ==
    \/ Tick
    \/ \E r \in Report : CurationStep(r)
    \/ \E p \in Responder : DeskStep(p)
    \/ \E i \in Instance :
         StartRun(i) \/ RunStep(i) \/ SendUnanswered(i) \/ FailRun(i) \/ LoseSession(i)
    \/ StartRetention \/ FinishRetention

Spec == Init /\ [][Next]_vars

(* Every run goes on, and some instance's ticker starts one when the lock is *)
(* free often enough: the retention cleaner only runs once an hour.          *)
Fairness ==
    /\ WF_vars(Tick)
    /\ WF_vars(FinishRetention)
    /\ \A i \in Instance : WF_vars(RunStep(i))
    /\ SF_vars(\E i \in Instance : StartRun(i))

FairSpec == Spec /\ Fairness

-----------------------------------------------------------------------------
(* Properties.                                                             *)

Chained(log) ==
    \A k \in 1 .. Len(log) : log[k].from = IF k = 1 THEN "open" ELSE log[k - 1].to

(* report_response_events explains the response: the events chain from      *)
(* 'open' to the current status, and the timestamps the county dashboard    *)
(* averages are there exactly from the step they are about, whichever       *)
(* responders raced.                                                        *)
ResponseTrail ==
    \A r \in Report :
        /\ Chained(trail[r])
        /\ response[r].status = IF trail[r] = <<>> THEN "open" ELSE trail[r][Len(trail[r])].to
        /\ response[r].acknowledged <=> response[r].status # "open"
        /\ response[r].resolved <=> response[r].status = "resolved"

(* "Each responder only sees their own county", verified originals only: at *)
(* the moment a response is committed the report is still one of them, even *)
(* if a moderator decided after the responder saw it.                       *)
RespondedInScope ==
    [][\A r \in Report : trail'[r] # trail[r] =>
          /\ life[r].status = "verified"
          /\ life[r].duplicateOf = None
          /\ Desk[trail'[r][Len(trail'[r])].actor] = County[r]]_vars

(* "A report is announced once even with several API instances": each       *)
(* further copy that a county receives is due to a crash, a lost session or *)
(* a lost answer of its own.                                                *)
AnnouncedOnce == \A r \in Report : received[r] <= 1 + faults

Settled(r) == outbox[r].delivered \/ outbox[r].attempts = MaxAttempts

(* Every queued announcement is delivered or given up after MaxAttempts     *)
(* attempts: retries end, no run blocks the queue, and the retention        *)
(* cleaner, which takes the same lock, does not starve it.                  *)
EventuallySettled == \A r \in Report : outbox[r].queued ~> Settled(r)

=============================================================================
