--------------------------- MODULE ReportCuration ---------------------------
(***************************************************************************)
(* Community reports of the AuraRisk backend: storing a report after       *)
(* duplicate detection (handlers/reports.go), automatic verification       *)
(* (workers/verifier.go) and the moderators' decisions                     *)
(* (handlers/moderation.go), over the tables community_reports and         *)
(* report_moderation_events.                                               *)
(*                                                                         *)
(* Every SQL statement is a step of its own where another session can act  *)
(* between two of them; row locks are explicit.  A transaction's NOW() is  *)
(* the time at which it began, as in Postgres.                             *)
(***************************************************************************)
EXTENDS Integers, FiniteSets, Sequences

CONSTANTS
    Report,          \* report requests, each stored at most once
    Account, Group, Note, County,
    Contents,        \* the submissions each request may carry
    SimilarText,     \* pairs of notes whose NoteSimilarity reaches the threshold
    Moderator,       \* concurrent requests of the moderation API
    Instance,        \* backend instances, each with a ReportVerifier
    None             \* SQL NULL

(* Radii and windows of the code, scaled: only their order matters.        *)
CONSTANTS
    SimilarTextRadius, SameReporterRadius, CorroborationRadius,
    SameReporterWindow, SimilarTextWindow, CorroborationWindow,
    VerifyLookback,  \* pending reports older than this are left to moderators
    CandidateLimit,  \* LIMIT of findDuplicate
    VerifyBatch,     \* LIMIT of loadPending
    MaxTime,         \* bound of the model: the clock stops here
    MaxEvents        \* bound of the model: no decision once the log is this long

Status == {"pending", "verified", "rejected"}
ModeratedByAuto == "auto"
Actor == Moderator \cup {ModeratedByAuto}
AutoVerifyScore == 50
Time == 0 .. MaxTime

(* group: the CategoryGroup of the category.  place: a position on a line.    *)
(* approximate: the place is only the county headquarters (SMS and USSD).     *)
(* photo: the reporter goes on to upload a photo, which only accounts may do. *)
Submission ==
    [account : Account \cup {None}, group : Group, text : Note, place : Int,
     approximate : BOOLEAN, county : County \cup {None}, photo : BOOLEAN]

ASSUME ContentsAssumption ==
    /\ Contents \in [Report -> SUBSET Submission]
    /\ \A r \in Report : \A c \in Contents[r] : c.photo => c.account # None

ASSUME FiniteAssumption == IsFiniteSet(Report) /\ IsFiniteSet(Account)

(* MODERATOR_TOKENS refuses the name "auto" (config.go:246). *)
ASSUME NameAssumption ==
    /\ ModeratedByAuto \notin Moderator /\ None \notin Moderator /\ None # ModeratedByAuto
    /\ None \notin Report /\ None \notin Instance

ASSUME WindowAssumption ==
    /\ MaxTime \in Nat /\ MaxEvents \in Nat
    /\ {SameReporterWindow, SimilarTextWindow, CorroborationWindow, VerifyLookback} \subseteq Nat
    /\ {SimilarTextRadius, SameReporterRadius, CorroborationRadius} \subseteq Nat
    /\ {CandidateLimit, VerifyBatch} \subseteq Nat \ {0}
    /\ SimilarTextRadius <= SameReporterRadius
    /\ SameReporterWindow <= SimilarTextWindow

VARIABLES
    now,         \* the database clock
    rows,        \* community_reports: a function whose domain is the stored reports
    events,      \* report_moderation_events of each report, in order of id
    photoReady,  \* reports with a photo in status 'ready'
    requests,    \* open storeReport transactions: their NOW() and findDuplicate's answer
    moderation,  \* open ModerateReport transactions
    verifier,    \* the run of each instance's ReportVerifier
    lockHolder   \* the session holding the advisory lock verifierLockID

vars == <<now, rows, events, photoReady, requests, moderation, verifier, lockHolder>>

-----------------------------------------------------------------------------
(* Duplicate detection.                                                    *)

Distance(c, d) == IF c.place > d.place THEN c.place - d.place ELSE d.place - c.place

Gap(t, u) == IF t > u THEN t - u ELSE u - t

SameReporter(c, t, d, u) ==
    /\ c.account # None
    /\ c.account = d.account
    /\ c.group = d.group
    /\ Distance(c, d) <= SameReporterRadius
    /\ Gap(t, u) <= SameReporterWindow

CopiedText(c, t, d, u) ==
    /\ Distance(c, d) <= SimilarTextRadius
    /\ Gap(t, u) <= SimilarTextWindow
    /\ <<c.text, d.text>> \in SimilarText

(* ORDER BY created_at LIMIT k: any set of k rows none of which is younger *)
(* than a row left out (ties are broken arbitrarily).                      *)
Oldest(S, k) ==
    IF Cardinality(S) <= k THEN {S}
    ELSE {T \in SUBSET S : /\ Cardinality(T) = k
                           /\ \A p \in T, q \in S \ T : rows[p].createdAt <= rows[q].createdAt}

Newest(S, k) ==
    IF Cardinality(S) <= k THEN {S}
    ELSE {T \in SUBSET S : /\ Cardinality(T) = k
                           /\ \A p \in T, q \in S \ T : rows[p].createdAt >= rows[q].createdAt}

(* findDuplicate's query in a transaction that began at t; its radius and  *)
(* window are the larger ones.  Rows of transactions that began later may  *)
(* have been committed by the time of the query, hence Gap.                *)
Candidates(c, t) ==
    {q \in DOMAIN rows : /\ Distance(c, rows[q].content) <= SameReporterRadius
                         /\ rows[q].createdAt > t - SimilarTextWindow
                         /\ rows[q].status # "rejected"}

Matches(c, t, S) ==
    {q \in S : \/ SameReporter(c, t, rows[q].content, rows[q].createdAt)
               \/ CopiedText(c, t, rows[q].content, rows[q].createdAt)}

(* Chains resolve to their original; the mutant points at the match itself. *)
BugOriginal(q) == q
Original(q) == IF rows[q].duplicateOf # None THEN rows[q].duplicateOf ELSE q

(* FindDuplicate on the candidates S: the earliest match wins.             *)
FindDuplicate(c, t, S) ==
    IF Matches(c, t, S) = {} THEN {None}
    ELSE {Original(q) : q \in UNION Oldest(Matches(c, t, S), 1)}

-----------------------------------------------------------------------------
(* Evidence and score.                                                     *)

(* A signed-in reporter does not corroborate their own report.             *)
BugIndependent(o, r) == TRUE
Independent(o, r) ==
    \/ rows[r].content.account = None
    \/ rows[o].content.account # rows[r].content.account

(* The rows that corroborate r in gatherEvidence's first query: none when  *)
(* r itself is gone.  SMS and USSD reports sit at the county headquarters. *)
Corroborators(r) ==
    {o \in DOMAIN rows \ {r} :
        /\ r \in DOMAIN rows
        /\ rows[o].duplicateOf = None
        /\ rows[o].status # "rejected"
        /\ rows[o].content.group = rows[r].content.group
        /\ Distance(rows[o].content, rows[r].content) <= CorroborationRadius
        /\ ~rows[o].content.approximate /\ ~rows[r].content.approximate
        /\ Gap(rows[o].createdAt, rows[r].createdAt) <= CorroborationWindow
        /\ Independent(o, r)}

Accounts(S) == {rows[o].content.account : o \in S} \ {None}

Count(S) == [accounts  |-> Cardinality(Accounts(S)),
             anonymous |-> \E o \in S : rows[o].content.account = None,
             reports   |-> Cardinality(S)]

(* The reporter's other reports that a moderator, not the verifier, set to s. *)
History(r, s) ==
    {h \in DOMAIN rows \ {r} :
        /\ rows[r].content.account # None
        /\ rows[h].content.account = rows[r].content.account
        /\ rows[h].status = s
        /\ rows[h].moderatedBy \notin {None, ModeratedByAuto}}

AtMost(bound, n) == IF n > bound THEN bound ELSE n

BugClamp(n) == AtMost(100, n)
Clamp(n) == IF n < 0 THEN 0 ELSE AtMost(100, n)

VerificationScore(e) ==
    Clamp(AtMost(50, 25 * e.independent + (IF e.anonymous THEN 15 ELSE 0))
          + (IF e.photo THEN 20 ELSE 0)
          + (IF e.signedIn THEN 10 ELSE 0)
          + AtMost(20, 10 * e.verified)
          - 25 * e.rejected)

(* The evidence on r, given what was found to corroborate it. *)
Evidence(r, found) ==
    [independent |-> found.accounts,
     anonymous   |-> found.anonymous,
     photo       |-> r \in photoReady,
     signedIn    |-> rows[r].content.account # None,
     verified    |-> Cardinality(History(r, "verified")),
     rejected    |-> Cardinality(History(r, "rejected"))]

-----------------------------------------------------------------------------
(* State.                                                                  *)

Row == [content : Submission, duplicateOf : Report \cup {None}, createdAt : Time,
        status : Status, moderatedBy : Actor \cup {None}, statusUpdatedAt : Time,
        score : 0 .. 100, corroborations : Nat]

Event == [from : Status, to : Status, actor : Actor, at : Time]

Request == [content : Submission, createdAt : Time, checked : BOOLEAN,
            duplicateOf : Report \cup {None}]

Transaction == [report : Report \cup {None}, at : Time, current : Status \cup {None}]
NoTransaction == [report |-> None, at |-> 0, current |-> None]

(* todo: pendingReports of the batch; report: the one being scored; found:  *)
(* the corroborating reports gatherEvidence counted for it.                 *)
Found == [accounts : Nat, anonymous : BOOLEAN, reports : Nat]
NothingFound == [accounts |-> 0, anonymous |-> FALSE, reports |-> 0]
VerifierRun == [pc : {"idle", "next", "history", "record"}, todo : SUBSET Report,
                report : Report \cup {None}, found : Found, score : 0 .. 100, at : Time]
IdleRun == [pc |-> "idle", todo |-> {}, report |-> None, found |-> NothingFound,
            score |-> 0, at |-> 0]

TypeOK ==
    /\ now \in Time
    /\ DOMAIN rows \subseteq Report
    /\ rows \in [DOMAIN rows -> Row]
    /\ events \in [Report -> Seq(Event)]
    /\ photoReady \subseteq Report
    /\ requests \in [Report -> Request \cup {None}]
    /\ moderation \in [Moderator -> Transaction]
    /\ verifier \in [Instance -> VerifierRun]
    /\ lockHolder \in Instance \cup {None}

Init ==
    /\ now = 0
    /\ rows = [r \in {} |-> None]
    /\ events = [r \in Report |-> <<>>]
    /\ photoReady = {}
    /\ requests = [r \in Report |-> None]
    /\ moderation = [m \in Moderator |-> NoTransaction]
    /\ verifier = [i \in Instance |-> IdleRun]
    /\ lockHolder = None

(* A moderation transaction holds the row after its SELECT ... FOR UPDATE; *)
(* UPDATEs of the row and foreign keys to it wait.                         *)
RowLocked(r) ==
    \E m \in Moderator : moderation[m].report = r /\ moderation[m].current # None

Tick ==
    /\ now < MaxTime
    /\ now' = now + 1
    /\ UNCHANGED <<rows, events, photoReady, requests, moderation, verifier, lockHolder>>

-----------------------------------------------------------------------------
(* storeReport: BEGIN, which fixes NOW(), then findDuplicate's SELECT, then *)
(* INSERT and COMMIT.                                                       *)

BeginStore(r) ==
    /\ r \notin DOMAIN rows
    /\ requests[r] = None
    /\ \E c \in Contents[r] :
         requests' = [requests EXCEPT ![r] =
             [content |-> c, createdAt |-> now, checked |-> FALSE, duplicateOf |-> None]]
    /\ UNCHANGED <<now, rows, events, photoReady, moderation, verifier, lockHolder>>

CheckDuplicate(r) ==
    LET q == requests[r] IN
    /\ q # None
    /\ ~q.checked
    /\ \E S \in Oldest(Candidates(q.content, q.createdAt), CandidateLimit) :
         \E original \in FindDuplicate(q.content, q.createdAt, S) :
            requests' = [requests EXCEPT ![r] =
                [@ EXCEPT !.checked = TRUE, !.duplicateOf = original]]
    /\ UNCHANGED <<now, rows, events, photoReady, moderation, verifier, lockHolder>>

InsertReport(r) ==
    LET q == requests[r] IN
    /\ q # None
    /\ q.checked
    /\ q.duplicateOf # None => q.duplicateOf \in DOMAIN rows /\ ~RowLocked(q.duplicateOf)
    /\ rows' = [s \in DOMAIN rows \cup {r} |->
                  IF s = r
                  THEN [content |-> q.content, duplicateOf |-> q.duplicateOf,
                        createdAt |-> q.createdAt, status |-> "pending", moderatedBy |-> None,
                        statusUpdatedAt |-> q.createdAt, score |-> 0, corroborations |-> 0]
                  ELSE rows[s]]
    /\ requests' = [requests EXCEPT ![r] = None]
    /\ UNCHANGED <<now, events, photoReady, moderation, verifier, lockHolder>>

(* The client went away, the original is gone, or a statement failed: rollback. *)
AbortStore(r) ==
    /\ requests[r] # None
    /\ requests' = [requests EXCEPT ![r] = None]
    /\ UNCHANGED <<now, rows, events, photoReady, moderation, verifier, lockHolder>>

(* The photo pipeline publishes a photo of the report, at any time.        *)
PublishPhoto(r) ==
    /\ r \in DOMAIN rows \ photoReady
    /\ rows[r].content.photo
    /\ photoReady' = photoReady \cup {r}
    /\ UNCHANGED <<now, rows, events, requests, moderation, verifier, lockHolder>>

-----------------------------------------------------------------------------
(* ModerateReport: BEGIN, SELECT ... FOR UPDATE, then UPDATE, INSERT of the *)
(* event and COMMIT.                                                        *)

BeginModeration(m, r) ==
    /\ moderation[m] = NoTransaction
    /\ r \in DOMAIN rows
    /\ Len(events[r]) < MaxEvents
    /\ moderation' = [moderation EXCEPT ![m] = [report |-> r, at |-> now, current |-> None]]
    /\ UNCHANGED <<now, rows, events, photoReady, requests, verifier, lockHolder>>

(* The mutant reads the status without FOR UPDATE. *)
BugLockRow(m) ==
    /\ moderation[m].report \in DOMAIN rows
    /\ moderation[m].current = None
    /\ moderation' = [moderation EXCEPT ![m].current = rows[moderation[m].report].status]
    /\ UNCHANGED <<now, rows, events, photoReady, requests, verifier, lockHolder>>
LockRow(m) ==
    /\ moderation[m].report \in DOMAIN rows
    /\ moderation[m].current = None
    /\ ~RowLocked(moderation[m].report)
    /\ moderation' = [moderation EXCEPT ![m].current = rows[moderation[m].report].status]
    /\ UNCHANGED <<now, rows, events, photoReady, requests, verifier, lockHolder>>

Decide(m) ==
    LET tx == moderation[m] IN
    /\ tx.current # None
    /\ \E status \in Status, notDuplicate \in BOOLEAN :
         /\ rows' = [rows EXCEPT ![tx.report] =
              [@ EXCEPT !.status = status,
                        !.moderatedBy = IF status = "pending" THEN None ELSE m,
                        !.statusUpdatedAt = tx.at,
                        !.duplicateOf = IF notDuplicate THEN None
                                         ELSE rows[tx.report].duplicateOf]]
         /\ events' = [events EXCEPT ![tx.report] =
              Append(@, [from |-> tx.current, to |-> status, actor |-> m, at |-> tx.at])]
    /\ moderation' = [moderation EXCEPT ![m] = NoTransaction]
    /\ UNCHANGED <<now, photoReady, requests, verifier, lockHolder>>

(* Report not found, client gone or a statement failed: rollback. *)
AbortModeration(m) ==
    /\ moderation[m] # NoTransaction
    /\ moderation' = [moderation EXCEPT ![m] = NoTransaction]
    /\ UNCHANGED <<now, rows, events, photoReady, requests, verifier, lockHolder>>

-----------------------------------------------------------------------------
(* ReportVerifier.RunOnce.                                                 *)

(* Duplicates are left out; the mutant scores them too. *)
BugScored(r) == TRUE
Scored(r) == rows[r].duplicateOf = None

Pending ==
    {r \in DOMAIN rows : /\ rows[r].status = "pending"
                         /\ rows[r].moderatedBy = None
                         /\ Scored(r)
                         /\ rows[r].createdAt > now - VerifyLookback}

(* pg_try_advisory_lock, then loadPending.  A run that finds the lock held *)
(* ends at once.                                                           *)
StartRun(i) ==
    /\ verifier[i].pc = "idle"
    /\ lockHolder = None
    /\ \E batch \in Newest(Pending, VerifyBatch) :
         verifier' = [verifier EXCEPT ![i] = [IdleRun EXCEPT !.pc = "next", !.todo = batch]]
    /\ lockHolder' = i
    /\ UNCHANGED <<now, rows, events, photoReady, requests, moderation>>

(* gatherEvidence's first query, for the newest report not yet scored. *)
GatherCorroborators(i) ==
    LET run == verifier[i] IN
    /\ run.pc = "next"
    /\ \E r \in run.todo :
         /\ \A q \in run.todo \cap DOMAIN rows :
               r \in DOMAIN rows => rows[q].createdAt <= rows[r].createdAt
         /\ verifier' = [verifier EXCEPT ![i] =
              [@ EXCEPT !.pc = "history", !.todo = run.todo \ {r}, !.report = r,
                        !.found = Count(Corroborators(r))]]
    /\ UNCHANGED <<now, rows, events, photoReady, requests, moderation, lockHolder>>

(* gatherEvidence's second query and the score; record begins. *)
GatherHistory(i) ==
    LET run == verifier[i] IN
    /\ run.pc = "history"
    /\ verifier' = [verifier EXCEPT ![i] =
         [@ EXCEPT !.pc = "record", !.at = now,
                   !.score = IF run.report \in DOMAIN rows
                             THEN VerificationScore(Evidence(run.report, run.found))
                             ELSE 0]]
    /\ UNCHANGED <<now, rows, events, photoReady, requests, moderation, lockHolder>>

(* record's WHERE clause: the report is still undecided.  The mutant leaves *)
(* out what a moderator may have done in the meantime.                      *)
BugUndecided(r) == r \in DOMAIN rows
Undecided(r) ==
    /\ r \in DOMAIN rows
    /\ rows[r].status = "pending"
    /\ rows[r].moderatedBy = None

NextReport(i) ==
    verifier' = [verifier EXCEPT ![i] = [@ EXCEPT !.pc = "next", !.report = None, !.found = NothingFound,
                                                  !.score = 0, !.at = 0]]

RecordVerified(i) ==
    LET run == verifier[i] IN
    /\ run.pc = "record"
    /\ ~RowLocked(run.report)
    /\ Undecided(run.report)
    /\ run.score >= AutoVerifyScore
    /\ rows' = [rows EXCEPT ![run.report] =
         [@ EXCEPT !.score = run.score, !.corroborations = run.found.reports,
                   !.status = "verified", !.moderatedBy = ModeratedByAuto, !.statusUpdatedAt = run.at]]
    /\ events' = [events EXCEPT ![run.report] =
         Append(@, [from |-> "pending", to |-> "verified", actor |-> ModeratedByAuto, at |-> run.at])]
    /\ NextReport(i)
    /\ UNCHANGED <<now, photoReady, requests, moderation, lockHolder>>

RecordScore(i) ==
    LET run == verifier[i] IN
    /\ run.pc = "record"
    /\ ~RowLocked(run.report)
    /\ Undecided(run.report)
    /\ run.score < AutoVerifyScore
    /\ rows' = [rows EXCEPT ![run.report] =
         [@ EXCEPT !.score = run.score, !.corroborations = run.found.reports]]
    /\ NextReport(i)
    /\ UNCHANGED <<now, events, photoReady, requests, moderation, lockHolder>>

RecordNothing(i) ==
    /\ verifier[i].pc = "record"
    /\ ~RowLocked(verifier[i].report)
    /\ ~Undecided(verifier[i].report)
    /\ NextReport(i)
    /\ UNCHANGED <<now, rows, events, photoReady, requests, moderation, lockHolder>>

(* pg_advisory_unlock, which does nothing in a session without the lock.   *)
BugUnlock(i) == UNCHANGED lockHolder
Unlock(i) == lockHolder' = IF lockHolder = i THEN None ELSE lockHolder

FinishRun(i) ==
    /\ verifier[i].pc = "next"
    /\ verifier[i].todo = {}
    /\ verifier' = [verifier EXCEPT ![i] = IdleRun]
    /\ Unlock(i)
    /\ UNCHANGED <<now, rows, events, photoReady, requests, moderation>>

(* A statement failed, the context was cancelled or the instance died: the *)
(* reports not yet scored wait for the next run.                           *)
FailRun(i) ==
    /\ verifier[i].pc \in {"history", "record"} \/ verifier[i].todo # {}
    /\ verifier' = [verifier EXCEPT ![i] = IdleRun]
    /\ Unlock(i)
    /\ UNCHANGED <<now, rows, events, photoReady, requests, moderation>>

(* The session that took the lock is lost.  Postgres frees the lock, but   *)
(* the run's other statements use the pool, so the run goes on.            *)
LoseSession(i) ==
    /\ verifier[i].pc # "idle"
    /\ lockHolder = i
    /\ lockHolder' = None
    /\ UNCHANGED <<now, rows, events, photoReady, requests, moderation, verifier>>

-----------------------------------------------------------------------------
StoreStep(r) == BeginStore(r) \/ CheckDuplicate(r) \/ InsertReport(r) \/ AbortStore(r)

ModerationStep(m) == LockRow(m) \/ Decide(m) \/ AbortModeration(m)

RecordStep(i) == RecordVerified(i) \/ RecordScore(i) \/ RecordNothing(i)

VerifierStep(i) ==
    StartRun(i) \/ GatherCorroborators(i) \/ GatherHistory(i) \/ RecordStep(i) \/ FinishRun(i)

Next ==
    \/ Tick
    \/ \E r \in Report : StoreStep(r) \/ PublishPhoto(r)
    \/ \E m \in Moderator : ModerationStep(m) \/ \E r \in Report : BeginModeration(m, r)
    \/ \E i \in Instance : VerifierStep(i) \/ FailRun(i) \/ LoseSession(i)

Spec == Init /\ [][Next]_vars

(* The ticker of ReportVerifier.Run starts run after run, an open moderation *)
(* transaction ends, and Postgres queues those who wait for a row lock, so   *)
(* that the verifier's UPDATE has its turn.  Nobody has to file or moderate. *)
Fairness ==
    /\ \A i \in Instance : WF_vars(VerifierStep(i)) /\ SF_vars(RecordStep(i))
    /\ \A m \in Moderator : WF_vars(ModerationStep(m))

FairSpec == Spec /\ Fairness

-----------------------------------------------------------------------------
(* Properties.                                                             *)

IsOriginalOf(o, r) ==
    /\ o # r
    /\ o \in DOMAIN rows
    /\ rows[o].duplicateOf = None

(* "Duplicates of duplicates point to the original": whatever is stored or  *)
(* decided between BEGIN, findDuplicate's SELECT and the INSERT,             *)
(* duplicate_of names another stored report that is not a duplicate itself. *)
(* The original may be the younger of the two: it began after this           *)
(* transaction and was committed before its SELECT.                          *)
FlatDuplicates ==
    /\ \A r \in DOMAIN rows :
         rows[r].duplicateOf # None => IsOriginalOf(rows[r].duplicateOf, r)
    /\ \A r \in Report :
         requests[r] # None /\ requests[r].duplicateOf # None
            => IsOriginalOf(requests[r].duplicateOf, r)

Chained(log) ==
    \A k \in 1 .. Len(log) : log[k].from = IF k = 1 THEN "pending" ELSE log[k - 1].to

(* What a log says of its report: nothing before the first event. *)
Explains(log, row) ==
    IF log = <<>>
    THEN row.status = "pending" /\ row.moderatedBy = None
    ELSE LET last == log[Len(log)] IN
         /\ row.status = last.to
         /\ row.statusUpdatedAt = last.at
         /\ row.moderatedBy = IF last.to = "pending" THEN None ELSE last.actor

(* report_moderation_events explains every status: the events of a report   *)
(* chain from 'pending' to its current status, and the row carries the last *)
(* decision's status, author and time, whoever raced with whom.             *)
AuditTrail ==
    \A r \in DOMAIN rows : Chained(events[r]) /\ Explains(events[r], rows[r])

(* "Moderator decisions are final": no step turns a report that a moderator *)
(* verified or rejected into one the verifier decided.                      *)
ModeratorDecisionsFinal ==
    [][\A r \in DOMAIN rows :
          rows[r].moderatedBy \in Moderator => rows'[r].moderatedBy # ModeratedByAuto]_vars

HumanVerified(h) ==
    \E k \in 1 .. Len(events[h]) : events[h][k].to = "verified" /\ events[h][k].actor \in Moderator

(* Nobody gets a report auto-verified alone: some other account reported the *)
(* same kind of problem nearby, or the report has a published photo and a    *)
(* moderator once verified another report of its account.  Anonymous reports *)
(* and the account's own reports are never enough, whenever they arrive      *)
(* between the verifier's queries.                                           *)
AutoVerifiedOnEvidence ==
    \A r \in DOMAIN rows : rows[r].moderatedBy = ModeratedByAuto =>
        /\ rows[r].score >= AutoVerifyScore
        /\ \/ \E o \in DOMAIN rows \ {r} :
                /\ rows[o].content.account \notin {None, rows[r].content.account}
                /\ rows[o].content.group = rows[r].content.group
                /\ Distance(rows[o].content, rows[r].content) <= CorroborationRadius
           \/ /\ r \in photoReady
              /\ \E h \in DOMAIN rows \ {r} :
                    rows[h].content.account = rows[r].content.account /\ HumanVerified(h)

(* The life of each report, as its abstract specification sees it. *)
life ==
    [r \in Report |->
        IF r \in DOMAIN rows
        THEN [status |-> rows[r].status, moderatedBy |-> rows[r].moderatedBy,
              duplicateOf |-> rows[r].duplicateOf]
        ELSE [status |-> "absent", moderatedBy |-> None, duplicateOf |-> None]]

Lifecycle == INSTANCE ReportLifecycle
    WITH Report <- Report, Moderator <- Moderator, None <- None, life <- life

(* Storing, verifying and moderating together are a ReportLifecycle: only an *)
(* undecided original is verified automatically, nothing but a moderator     *)
(* rejects, reopens or unmarks a report, and duplicate_of never moves.       *)
ImplementsLifecycle == Lifecycle!Spec

Failure == \E i \in Instance : FailRun(i)

Ripe(r) ==
    /\ r \in Pending
    /\ VerificationScore(Evidence(r, Count(Corroborators(r)))) >= AutoVerifyScore

(* Once runs stop failing, a report with enough evidence does not stay      *)
(* pending: it is verified, decided, or loses its evidence or its recency.  *)
EventuallyVerified ==
    <>[][~Failure]_vars => \A r \in Report : []<>~Ripe(r)

-----------------------------------------------------------------------------
(* The inductive invariant from which the safety properties are proved.    *)

(* Nothing is dated after the clock; only stored reports have events; a     *)
(* request is open only until its report is stored.                         *)
Chronology ==
    /\ \A r \in DOMAIN rows : rows[r].createdAt <= now /\ requests[r] = None
    /\ \A r \in Report : requests[r] # None => requests[r].createdAt <= now
    /\ \A r \in Report \ DOMAIN rows : events[r] = <<>>

(* FOR UPDATE: at most one transaction holds a row, and what it read of the *)
(* row stays true until it ends.                                            *)
RowLocks ==
    /\ \A m \in Moderator : moderation[m].current # None =>
          /\ moderation[m].report \in DOMAIN rows
          /\ moderation[m].current = rows[moderation[m].report].status
    /\ \A m, n \in Moderator :
          /\ moderation[m].current # None
          /\ moderation[n].current # None
          /\ moderation[m].report = moderation[n].report
          => m = n

(* The verifier only ever holds stored originals. *)
VerifierTargets ==
    \A i \in Instance : \A r \in verifier[i].todo \cup {verifier[i].report} :
        r # None => r \in DOMAIN rows /\ rows[r].duplicateOf = None

Inv ==
    /\ TypeOK
    /\ Chronology
    /\ FlatDuplicates
    /\ AuditTrail
    /\ RowLocks
    /\ VerifierTargets

=============================================================================
