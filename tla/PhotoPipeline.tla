---------------------------- MODULE PhotoPipeline ----------------------------
(***************************************************************************)
(* Photos of reports: the upload slots (handlers/photos.go) and the worker  *)
(* that scans, strips and publishes what was uploaded (workers/photos.go),  *)
(* over the table report_photos and the object store.                       *)
(*                                                                         *)
(* Rows and objects live in different systems, and the lease of a claim is  *)
(* all that keeps two workers apart.  Time is a Tick; created_at and        *)
(* updated_at are ages that saturate past every limit they are compared     *)
(* with, locked_until is a countdown.  A request's transaction is short:    *)
(* time does not pass in one.  A worker may take any time.                  *)
(***************************************************************************)
EXTENDS Integers, FiniteSets

CONSTANTS
    Report, Photo,
    ReportOf,            \* the report for which each photo id may be drawn
    Client,              \* concurrent requests for an upload slot
    Worker,              \* the photo processor of each instance
    MaxPhotosPerReport,
    SlotTTL,             \* photoUploadTTL, in ticks
    AbandonAfter,        \* RetentionPolicy.AbandonedUpload
    FailedFor,           \* RetentionPolicy.FailedPhoto
    Lease,               \* photoLease
    FirstBackoff,        \* backoff after the first attempt
    MaxAttempts,         \* maxPhotoAttempts
    None

ASSUME SlotAssumption ==
    /\ ReportOf \in [Photo -> Report] /\ IsFiniteSet(Photo)
    /\ None \notin Photo \cup Report \cup {"clean", "unfit"}
    /\ MaxPhotosPerReport \in Nat \ {0} /\ FailedFor \in Nat
    /\ SlotTTL \in Nat \ {0} /\ AbandonAfter \in Nat /\ SlotTTL < AbandonAfter

ASSUME LeaseAssumption ==
    {Lease, FirstBackoff, MaxAttempts} \subseteq Nat \ {0}

VARIABLES
    stored,    \* reports in community_reports
    rows,      \* report_photos
    objects,   \* the object store: what each key of a photo holds
    slot,      \* open CreatePhotoUpload transactions: the photo to be inserted
    worker,    \* the photo each worker is at
    overrun    \* history: photos at which some worker outlived its lease

uploads == <<stored, slot>>
vars == <<uploads, rows, objects, worker, overrun>>

-----------------------------------------------------------------------------
(* What is uploaded: an image that passes every check, or malware, no image, *)
(* or not the declared size.                                                *)
Content == {"clean", "unfit"}
Key == {"quarantine", "large", "thumb"}
Empty == [k \in Key |-> None]

(* "absent" and "gone": there is no row yet, or no longer.                   *)
Settled == {"ready", "rejected", "failed"}
Status == {"absent", "pending_upload", "processing", "gone"} \cup Settled

(* age: since created_at.  idle: since updated_at.  published: large_key and  *)
(* thumb_key are set.                                                        *)
MaxLock == IF Lease > FirstBackoff * 2 ^ (MaxAttempts - 1) THEN Lease
           ELSE FirstBackoff * 2 ^ (MaxAttempts - 1)
Row == [status : Status, age : 0 .. AbandonAfter + 1, idle : 0 .. FailedFor + 1,
        locked : 0 .. MaxLock, attempts : 0 .. MaxAttempts + 1, published : BOOLEAN]
NoRow == [status |-> "absent", age |-> 0, idle |-> 0, locked |-> 0, attempts |-> 0,
          published |-> FALSE]

(* left: what is left of the lease it claimed.  outcome: the status it will   *)
(* give the photo.                                                           *)
Job == [pc : {"idle", "download", "scan", "large", "thumb", "finish", "discard"},
        photo : Photo \cup {None}, attempts : 0 .. MaxAttempts + 1, left : 0 .. Lease,
        data : Content \cup {None}, outcome : Settled \cup {None}]
NoJob == [pc |-> "idle", photo |-> None, attempts |-> 0, left |-> 0, data |-> None,
          outcome |-> None]

Exists(p) == rows[p].status \notin {"absent", "gone"}
Expired(p) == rows[p].age >= SlotTTL

TypeOK ==
    /\ stored \subseteq Report
    /\ rows \in [Photo -> Row]
    /\ objects \in [Photo -> [Key -> Content \cup {None}]]
    /\ slot \in [Client -> Photo \cup {None}]
    /\ worker \in [Worker -> Job]
    /\ overrun \subseteq Photo

Init ==
    /\ stored = Report
    /\ rows = [p \in Photo |-> NoRow]
    /\ objects = [p \in Photo |-> Empty]
    /\ slot = [c \in Client |-> None]
    /\ worker = [w \in Worker |-> NoJob]
    /\ overrun = {}

-----------------------------------------------------------------------------
(* Upload slots.                                                           *)

Counts(p) ==
    \/ rows[p].status \in {"processing", "ready"}
    \/ rows[p].status = "pending_upload" /\ ~Expired(p)

Slots(r) == Cardinality({p \in Photo : ReportOf[p] = r /\ Counts(p)})

(* SELECT ... FOR UPDATE on the report makes the requests of one report take *)
(* turns.  The mutant reads the report without the lock.                     *)
BugReportLocked(r) == FALSE
ReportLocked(r) == \E c \in Client : slot[c] # None /\ ReportOf[slot[c]] = r

ReserveSlot(c, p) ==
    /\ slot[c] = None
    /\ rows[p].status = "absent" /\ ~\E d \in Client : slot[d] = p
    /\ ReportOf[p] \in stored
    /\ ~ReportLocked(ReportOf[p])
    /\ Slots(ReportOf[p]) < MaxPhotosPerReport
    /\ slot' = [slot EXCEPT ![c] = p]
    /\ UNCHANGED <<stored, rows, objects, worker, overrun>>

InsertPhoto(c) ==
    /\ slot[c] # None
    /\ slot' = [slot EXCEPT ![c] = None]
    /\ \/ rows' = [rows EXCEPT ![slot[c]] = [NoRow EXCEPT !.status = "pending_upload"]]
       \/ UNCHANGED rows   \* no presigned URL, or no COMMIT
    /\ UNCHANGED <<stored, objects, worker, overrun>>

(* The presigned URL is good until the slot expires: for any number of PUTs,  *)
(* whatever has become of the photo.                                         *)
Upload(p, content) ==
    /\ rows[p].status # "absent" /\ ~Expired(p)
    /\ objects' = [objects EXCEPT ![p]["quarantine"] = content]
    /\ UNCHANGED <<uploads, rows, worker, overrun>>

BugCompletable(p) == rows[p].status = "pending_upload"
Completable(p) == rows[p].status = "pending_upload" /\ ~Expired(p)

CompletePhotoUpload(p) ==
    /\ Completable(p)
    /\ rows' = [rows EXCEPT ![p].status = "processing", ![p].idle = 0]
    /\ UNCHANGED <<uploads, objects, worker, overrun>>

-----------------------------------------------------------------------------
(* The photo processor.                                                    *)

(* The mutant does not look at the lease.                                    *)
BugClaimable == {p \in Photo : rows[p].status = "processing"}
Claimable == {p \in Photo : rows[p].status = "processing" /\ rows[p].locked = 0}

(* The photo that has waited longest; attempts stay at the first number      *)
(* beyond the limit.                                                        *)
Claim(w, p) ==
    LET n == IF rows[p].attempts > MaxAttempts THEN rows[p].attempts ELSE rows[p].attempts + 1
    IN
    /\ worker[w].pc = "idle"
    /\ p \in Claimable
    /\ \A q \in Claimable : rows[q].idle <= rows[p].idle
    /\ rows' = [rows EXCEPT ![p].locked = Lease, ![p].attempts = n]
    /\ worker' = [worker EXCEPT ![w] =
           [NoJob EXCEPT !.pc = "download", !.photo = p, !.attempts = n, !.left = Lease]]
    /\ UNCHANGED <<uploads, objects, overrun>>

At(w, pc) == worker[w].pc = pc
GoTo(w, pc) == worker' = [worker EXCEPT ![w].pc = pc]
Conclude(w, outcome) ==
    worker' = [worker EXCEPT ![w].pc = "finish", ![w].outcome = outcome, ![w].data = None]
End(w) == worker' = [worker EXCEPT ![w] = NoJob]

(* The mutant never gives up. *)
BugExhausted(w) == FALSE
Exhausted(w) == worker[w].attempts > MaxAttempts

Download(w) ==
    LET found == objects[worker[w].photo]["quarantine"] IN
    /\ At(w, "download")
    /\ \/ Exhausted(w) /\ Conclude(w, "failed")
       \/ ~Exhausted(w) /\ found = None /\ Conclude(w, "rejected")
       \/ ~Exhausted(w) /\ found # None
            /\ worker' = [worker EXCEPT ![w].pc = "scan", ![w].data = found]
    /\ UNCHANGED <<uploads, rows, objects, overrun>>

(* The size, the scanner and the decoder judge the bytes in memory. *)
Scan(w) ==
    /\ At(w, "scan")
    /\ \/ worker[w].data = "clean" /\ GoTo(w, "large")
       \/ worker[w].data # "clean" /\ Conclude(w, "rejected")
    /\ UNCHANGED <<uploads, rows, objects, overrun>>

(* The mutant re-encodes what the quarantine holds by now. *)
BugSource(w) == objects[worker[w].photo]["quarantine"]
Source(w) == worker[w].data

Put(w, key) ==
    objects' = [objects EXCEPT ![worker[w].photo][key] = Source(w)]

PutLarge(w) ==
    /\ At(w, "large")
    /\ Put(w, "large")
    /\ GoTo(w, "thumb")
    /\ UNCHANGED <<uploads, rows, overrun>>

PutThumb(w) ==
    /\ At(w, "thumb")
    /\ Put(w, "thumb")
    /\ Conclude(w, "ready")
    /\ UNCHANGED <<uploads, rows, overrun>>

(* UPDATE ... WHERE id: whoever holds the lease by now, and whether or not    *)
(* there is a row left.                                                     *)
Finish(w) ==
    LET p == worker[w].photo  status == worker[w].outcome IN
    /\ At(w, "finish")
    /\ rows' = IF Exists(p)
               THEN [rows EXCEPT ![p].status = status, ![p].locked = 0, ![p].idle = 0,
                                 ![p].published = (@ \/ status = "ready")]
               ELSE rows
    /\ GoTo(w, "discard")
    /\ UNCHANGED <<uploads, objects, overrun>>

(* The object may also stay: its deletion is not tried again. *)
DiscardOriginal(w) ==
    /\ At(w, "discard")
    /\ \/ objects' = [objects EXCEPT ![worker[w].photo]["quarantine"] = None]
       \/ UNCHANGED objects
    /\ End(w)
    /\ UNCHANGED <<uploads, rows, overrun>>

(* Storage, the scanner or the UPDATE to 'ready' failed.  A Put that failed   *)
(* after it took effect is a Put followed by this.                          *)
Backoff(n) == FirstBackoff * 2 ^ (n - 1)
Retry(w) ==
    LET p == worker[w].photo IN
    /\ \/ At(w, "download") /\ ~Exhausted(w)
       \/ worker[w].pc \in {"scan", "large", "thumb"}
       \/ At(w, "finish") /\ worker[w].outcome = "ready"
    /\ rows' = IF Exists(p) THEN [rows EXCEPT ![p].locked = Backoff(worker[w].attempts)]
               ELSE rows
    /\ End(w)
    /\ UNCHANGED <<uploads, objects, overrun>>

(* The instance stops, or the database refuses the UPDATE that ends the      *)
(* attempt: only the lease is left of it.                                   *)
Crash(w) ==
    /\ ~At(w, "idle")
    /\ End(w)
    /\ UNCHANGED <<uploads, rows, objects, overrun>>

-----------------------------------------------------------------------------
Down(n) == IF n = 0 THEN 0 ELSE n - 1
Up(n, bound) == IF n = bound THEN n ELSE n + 1

Busy(w) == ~At(w, "idle")

Tick ==
    /\ \A c \in Client : slot[c] = None
    /\ rows' = [p \in Photo |->
           IF rows[p].status = "absent" THEN rows[p]
           ELSE [rows[p] EXCEPT !.age = Up(@, AbandonAfter + 1), !.idle = Up(@, FailedFor + 1),
                                !.locked = Down(@)]]
    /\ worker' = [w \in Worker |-> [worker[w] EXCEPT !.left = Down(@)]]
    /\ overrun' = overrun \cup {worker[w].photo : w \in {v \in Worker : Busy(v) /\ worker[v].left <= 1}}
    /\ UNCHANGED <<uploads, objects>>

ClientStep ==
    \/ \E c \in Client : \/ \E p \in Photo : ReserveSlot(c, p)
                         \/ InsertPhoto(c)
    \/ \E p \in Photo : \/ \E content \in Content : Upload(p, content)
                        \/ CompletePhotoUpload(p)

(* What drain does unless something fails. *)
WorkerStep(w) ==
    \/ \E p \in Photo : Claim(w, p)
    \/ Download(w) \/ Scan(w) \/ PutLarge(w) \/ PutThumb(w) \/ Finish(w) \/ DiscardOriginal(w)

PhotoNext ==
    \/ ClientStep
    \/ \E w \in Worker : WorkerStep(w) \/ Retry(w) \/ Crash(w)
    \/ Tick

Spec == Init /\ [][PhotoNext]_vars

(* The workers' tickers call drain every few seconds, and time passes.       *)
Fairness == WF_vars(Tick) /\ \A w \in Worker : WF_vars(WorkerStep(w) \/ Retry(w))

-----------------------------------------------------------------------------
(* Whatever a client uploads and whenever it does, once more while a worker  *)
(* is at the photo included, only what the scanner passed is ever stored for *)
(* the public, and a photo that is ready has both its images.               *)
PublishedClean ==
    \A p \in Photo :
        /\ \A k \in {"large", "thumb"} : objects[p][k] \in {None, "clean"}
        /\ rows[p].status = "ready" => objects[p]["large"] # None /\ objects[p]["thumb"] # None

(* "Rows are claimed with SKIP LOCKED and a lease": while every worker keeps *)
(* within its lease, crashes and retries included, a photo is never in the   *)
(* hands of two of them.                                                    *)
OneWorkerPerPhoto ==
    \A p \in Photo \ overrun : Cardinality({w \in Worker : worker[w].photo = p}) <= 1

(* A report has at most MaxPhotosPerReport photos that are or may become     *)
(* public: neither concurrent requests nor slots that ran out and were       *)
(* replaced get past the limit, unless a late worker revives a photo.        *)
SlotsBounded ==
    \A r \in Report :
        (\A p \in overrun : ReportOf[p] # r) => Slots(r) <= MaxPhotosPerReport

(* Even if storage and the scanner never work again, a completed upload does *)
(* not stay in processing for ever, once instances stop crashing.           *)
EventuallySettled ==
    <>[][~\E w \in Worker : Crash(w)]_vars
        => \A p \in Photo : []<>(rows[p].status # "processing")
=============================================================================
