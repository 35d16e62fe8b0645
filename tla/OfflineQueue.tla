----------------------------- MODULE OfflineQueue -----------------------------
(***************************************************************************)
(* Reports composed on the phone: submitReport (services/api.ts) sends one, *)
(* or puts it into a queue kept as one value in AsyncStorage                *)
(* (storage/reportQueue.ts), which flushReportQueue works off when the      *)
(* phone is online.  The composer and the flush are asynchronous functions  *)
(* of one thread that interleave at every await: each reads the whole queue *)
(* and writes it back later.  Requests fail or lose their answer, storage   *)
(* fails, and the app is killed at any time.                                *)
(***************************************************************************)
EXTENDS Naturals, Sequences, SequencesExt

CONSTANTS
    Report,        \* what the user composes, one submission each
    Photo,
    PhotosOf,      \* the photos attached to each report
    MAX_RETRIES,
    MaxFaults,     \* bound: kills, lost answers and storage errors together
    Nil

ASSUME QueueAssumption ==
    /\ PhotosOf \in [Report -> SUBSET Photo]
    /\ MAX_RETRIES \in Nat \ {0} /\ MaxFaults \in Nat
    /\ Nil \notin Report \cup Photo

VARIABLES
    queue,       \* what AsyncStorage holds, oldest first
    files,       \* local copies of photos in the document directory
    filed,       \* server: how often each report was created
    held,        \* server: photos that are complete
    ui,          \* the submitReport call under way
    flush,       \* the flush under way: inFlight and its local variables
    composed,    \* reports the user has submitted
    faults,
    confirmed,   \* history: reports the user was told are sent or queued
    refused,     \* history: photos the server refused for good
    dropped,     \* history: reports given up, rejected or out of retries
    doubtful,    \* history: reports whose creation the phone could not record
    clobbered    \* history: reports whose entry a stale write overwrote

server == <<filed, held>>
history == <<confirmed, refused, dropped, doubtful, clobbered>>
queueVars == <<queue, files, server, ui, flush, composed, faults, history>>

-----------------------------------------------------------------------------
(* serverReportId is a number, 0 when there is none.                         *)
Item == [report : Report, photos : SUBSET Photo, sid : Nat, retries : 0 .. MAX_RETRIES]

(* seen is the queue that getReportQueue returned, while it is being changed. *)
Submission == [pc : {"idle", "create", "upload", "read", "write"}, report : Report \cup {Nil},
               photos : SUBSET Photo, sid : Nat, seen : Seq(Item)]
NoSubmission == [pc |-> "idle", report |-> Nil, photos |-> {}, sid |-> 0, seen |-> <<>>]

Change == {"none", "created", "photo", "retry", "dequeue", "drop"}
Flush == [pc : {"idle", "next", "create", "upload", "read", "write"}, todo : Seq(Item),
          change : Change, photo : Photo \cup {Nil}, seen : Seq(Item)]
NoFlush == [pc |-> "idle", todo |-> <<>>, change |-> "none", photo |-> Nil, seen |-> <<>>]

QueueTypeOK ==
    /\ queue \in Seq(Item)
    /\ files \subseteq Photo /\ held \subseteq Photo
    /\ filed \in [Report -> Nat]
    /\ ui \in Submission /\ flush \in Flush
    /\ composed \subseteq Report
    /\ faults \in 0 .. MaxFaults
    /\ confirmed \subseteq Report /\ refused \subseteq Photo
    /\ dropped \subseteq Report /\ doubtful \subseteq Report /\ clobbered \subseteq Report
    /\ \A i, j \in DOMAIN queue : queue[i].report = queue[j].report => i = j

QueueInit ==
    /\ queue = <<>> /\ files = {} /\ held = {}
    /\ filed = [r \in Report |-> 0]
    /\ ui = NoSubmission /\ flush = NoFlush
    /\ composed = {} /\ faults = 0
    /\ confirmed = {} /\ refused = {} /\ dropped = {} /\ doubtful = {} /\ clobbered = {}

-----------------------------------------------------------------------------
(* The queue as a value, in which a report has one item at most: tempId is   *)
(* drawn anew for each.                                                     *)

At(q, r) == {i \in DOMAIN q : q[i].report = r}
Entry(q, r) == {q[i] : i \in At(q, r)}

(* The mutant takes the first item to be the one that was processed. *)
BugWithout(q, r) == IF q = <<>> THEN q ELSE Tail(q)
Without(q, r) == IF At(q, r) = {} THEN q ELSE RemoveAt(q, CHOOSE i \in At(q, r) : TRUE)

(* setItem: the new queue was computed from the one seen.                    *)
Store(seen, new) ==
    /\ queue' = new
    /\ clobbered' = clobbered \cup {r \in Report : Entry(queue, r) # Entry(seen, r)}

Fault == faults < MaxFaults /\ faults' = faults + 1

(* getReportQueue: whatever goes wrong, the answer is an empty queue.         *)
Seen(q) ==
    \/ q = queue /\ UNCHANGED faults
    \/ q = <<>> /\ queue # <<>> /\ Fault

-----------------------------------------------------------------------------
(* submitReport, called by the composer, one at a time.                      *)

Submit(r) ==
    /\ ui = NoSubmission /\ r \notin composed
    /\ composed' = composed \cup {r}
    /\ files' = files \cup PhotosOf[r]
    /\ \E pc \in {"create", "read"} :      \* online or not
          ui' = [NoSubmission EXCEPT !.pc = pc, !.report = r, !.photos = PhotosOf[r]]
    /\ UNCHANGED <<queue, server, flush, faults, history>>

Enqueue == ui' = [ui EXCEPT !.pc = "read"]

SubmitCreated ==
    /\ ui.pc = "create"
    /\ filed' = [filed EXCEPT ![ui.report] = @ + 1]
    /\ \/ /\ ui' = [ui EXCEPT !.pc = "upload", !.sid = filed'[ui.report]]
          /\ UNCHANGED <<faults, doubtful>>
       \/ /\ Fault /\ Enqueue                            \* the answer is lost
          /\ doubtful' = doubtful \cup {ui.report}
    /\ UNCHANGED <<queue, files, held, flush, composed, confirmed, refused, dropped, clobbered>>

SubmitNotCreated ==
    /\ ui.pc = "create"
    /\ \/ Enqueue
       \/ ui' = NoSubmission                             \* rejected: the user is told
    /\ UNCHANGED <<queue, files, server, flush, composed, faults, history>>

(* A photo that is uploaded or refused for good is done with.                *)
PhotoDone(p) ==
    /\ files' = files \ {p}
    /\ \/ p \in files /\ held' = held \cup {p} /\ UNCHANGED refused
       \/ refused' = refused \cup {p} /\ UNCHANGED held

SubmitPhoto(p) ==
    /\ ui.pc = "upload" /\ p \in ui.photos
    /\ PhotoDone(p)
    /\ ui' = [ui EXCEPT !.photos = @ \ {p}]
    /\ UNCHANGED <<queue, filed, flush, composed, faults, confirmed, dropped, doubtful, clobbered>>

(* The completion may have been received; the remaining photos are queued.    *)
SubmitPhotoFails(p) ==
    /\ ui.pc = "upload" /\ p \in ui.photos
    /\ held' \in {held} \cup (IF p \in files THEN {held \cup {p}} ELSE {})
    /\ Enqueue
    /\ UNCHANGED <<queue, files, filed, flush, composed, faults, history>>

SubmitSent ==
    /\ ui.pc = "upload" /\ ui.photos = {}
    /\ confirmed' = confirmed \cup {ui.report}
    /\ ui' = NoSubmission
    /\ UNCHANGED <<queue, files, server, flush, composed, faults, refused, dropped, doubtful, clobbered>>

EnqueueRead ==
    /\ ui.pc = "read"
    /\ \E q \in {queue, <<>>} : Seen(q) /\ ui' = [ui EXCEPT !.pc = "write", !.seen = q]
    /\ UNCHANGED <<queue, files, server, flush, composed, history>>

EnqueueWrite ==
    /\ ui.pc = "write"
    /\ Store(ui.seen, Append(ui.seen, [report |-> ui.report, photos |-> ui.photos,
                                       sid |-> ui.sid, retries |-> 0]))
    /\ confirmed' = confirmed \cup {ui.report}
    /\ ui' = NoSubmission
    /\ UNCHANGED <<files, server, flush, composed, faults, refused, dropped, doubtful>>

(* setItem throws: the user is told that sending failed.                     *)
EnqueueFails ==
    /\ ui.pc = "write"
    /\ Fault
    /\ ui' = NoSubmission
    /\ UNCHANGED <<queue, files, server, flush, composed, history>>

-----------------------------------------------------------------------------
(* flushReportQueue: a run goes through the queue as it was at its start.    *)

Current == Head(flush.todo)
Alter(change, p) ==
    flush' = [flush EXCEPT !.pc = "read", !.change = change, !.photo = p]

StartFlush ==
    /\ flush = NoFlush
    /\ \E q \in {queue, <<>>} : Seen(q) /\ flush' = [NoFlush EXCEPT !.pc = "next", !.todo = q]
    /\ UNCHANGED <<queue, files, server, ui, composed, history>>

EndFlush ==
    /\ flush.pc = "next" /\ flush.todo = <<>>
    /\ flush' = NoFlush
    /\ UNCHANGED <<queue, files, server, ui, composed, faults, history>>

DropItem ==
    /\ files' = files \ Current.photos
    /\ dropped' = dropped \cup {Current.report}
    /\ Alter("drop", Nil)

OutOfRetries(item) == item.retries >= MAX_RETRIES

GiveUp ==
    /\ flush.pc = "next" /\ flush.todo # <<>> /\ OutOfRetries(Current)
    /\ DropItem
    /\ UNCHANGED <<queue, server, ui, composed, faults, confirmed, refused, doubtful, clobbered>>

ProcessItem ==
    /\ flush.pc = "next" /\ flush.todo # <<>> /\ ~OutOfRetries(Current)
    /\ flush' = [flush EXCEPT !.pc = IF Current.sid = 0 THEN "create" ELSE "upload"]
    /\ UNCHANGED <<queue, files, server, ui, composed, faults, history>>

(* isOnline says no: the run ends and nothing counts as a retry.             *)
LosesConnection ==
    /\ flush.pc = "next" /\ flush.todo # <<>> /\ ~OutOfRetries(Current)
    /\ flush' = NoFlush
    /\ UNCHANGED <<queue, files, server, ui, composed, faults, history>>

(* The mutant goes on to the photos without markReportCreated. *)
BugRecordCreated(sid) ==
    flush' = [flush EXCEPT !.pc = "upload", !.todo = [@ EXCEPT ![1].sid = sid]]
RecordCreated(sid) ==
    flush' = [flush EXCEPT !.pc = "read", !.change = "created",
                           !.todo = [@ EXCEPT ![1].sid = sid]]

FlushCreated ==
    /\ flush.pc = "create"
    /\ filed' = [filed EXCEPT ![Current.report] = @ + 1]
    /\ \/ RecordCreated(filed'[Current.report]) /\ UNCHANGED <<faults, doubtful>>
       \/ /\ Fault /\ Alter("retry", Nil)               \* the answer is lost
          /\ doubtful' = doubtful \cup {Current.report}
    /\ UNCHANGED <<queue, files, held, ui, composed, confirmed, refused, dropped, clobbered>>

FlushNotCreated ==
    /\ flush.pc = "create"
    /\ \/ Alter("retry", Nil) /\ UNCHANGED <<files, dropped>>
       \/ DropItem                                       \* ReportRejectedError
    /\ UNCHANGED <<queue, server, ui, composed, faults, confirmed, refused, doubtful, clobbered>>

FlushPhoto(p) ==
    /\ flush.pc = "upload" /\ p \in Current.photos
    /\ PhotoDone(p)
    /\ Alter("photo", p)
    /\ UNCHANGED <<queue, filed, ui, composed, faults, confirmed, dropped, doubtful, clobbered>>

BugKeepFile(p) == files' = files \ {p}   \* deletes the local copy whatever the outcome
KeepFile(p) == UNCHANGED files

FlushPhotoFails(p) ==
    /\ flush.pc = "upload" /\ p \in Current.photos
    /\ held' \in {held} \cup (IF p \in files THEN {held \cup {p}} ELSE {})
    /\ KeepFile(p)
    /\ Alter("retry", Nil)
    /\ UNCHANGED <<queue, filed, ui, composed, faults, history>>

FlushSent ==
    /\ flush.pc = "upload" /\ Current.photos = {}
    /\ Alter("dequeue", Nil)
    /\ UNCHANGED <<queue, files, server, ui, composed, faults, history>>

UpdateRead ==
    /\ flush.pc = "read"
    /\ \E q \in {queue, <<>>} : Seen(q) /\ flush' = [flush EXCEPT !.pc = "write", !.seen = q]
    /\ UNCHANGED <<queue, files, server, ui, composed, history>>

(* markReportCreated, removeQueuedPhoto, updateRetryCount, dequeueReport     *)
Marked(i) == [i EXCEPT !.sid = Current.sid]
Uploaded(i) == [i EXCEPT !.photos = @ \ {flush.photo}]
BugRetried(i) == i
Retried(i) == [i EXCEPT !.retries = @ + 1]

Revised(i) ==
    CASE flush.change = "created" -> Marked(i)
      [] flush.change = "photo" -> Uploaded(i)
      [] flush.change = "retry" -> Retried(i)

Updated ==
    LET q == flush.seen
        r == Current.report
    IN  IF flush.change \in {"dequeue", "drop"} THEN Without(q, r)
        ELSE [i \in DOMAIN q |-> IF q[i].report = r THEN Revised(q[i]) ELSE q[i]]

(* The attempt goes on, or it is over and the run takes the next item.       *)
UpdateWrite ==
    /\ flush.pc = "write"
    /\ Store(flush.seen, Updated)
    /\ flush' = IF flush.change \in {"created", "photo"}
                THEN [NoFlush EXCEPT !.pc = "upload",
                        !.todo = [flush.todo EXCEPT ![1].photos = @ \ {flush.photo}]]
                ELSE [NoFlush EXCEPT !.pc = "next", !.todo = Tail(flush.todo)]
    /\ UNCHANGED <<files, server, ui, composed, faults, confirmed, refused, dropped, doubtful>>

Unrecorded == IF flush.change = "created" THEN {Current.report} ELSE {}

(* setItem throws: within flushOne that counts as a failed attempt, otherwise *)
(* the run fails.                                                           *)
UpdateFails ==
    /\ flush.pc = "write"
    /\ Fault
    /\ IF flush.change \in {"retry", "drop"} THEN flush' = NoFlush
       ELSE flush' = [flush EXCEPT !.pc = "read", !.change = "retry", !.photo = Nil, !.seen = <<>>]
    /\ doubtful' = doubtful \cup Unrecorded
    /\ UNCHANGED <<queue, files, server, ui, composed, confirmed, refused, dropped, clobbered>>

-----------------------------------------------------------------------------
(* The system kills the app: what is not stored is gone.                     *)
Kill ==
    /\ ui # NoSubmission \/ flush # NoFlush
    /\ Fault
    /\ ui' = NoSubmission /\ flush' = NoFlush
    /\ doubtful' = doubtful \cup Unrecorded
    /\ UNCHANGED <<queue, files, server, composed, confirmed, refused, dropped, clobbered>>

UIStep ==
    \/ SubmitCreated \/ SubmitNotCreated
    \/ \E p \in ui.photos : SubmitPhoto(p) \/ SubmitPhotoFails(p)
    \/ SubmitSent \/ EnqueueRead \/ EnqueueWrite \/ EnqueueFails

FlushStep ==
    \/ EndFlush \/ GiveUp \/ ProcessItem \/ LosesConnection
    \/ FlushCreated \/ FlushNotCreated
    \/ \E p \in Photo : FlushPhoto(p) \/ FlushPhotoFails(p)
    \/ FlushSent \/ UpdateRead \/ UpdateWrite \/ UpdateFails

QueueNext ==
    \/ \E r \in Report : Submit(r)
    \/ UIStep
    \/ StartFlush
    \/ FlushStep
    \/ Kill

QueueSpec == QueueInit /\ [][QueueNext]_queueVars

(* Awaits settle, since every request has a timeout; connectivity events and *)
(* the background task start a flush again and again.                        *)
Fairness == WF_queueVars(UIStep) /\ WF_queueVars(FlushStep) /\ WF_queueVars(StartFlush)

FairSpec == QueueSpec /\ Fairness

-----------------------------------------------------------------------------
Queued(r) == Entry(queue, r) # {}
Waiting(p) == \E i \in DOMAIN queue : p \in queue[i].photos

(* What the user was told is sent or queued is on the server or in the queue, *)
(* with each of its photos, through failures, kills and storage errors; but   *)
(* for reports given up, and those that a write of a stale queue clobbered.   *)
NothingLost ==
    \A r \in confirmed \ (dropped \cup clobbered) :
        /\ filed[r] > 0 \/ Queued(r)
        /\ PhotosOf[r] \subseteq held \cup refused \cup {p \in Photo : Waiting(p)}

(* A report is created twice only if the phone never learned of the first     *)
(* creation, could not record it, or had the record clobbered.               *)
FiledOnce == \A r \in Report \ (doubtful \cup clobbered) : filed[r] <= 1

(* A photo that still waits in the queue has its local copy, unless the       *)
(* server has it or refused it or its report was given up: none is deleted    *)
(* before its fate is known.                                                *)
PhotosSurvive ==
    \A i \in DOMAIN queue :
        queue[i].photos \subseteq files \cup held \cup refused \cup UNION {PhotosOf[r] : r \in dropped}

(* Once the phone stays online while it works, the queue empties, whatever    *)
(* the server answers: nothing is retried for ever.                          *)
EventuallyEmptied == <>[][~LosesConnection]_queueVars => <>[](queue = <<>>)
=============================================================================
