------------------------------ MODULE Retention ------------------------------
(***************************************************************************)
(* The retention cleaner (workers/retention.go) at work on the photos of    *)
(* PhotoPipeline: it selects what has expired, deletes the objects and then *)
(* the rows, while clients, photo processors and moderators go on.  Its     *)
(* queries and its calls to the object store are separate steps.  Of all    *)
(* instances one runs at a time, under an advisory lock.                    *)
(***************************************************************************)
EXTENDS PhotoPipeline

CONSTANTS
    DuplicateOf,     \* the original of each report at first, None for an original
    CreatedAt,       \* the age rank of each report: what ORDER BY created_at goes by
    RetentionBatch   \* retentionBatch

ASSUME ReportAssumption ==
    /\ DuplicateOf \in [Report -> Report \cup {None}]
    /\ \A r \in Report : DuplicateOf[r] # None => DuplicateOf[DuplicateOf[r]] = None
    /\ CreatedAt \in [Report -> Int] /\ IsFiniteSet(Report)
    /\ RetentionBatch \in Nat \ {0}

VARIABLES
    original,   \* duplicate_of of the stored reports
    expired,    \* reports past the period that the policy gives them
    cleaner,    \* the run of the retention cleaner
    condemned   \* history: reports that have expired, and their duplicates

reports == <<original, expired, condemned>>
allVars == <<vars, reports, cleaner>>

-----------------------------------------------------------------------------
(* One row of photoKeys: the group under which it is deleted, and its keys.  *)
Item == [group : Report \cup Photo, photo : Photo, keys : SUBSET Key]

Run == [pc : {"idle", "reports", "keys", "objects", "rows",
              "photos", "photoObjects", "photoRows"},
        batch : SUBSET (Report \cup Photo), items : SUBSET Item,
        blocked : SUBSET (Report \cup Photo)]
NoRun == [pc |-> "idle", batch |-> {}, items |-> {}, blocked |-> {}]

RetentionTypeOK ==
    /\ TypeOK
    /\ original \in [Report -> Report \cup {None}]
    /\ expired \subseteq stored
    /\ cleaner \in Run
    /\ condemned \subseteq Report

RetentionInit ==
    /\ Init
    /\ original = DuplicateOf
    /\ expired = {}
    /\ cleaner = NoRun
    /\ condemned = {}

-----------------------------------------------------------------------------
(* Time and moderators.                                                    *)

Duplicates(S) == {d \in stored : original[d] \in S}

Expire(r) ==
    /\ r \in stored \ expired
    /\ expired' = expired \cup {r}
    /\ condemned' = condemned \cup {r} \cup Duplicates({r})
    /\ UNCHANGED <<vars, original, cleaner>>

(* ModerateReport: an original is put under the rule of its new status; a     *)
(* duplicate has to be unmarked for that.                                    *)
Decide(r, unmark) ==
    /\ r \in stored /\ ~ReportLocked(r)
    /\ original' = IF unmark THEN [original EXCEPT ![r] = None] ELSE original
    /\ \/ expired' = expired
       \/ original'[r] = None /\ expired' = expired \ {r}
    /\ UNCHANGED <<vars, cleaner, condemned>>

-----------------------------------------------------------------------------
(* cleanReports.                                                           *)

StartRun ==
    /\ cleaner.pc = "idle"
    /\ cleaner' = [NoRun EXCEPT !.pc = "reports"]
    /\ UNCHANGED <<vars, reports>>

Oldest(S) ==
    {r \in S : Cardinality({q \in S : CreatedAt[q] < CreatedAt[r]}) < RetentionBatch}

ExpiredReports ==
    /\ cleaner.pc = "reports"
    /\ cleaner' = IF expired = {} THEN [NoRun EXCEPT !.pc = "photos"]
                  ELSE [NoRun EXCEPT !.pc = "keys", !.batch = Oldest(expired)]
    /\ UNCHANGED <<vars, reports>>

Keys(p) == {"quarantine"} \cup (IF rows[p].published THEN {"large", "thumb"} ELSE {})
AnItem(g, p) == [group |-> g, photo |-> p, keys |-> Keys(p)]

(* CASE WHEN r.id = ANY(ids) THEN r.id ELSE r.duplicate_of END *)
Group(r) == IF r \in cleaner.batch THEN r ELSE original[r]

ReadKeys ==
    /\ cleaner.pc = "keys"
    /\ cleaner' = [cleaner EXCEPT !.pc = "objects",
           !.items = {AnItem(Group(ReportOf[p]), p) :
                        p \in {q \in Photo : /\ Exists(q)
                                             /\ Group(ReportOf[q]) \in cleaner.batch}}]
    /\ UNCHANGED <<vars, reports>>

Prefix == {{}, {"quarantine"}, {"quarantine", "large"}, Key}

Erased(S) ==
    [p \in Photo |-> [k \in Key |->
        IF \E i \in S : i.photo = p /\ k \in i.keys THEN None ELSE objects[p][k]]]

Groups == {i.group : i \in cleaner.items}
Members(g) == {i \in cleaner.items : i.group = g}

(* An object that is not there counts as deleted. *)
DeleteObjects(g) ==
    /\ cleaner.pc \in {"objects", "photoObjects"}
    /\ g \in Groups
    /\ objects' = Erased(Members(g))
    /\ cleaner' = [cleaner EXCEPT !.items = @ \ Members(g)]
    /\ UNCHANGED <<uploads, rows, worker, overrun, reports>>

(* deleteObjects goes through the keys of a photo in their order, up to the   *)
(* first that fails; the rows of the group are then left alone.              *)
DeletionFails(g) ==
    /\ cleaner.pc \in {"objects", "photoObjects"}
    /\ g \in Groups
    /\ \E done \in SUBSET Members(g), i \in Members(g), keys \in Prefix :
          /\ i \notin done
          /\ objects' = Erased(done \cup {[i EXCEPT !.keys = i.keys \cap keys]})
    /\ cleaner' = [cleaner EXCEPT !.items = @ \ Members(g), !.blocked = @ \cup {g}]
    /\ UNCHANGED <<uploads, rows, worker, overrun, reports>>

AllTried ==
    /\ cleaner.pc \in {"objects", "photoObjects"} /\ Groups = {}
    /\ cleaner' = [cleaner EXCEPT !.pc = IF @ = "objects" THEN "rows" ELSE "photoRows"]
    /\ UNCHANGED <<vars, reports>>

(* The mutant only deletes that for which it found keys. *)
BugRemovable ==
    {g \in cleaner.batch \ cleaner.blocked :
        \E p \in Photo : Exists(p) /\ g \in {p, Group(ReportOf[p])}}
Removable == cleaner.batch \ cleaner.blocked

(* ON DELETE CASCADE, from a report to its duplicates and to photos.        *)
DeleteReports ==
    LET doomed == (Removable \cup Duplicates(Removable)) \cap stored IN
    /\ cleaner.pc = "rows"
    /\ \A r \in doomed : ~ReportLocked(r)
    /\ stored' = stored \ doomed
    /\ rows' = [p \in Photo |-> IF ReportOf[p] \in doomed /\ Exists(p)
                                THEN [NoRow EXCEPT !.status = "gone", !.age = rows[p].age]
                                ELSE rows[p]]
    /\ expired' = expired \ doomed
    /\ original' = [r \in Report |-> IF r \in doomed THEN None ELSE original[r]]
    /\ \/ cleaner' = [NoRun EXCEPT !.pc = "photos"]
       \/ /\ cleaner.blocked = {} /\ Cardinality(cleaner.batch) = RetentionBatch
          /\ cleaner' = [NoRun EXCEPT !.pc = "reports"]   \* retentionMaxBatches not reached
    /\ UNCHANGED <<slot, objects, worker, overrun, condemned>>

-----------------------------------------------------------------------------
(* cleanPhotos.  The mutant looks at updated_at alone.                      *)

Abandoned(p) == rows[p].status = "pending_upload" /\ rows[p].age > AbandonAfter
BugFailed(p) == Exists(p) /\ rows[p].idle > FailedFor
Failed(p) == rows[p].status \in {"rejected", "failed"} /\ rows[p].idle > FailedFor

ExpiredPhotos ==
    LET found == {p \in Photo : Abandoned(p) \/ Failed(p)} IN
    /\ cleaner.pc = "photos"
    /\ cleaner' = [NoRun EXCEPT !.pc = "photoObjects", !.batch = found,
                                !.items = {AnItem(p, p) : p \in found}]
    /\ UNCHANGED <<vars, reports>>

DeletePhotos ==
    /\ cleaner.pc = "photoRows"
    /\ rows' = [p \in Photo |-> IF p \in Removable /\ Exists(p)
                                THEN [NoRow EXCEPT !.status = "gone", !.age = rows[p].age]
                                ELSE rows[p]]
    /\ cleaner' = NoRun
    /\ UNCHANGED <<uploads, objects, worker, overrun, reports>>

(* The instance stops, or a statement fails. *)
Abort ==
    /\ cleaner.pc # "idle"
    /\ cleaner' = NoRun
    /\ UNCHANGED <<vars, reports>>

-----------------------------------------------------------------------------
StorageFails == \E g \in Groups : DeletionFails(g)

CleanerStep ==
    \/ StartRun \/ ExpiredReports \/ ReadKeys
    \/ \E g \in Groups : DeleteObjects(g)
    \/ AllTried \/ DeleteReports \/ ExpiredPhotos \/ DeletePhotos

RetentionNext ==
    \/ PhotoNext /\ UNCHANGED <<reports, cleaner>>
    \/ CleanerStep \/ StorageFails \/ Abort
    \/ \E r \in Report : Expire(r) \/ \E unmark \in BOOLEAN : Decide(r, unmark)

RetentionSpec == RetentionInit /\ [][RetentionNext]_allVars

(* A ticker starts the cleaner again and again; requests end, and Postgres   *)
(* serves the DELETE that waits for their row locks in its turn.             *)
RetentionFairness ==
    /\ Fairness
    /\ \A c \in Client : WF_vars(InsertPhoto(c))
    /\ WF_allVars(CleanerStep) /\ SF_allVars(DeleteReports)

FairRetention == RetentionSpec /\ RetentionFairness

-----------------------------------------------------------------------------
(* Of a report that never expired, no photo that is ready loses its images,  *)
(* whatever the cleaner does to other reports, their duplicates and failed   *)
(* photos, and however its runs end.                                        *)
KeptPhotosIntact ==
    \A p \in Photo \ overrun :
        rows[p].status = "ready" /\ ReportOf[p] \notin condemned
            => objects[p]["large"] # None /\ objects[p]["thumb"] # None

(* Once storage and the database work, everything that has expired goes: a   *)
(* report unless a moderator spares it, an abandoned or failed photo.        *)
EventuallyErased ==
    <>[][~StorageFails /\ ~Abort]_allVars
        => /\ \A r \in Report : []<>(r \notin expired)
           /\ \A p \in Photo : []<>~(Abandoned(p) \/ Failed(p))
=============================================================================
