------------------------- MODULE PhotoPipelineProofs -------------------------
(***************************************************************************)
(* What PhotoPipeline and the retention cleaner at work on it keep for any *)
(* number of reports, photos, clients and workers and any limits, leases   *)
(* and batches.                                                            *)
(***************************************************************************)
EXTENDS Retention, FiniteSetTheorems, TLAPS

LEMMA Constants ==
  /\ ReportOf \in [Photo -> Report] /\ IsFiniteSet(Photo)
  /\ None \notin Photo /\ None # "clean"
  /\ MaxPhotosPerReport \in Nat \ {0} /\ SlotTTL \in Nat \ {0} /\ AbandonAfter \in Nat
  /\ Lease \in Nat \ {0}
BY SlotAssumption, LeaseAssumption

-----------------------------------------------------------------------------
(* What the arguments need of the types.  How long a photo that failed is   *)
(* locked is of no interest.                                                *)
RowFields == {"status", "age", "idle", "locked", "attempts", "published"}
JobFields == {"pc", "photo", "attempts", "left", "data", "outcome"}

RowOK(r) ==
  /\ RowFields \subseteq DOMAIN r
  /\ r.status \in Status /\ r.age \in 0 .. AbandonAfter + 1

JobOK(j) ==
  /\ JobFields \subseteq DOMAIN j
  /\ j.left \in Nat
  /\ j.pc = "idle" => j.photo = None
  /\ j.pc # "idle" => j.photo \in Photo
  /\ j.pc = "finish" => j.outcome \in Settled

RowTypes == DOMAIN rows = Photo /\ \A p \in Photo : RowOK(rows[p])
JobTypes == DOMAIN worker = Worker /\ \A w \in Worker : JobOK(worker[w])
ObjectTypes == objects \in [Photo -> [Key -> Content \cup {None}]]
SlotTypes == slot \in [Client -> Photo \cup {None}]

Types == RowTypes /\ JobTypes /\ ObjectTypes /\ SlotTypes

(* Only what was scanned is in a worker's hands when it stores.             *)
CleanInv ==
  /\ \A p \in Photo : \A k \in {"large", "thumb"} : objects[p][k] \in {None, "clean"}
  /\ \A w \in Worker : worker[w].pc \in {"large", "thumb"} => worker[w].data = "clean"

(* Of a photo that is ready or about to be, the images are there.           *)
Stored(p, k) == objects[p][k] = "clean"

Images(p) ==
  /\ \A w \in Worker : worker[w].photo = p =>
       /\ worker[w].pc = "thumb" => Stored(p, "large")
       /\ worker[w].pc = "finish" /\ worker[w].outcome = "ready" =>
            Stored(p, "large") /\ Stored(p, "thumb")
  /\ rows[p].status = "ready" => Stored(p, "large") /\ Stored(p, "thumb")

ImagesKept == \A p \in Photo : Images(p) => Images(p)'

(* A worker within its lease is alone with the photo, and the row's lock    *)
(* ends with the lease, unless the row was deleted meanwhile.               *)
Holds(w, p) == worker[w].photo = p /\ worker[w].pc # "idle"

LeaseInv ==
  \A w \in Worker : \A p \in Photo \ overrun : Holds(w, p) =>
    /\ worker[w].left >= 1
    /\ worker[w].pc # "discard" => \/ rows[p].status = "gone"
                                   \/ rows[p].status = "processing" /\ rows[p].locked = worker[w].left
    /\ worker[w].pc = "discard" => rows[p].status \in Settled \cup {"gone"}
    /\ \A u \in Worker : Holds(u, p) => u = w

(* One transaction at a time reserves a slot of a report, and there is room  *)
(* for what it will insert.                                                 *)
SlotInv ==
  /\ \A c \in Client : slot[c] # None => rows[slot[c]].status = "absent"
  /\ \A c, d \in Client : slot[c] # None /\ slot[d] # None /\ ReportOf[slot[c]] = ReportOf[slot[d]] => c = d
  /\ \A r \in Report : (\A p \in overrun : ReportOf[p] # r) =>
       /\ Slots(r) <= MaxPhotosPerReport
       /\ ReportLocked(r) => Slots(r) < MaxPhotosPerReport

Inv == Types /\ CleanInv /\ LeaseInv /\ SlotInv

-----------------------------------------------------------------------------
(* What becomes of the jobs and rows in each kind of step.                  *)

LEMMA NoJobFacts ==
  JobOK(NoJob) /\ NoJob.pc = "idle" /\ NoJob.photo = None
BY DEF NoJob, JobOK, JobFields

LEMMA NoRowFacts ==
  RowOK(NoRow) /\ NoRow.status = "absent"
  /\ RowOK([NoRow EXCEPT !.status = "pending_upload"])
  /\ [NoRow EXCEPT !.status = "pending_upload"].status = "pending_upload"
  /\ [NoRow EXCEPT !.status = "pending_upload"].age = 0
BY Constants DEF NoRow, RowOK, RowFields, Status

LEMMA EndFacts ==
  ASSUME JobTypes, NEW w \in Worker, End(w)
  PROVE  /\ JobTypes' /\ worker'[w] = NoJob
         /\ \A u \in Worker : u # w => worker'[u] = worker[u]
BY NoJobFacts DEF End, JobTypes

LEMMA GoToFacts ==
  ASSUME JobTypes, NEW w \in Worker, NEW pc \in {"large", "thumb", "discard"},
         worker[w].pc # "idle", GoTo(w, pc)
  PROVE  /\ JobTypes' /\ worker'[w].pc = pc
         /\ worker'[w].photo = worker[w].photo /\ worker'[w].left = worker[w].left
         /\ worker'[w].data = worker[w].data /\ worker'[w].outcome = worker[w].outcome
         /\ \A u \in Worker : u # w => worker'[u] = worker[u]
<1>1. JobOK(worker[w]) /\ DOMAIN worker = Worker BY DEF JobTypes
<1>2. worker' = [worker EXCEPT ![w] = [worker[w] EXCEPT !.pc = pc]] BY DEF GoTo
<1>3. /\ worker'[w] = [worker[w] EXCEPT !.pc = pc] /\ DOMAIN worker' = Worker
      /\ \A u \in Worker : u # w => worker'[u] = worker[u]
  BY <1>1, <1>2
<1>4. /\ worker'[w].pc = pc
      /\ worker'[w].photo = worker[w].photo /\ worker'[w].left = worker[w].left
      /\ worker'[w].data = worker[w].data /\ worker'[w].outcome = worker[w].outcome
      /\ JobFields \subseteq DOMAIN worker'[w]
  BY <1>1, <1>3 DEF JobOK, JobFields
<1>5. JobOK(worker'[w]) BY <1>1, <1>4 DEF JobOK
<1>6. JobTypes' BY <1>3, <1>5 DEF JobTypes
<1>7. QED BY <1>3, <1>4, <1>6

LEMMA ConcludeFacts ==
  ASSUME JobTypes, NEW w \in Worker, NEW outcome \in Settled, worker[w].pc # "idle", Conclude(w, outcome)
  PROVE  /\ JobTypes' /\ worker'[w].pc = "finish"
         /\ worker'[w].photo = worker[w].photo /\ worker'[w].left = worker[w].left
         /\ worker'[w].outcome = outcome
         /\ \A u \in Worker : u # w => worker'[u] = worker[u]
<1>1. JobOK(worker[w]) /\ DOMAIN worker = Worker BY DEF JobTypes
<1>3. /\ DOMAIN worker' = Worker
      /\ \A u \in Worker : u # w => worker'[u] = worker[u]
  BY <1>1 DEF Conclude
<1>4. /\ worker'[w].pc = "finish"
      /\ worker'[w].photo = worker[w].photo /\ worker'[w].left = worker[w].left
      /\ worker'[w].outcome = outcome
      /\ JobFields \subseteq DOMAIN worker'[w]
  BY <1>1 DEF JobOK, JobFields, Conclude
<1>5. JobOK(worker'[w]) BY <1>1, <1>4 DEF JobOK
<1>6. JobTypes' BY <1>3, <1>5 DEF JobTypes
<1>7. QED BY <1>3, <1>4, <1>6

(* Counting: no photo comes to count, or the reserved one does.             *)
LEMMA SlotsFinite ==
  \A r \in Report : /\ IsFiniteSet({p \in Photo : ReportOf[p] = r /\ Counts(p)})
                    /\ Slots(r) \in Nat
<1> TAKE r \in Report
<1>1. IsFiniteSet({p \in Photo : ReportOf[p] = r /\ Counts(p)})
  BY Constants, FS_Subset
<1>2. QED BY <1>1, FS_CardinalityType DEF Slots

LEMMA SlotsShrink ==
  ASSUME NEW r \in Report, \A p \in Photo : ReportOf[p] = r /\ Counts(p)' => Counts(p)
  PROVE  Slots(r)' <= Slots(r) /\ Slots(r)' \in Nat /\ Slots(r) \in Nat
<1> DEFINE S == {p \in Photo : ReportOf[p] = r /\ Counts(p)}
           T == {p \in Photo : ReportOf[p] = r /\ Counts(p)'}
<1>1. T \subseteq S /\ IsFiniteSet(S) BY SlotsFinite
<1>2. Cardinality(T) <= Cardinality(S) /\ Cardinality(T) \in Nat /\ Cardinality(S) \in Nat
  <2> HIDE DEF S, T
  <2>1. IsFiniteSet(T) /\ Cardinality(T) <= Cardinality(S) BY <1>1, FS_Subset
  <2>2. QED BY <1>1, <2>1, FS_CardinalityType
<1>3. Slots(r)' = Cardinality(T) /\ Slots(r) = Cardinality(S) BY DEF Slots
<1>4. QED BY <1>2, <1>3

LEMMA SlotsGrow ==
  ASSUME NEW r \in Report, NEW q \in Photo,
         \A p \in Photo : ReportOf[p] = r /\ Counts(p)' => Counts(p) \/ p = q
  PROVE  Slots(r)' <= Slots(r) + 1 /\ Slots(r)' \in Nat /\ Slots(r) \in Nat
<1> DEFINE S == {p \in Photo : ReportOf[p] = r /\ Counts(p)}
           T == {p \in Photo : ReportOf[p] = r /\ Counts(p)'}
<1>1. T \subseteq S \cup {q} /\ IsFiniteSet(S) BY SlotsFinite
<1>2. Cardinality(T) <= Cardinality(S) + 1 /\ Cardinality(T) \in Nat /\ Cardinality(S) \in Nat
  <2> HIDE DEF S, T
  <2>1. /\ IsFiniteSet(S \cup {q}) /\ Cardinality(S) \in Nat
        /\ Cardinality(S \cup {q}) <= Cardinality(S) + 1
    <3>1. Cardinality(S) \in Nat BY <1>1, FS_CardinalityType
    <3>2. IsFiniteSet(S \cup {q})
          /\ Cardinality(S \cup {q}) = IF q \in S THEN Cardinality(S) ELSE Cardinality(S) + 1
      BY <1>1, FS_AddElement
    <3>3. QED BY <3>1, <3>2
  <2>2. IsFiniteSet(T) /\ Cardinality(T) <= Cardinality(S \cup {q}) BY <1>1, <2>1, FS_Subset
  <2>3. Cardinality(T) \in Nat /\ Cardinality(S \cup {q}) \in Nat
    BY <2>1, <2>2, FS_CardinalityType
  <2>4. QED BY <2>1, <2>2, <2>3
<1>3. Slots(r)' = Cardinality(T) /\ Slots(r) = Cardinality(S) BY DEF Slots
<1>4. QED BY <1>2, <1>3

(* The slots stay within the limit unless a photo comes to count.           *)
LEMMA SlotKept ==
  ASSUME SlotInv, SlotTypes, UNCHANGED slot, overrun \subseteq overrun',
         \A p \in Photo : rows[p].status = "absent" => rows'[p].status = "absent",
         \A p \in Photo \ overrun' : Counts(p)' => Counts(p)
  PROVE  SlotInv'
<1>1. \A c \in Client : slot'[c] # None => rows'[slot'[c]].status = "absent"
  BY DEF SlotInv, SlotTypes
<1>2. \A c, d \in Client :
        slot'[c] # None /\ slot'[d] # None /\ ReportOf[slot'[c]] = ReportOf[slot'[d]] => c = d
  BY DEF SlotInv
<1>3. ASSUME NEW r \in Report, \A p \in overrun' : ReportOf[p] # r
      PROVE  /\ Slots(r)' <= MaxPhotosPerReport
             /\ ReportLocked(r)' => Slots(r)' < MaxPhotosPerReport
  <2>1. /\ Slots(r) <= MaxPhotosPerReport
        /\ ReportLocked(r) => Slots(r) < MaxPhotosPerReport
    BY <1>3 DEF SlotInv
  <2>2. Slots(r)' <= Slots(r) /\ Slots(r)' \in Nat /\ Slots(r) \in Nat
    <3>1. \A p \in Photo : ReportOf[p] = r /\ Counts(p)' => Counts(p) BY <1>3
    <3>2. QED BY <3>1, SlotsShrink
  <2>3. ReportLocked(r)' <=> ReportLocked(r) BY DEF ReportLocked
  <2>4. QED BY <2>1, <2>2, <2>3, Constants
<1>4. QED BY <1>1, <1>2, <1>3 DEF SlotInv

(* A step of one worker that leaves the rows alone.                         *)
LEMMA LeaseKept ==
  ASSUME LeaseInv, JobTypes, NEW w \in Worker, UNCHANGED <<rows, overrun>>,
         \A u \in Worker : u # w => worker'[u] = worker[u],
         \/ worker'[w].pc = "idle"
         \/ /\ worker[w].pc \notin {"idle", "discard"} /\ worker'[w].pc \notin {"idle", "discard"}
            /\ worker'[w].photo = worker[w].photo /\ worker'[w].left = worker[w].left
  PROVE  LeaseInv'
<1>1. \A u \in Worker : \A p \in Photo : Holds(u, p)' => Holds(u, p) BY DEF Holds
<1>2. ASSUME NEW u \in Worker, NEW p \in Photo \ overrun', Holds(u, p)'
      PROVE  /\ worker'[u].left >= 1
             /\ worker'[u].pc # "discard" =>
                  \/ rows'[p].status = "gone"
                  \/ rows'[p].status = "processing" /\ rows'[p].locked = worker'[u].left
             /\ worker'[u].pc = "discard" => rows'[p].status \in Settled \cup {"gone"}
             /\ \A v \in Worker : Holds(v, p)' => v = u
  <2>1. p \in Photo \ overrun /\ Holds(u, p) BY <1>1, <1>2
  <2>2. /\ worker'[u].left = worker[u].left
        /\ worker'[u].pc = "discard" <=> worker[u].pc = "discard"
    BY <1>2 DEF Holds
  <2>3. QED BY <1>1, <2>1, <2>2 DEF LeaseInv
<1>3. QED BY <1>2 DEF LeaseInv

-----------------------------------------------------------------------------
(* Clients *)

LEMMA InitInv == Init => Inv /\ \A p \in Photo : Images(p)
<1> SUFFICES ASSUME Init PROVE Inv /\ \A p \in Photo : Images(p) OBVIOUS
<1>1. /\ DOMAIN rows = Photo /\ \A p \in Photo : rows[p] = NoRow
      /\ DOMAIN worker = Worker /\ \A w \in Worker : worker[w] = NoJob
      /\ \A p \in Photo : objects[p] = Empty
      /\ slot = [c \in Client |-> None]
  BY DEF Init
<1>2. Types
  BY <1>1, NoRowFacts, NoJobFacts DEF Init, Types, RowTypes, JobTypes, ObjectTypes, SlotTypes, Empty
<1>3. CleanInv
  BY <1>1, NoRowFacts, NoJobFacts DEF CleanInv, Empty, Key
<1>4. LeaseInv
  BY <1>1, NoJobFacts DEF LeaseInv, Holds
<1>5. SlotInv
  <2>1. \A p \in Photo : ~ Counts(p) BY <1>1, NoRowFacts DEF Counts
  <2>2. ASSUME NEW r \in Report PROVE Slots(r) = 0
    <3>1. {p \in Photo : ReportOf[p] = r /\ Counts(p)} = {} BY <2>1
    <3>2. QED BY <3>1, FS_EmptySet DEF Slots
  <2>3. QED BY <1>1, <2>2, Constants DEF SlotInv, ReportLocked
<1>6. \A p \in Photo : Images(p)
  BY <1>1, NoRowFacts, NoJobFacts DEF Images
<1>7. QED BY <1>2, <1>3, <1>4, <1>5, <1>6 DEF Inv

LEMMA ReserveKeeps ==
  ASSUME Inv, NEW c \in Client, NEW p \in Photo, ReserveSlot(c, p)
  PROVE  Inv' /\ ImagesKept
<1>1. /\ slot' \in [Client -> Photo \cup {None}] /\ slot'[c] = p
      /\ \A d \in Client : d # c => slot'[d] = slot[d]
      /\ UNCHANGED <<rows, objects, worker, overrun>>
      /\ rows[p].status = "absent" /\ ~ ReportLocked(ReportOf[p])
      /\ Slots(ReportOf[p]) < MaxPhotosPerReport
  BY DEF ReserveSlot, Inv, Types, SlotTypes
<1>2. Types' BY <1>1 DEF Inv, Types, RowTypes, JobTypes, ObjectTypes, SlotTypes
<1>3. CleanInv' /\ LeaseInv' /\ ImagesKept
  BY <1>1 DEF Inv, CleanInv, ImagesKept, Images, LeaseInv, Stored, Holds
<1>4. SlotInv'
  <2>1. \A d \in Client : slot'[d] # None => rows'[slot'[d]].status = "absent"
    BY <1>1 DEF Inv, SlotInv
  <2>2. \A d \in Client : slot[d] # None => ReportOf[slot[d]] # ReportOf[p]
    BY <1>1 DEF ReportLocked
  <2>3. \A d, e \in Client :
          slot'[d] # None /\ slot'[e] # None /\ ReportOf[slot'[d]] = ReportOf[slot'[e]] => d = e
    BY <1>1, <2>2 DEF Inv, SlotInv
  <2>4. \A r \in Report : Slots(r)' = Slots(r)
    BY <1>1 DEF Slots, Counts, Expired
  <2>5. \A r \in Report : ReportLocked(r)' => ReportLocked(r) \/ r = ReportOf[p]
    BY <1>1 DEF ReportLocked
  <2>6. QED BY <1>1, <2>1, <2>3, <2>4, <2>5 DEF Inv, SlotInv
<1>5. QED BY <1>2, <1>3, <1>4 DEF Inv

LEMMA InsertKeeps ==
  ASSUME Inv, NEW c \in Client, InsertPhoto(c)
  PROVE  Inv' /\ ImagesKept
<1>1. PICK p \in Photo : p = slot[c]
  BY DEF InsertPhoto, Inv, Types, SlotTypes
<1>2. /\ slot' \in [Client -> Photo \cup {None}] /\ slot'[c] = None
      /\ \A d \in Client : d # c => slot'[d] = slot[d]
      /\ UNCHANGED <<objects, worker, overrun>>
  BY DEF InsertPhoto, Inv, Types, SlotTypes
<1>3. /\ DOMAIN rows' = Photo /\ \A q \in Photo : q # p => rows'[q] = rows[q]
      /\ rows'[p] \in {rows[p], [NoRow EXCEPT !.status = "pending_upload"]}
  BY <1>1 DEF InsertPhoto, Inv, Types, RowTypes
<1>4. /\ RowOK(rows'[p]) /\ rows'[p].status \in {rows[p].status, "pending_upload"}
      /\ rows[p].status = "absent" /\ p # None
  BY <1>1, <1>3, NoRowFacts, Constants DEF Inv, Types, RowTypes, SlotInv
<1>5. Types' BY <1>2, <1>3, <1>4 DEF Inv, Types, RowTypes, JobTypes, ObjectTypes, SlotTypes
<1>6. CleanInv' /\ ImagesKept
  <2>1. \A q \in Photo : rows'[q].status = "ready" => rows[q].status = "ready"
    BY <1>3, <1>4
  <2>2. QED BY <1>2, <2>1 DEF Inv, CleanInv, ImagesKept, Images, Stored
<1>7. LeaseInv'
  <2>1. \A w \in Worker : p \notin overrun => ~ Holds(w, p)
    BY <1>4 DEF Inv, LeaseInv, Settled
  <2>2. QED BY <1>2, <1>3, <2>1 DEF Inv, LeaseInv, Holds
<1>8. SlotInv'
  <2>1. \A d \in Client : d # c /\ slot[d] # None => ReportOf[slot[d]] # ReportOf[p]
    BY <1>1, <1>4 DEF Inv, SlotInv
  <2>2. \A d \in Client : slot'[d] # None => d # c /\ slot'[d] = slot[d] /\ slot[d] \in Photo \ {p}
    BY <1>2, <2>1 DEF Inv, Types, SlotTypes
  <2>3. \A d \in Client : slot'[d] # None => rows'[slot'[d]].status = "absent"
    BY <1>3, <2>2 DEF Inv, SlotInv
  <2>4. \A d, e \in Client :
          slot'[d] # None /\ slot'[e] # None /\ ReportOf[slot'[d]] = ReportOf[slot'[e]] => d = e
    BY <2>2 DEF Inv, SlotInv
  <2>5. \A q \in Photo : q # p => (Counts(q)' <=> Counts(q))
    BY <1>3 DEF Counts, Expired
  <2>6. ASSUME NEW r \in Report, \A q \in overrun' : ReportOf[q] # r
        PROVE  /\ Slots(r)' <= MaxPhotosPerReport
               /\ ReportLocked(r)' => Slots(r)' < MaxPhotosPerReport
    <3>1. /\ Slots(r) <= MaxPhotosPerReport
          /\ ReportLocked(r) => Slots(r) < MaxPhotosPerReport
      BY <1>2, <2>6 DEF Inv, SlotInv
    <3>2. CASE r = ReportOf[p]
      <4>1. ReportLocked(r) /\ ~ ReportLocked(r)'
        BY <1>1, <1>4, <2>1, <2>2, <3>2 DEF ReportLocked
      <4>2. Slots(r)' <= Slots(r) + 1 /\ Slots(r)' \in Nat /\ Slots(r) \in Nat
        BY <2>5, SlotsGrow
      <4>3. QED BY <3>1, <4>1, <4>2, Constants
    <3>3. CASE r # ReportOf[p]
      <4>1. Slots(r)' <= Slots(r) /\ Slots(r)' \in Nat /\ Slots(r) \in Nat
        BY <2>5, <3>3, SlotsShrink
      <4>2. ReportLocked(r)' => ReportLocked(r) BY <2>2 DEF ReportLocked
      <4>3. QED BY <3>1, <4>1, <4>2, Constants
    <3>4. QED BY <3>2, <3>3
  <2>7. QED BY <2>3, <2>4, <2>6 DEF SlotInv
<1>9. QED BY <1>5, <1>6, <1>7, <1>8 DEF Inv

LEMMA UploadKeeps ==
  ASSUME Inv, NEW p \in Photo, NEW content \in Content, Upload(p, content)
  PROVE  Inv' /\ ImagesKept
<1>1. /\ objects' \in [Photo -> [Key -> Content \cup {None}]]
      /\ \A q \in Photo : \A k \in {"large", "thumb"} : objects'[q][k] = objects[q][k]
  BY DEF Upload, Inv, Types, ObjectTypes, Key
<1>2. UNCHANGED <<slot, rows, worker, overrun>> BY DEF Upload, uploads
<1>3. Types' BY <1>1, <1>2 DEF Inv, Types, RowTypes, JobTypes, ObjectTypes, SlotTypes
<1>4. CleanInv' /\ ImagesKept
  <2>1. \A w \in Worker : worker[w].pc # "idle" => worker[w].photo \in Photo
    BY DEF Inv, Types, JobTypes, JobOK
  <2>2. QED BY <1>1, <1>2, <2>1 DEF Inv, CleanInv, ImagesKept, Images, Stored
<1>5. LeaseInv' BY <1>2 DEF Inv, LeaseInv, Holds
<1>6. SlotInv' BY <1>2, SlotKept DEF Inv, Types, Counts, Expired
<1>7. QED BY <1>3, <1>4, <1>5, <1>6 DEF Inv

LEMMA CompleteKeeps ==
  ASSUME Inv, NEW p \in Photo, CompletePhotoUpload(p)
  PROVE  Inv' /\ ImagesKept
<1>1. /\ DOMAIN rows' = Photo /\ \A q \in Photo : q # p => rows'[q] = rows[q]
      /\ RowFields \subseteq DOMAIN rows'[p]
      /\ rows'[p].status = "processing" /\ rows'[p].age = rows[p].age
  BY DEF CompletePhotoUpload, Inv, Types, RowTypes, RowOK, RowFields
<1>2. /\ UNCHANGED <<slot, objects, worker, overrun>>
      /\ rows[p].status = "pending_upload" /\ ~ Expired(p)
  BY DEF CompletePhotoUpload, Completable, uploads
<1>3. RowOK(rows'[p]) BY <1>1 DEF Inv, Types, RowTypes, RowOK, Status
<1>4. Types' BY <1>1, <1>2, <1>3 DEF Inv, Types, RowTypes, JobTypes, ObjectTypes, SlotTypes
<1>5. CleanInv' /\ ImagesKept BY <1>1, <1>2 DEF Inv, CleanInv, ImagesKept, Images, Stored
<1>6. LeaseInv'
  <2>1. \A w \in Worker : p \notin overrun => ~ Holds(w, p)
    BY <1>2 DEF Inv, LeaseInv, Settled
  <2>2. QED BY <1>1, <1>2, <2>1 DEF Inv, LeaseInv, Holds
<1>7. SlotInv' BY <1>1, <1>2, SlotKept DEF Inv, Types, Counts, Expired
<1>8. QED BY <1>4, <1>5, <1>6, <1>7 DEF Inv

-----------------------------------------------------------------------------
(* Workers *)

LEMMA ClaimKeeps ==
  ASSUME Inv, NEW w \in Worker, NEW p \in Photo, Claim(w, p)
  PROVE  Inv' /\ ImagesKept
<1> DEFINE n == IF rows[p].attempts > MaxAttempts THEN rows[p].attempts ELSE rows[p].attempts + 1
           new == [NoJob EXCEPT !.pc = "download", !.photo = p, !.attempts = n, !.left = Lease]
<1>1. /\ UNCHANGED <<slot, objects, overrun>>
      /\ worker[w].pc = "idle" /\ rows[p].status = "processing" /\ rows[p].locked = 0
      /\ rows' = [rows EXCEPT ![p].locked = Lease, ![p].attempts = n]
      /\ worker' = [worker EXCEPT ![w] = new]
  BY DEF Claim, Claimable, uploads
<1>2. new.pc = "download" /\ new.photo = p /\ new.left = Lease /\ JobFields \subseteq DOMAIN new
  BY DEF NoJob, JobFields
<1> HIDE DEF new, n
<1>3. /\ worker'[w] = new /\ DOMAIN worker' = Worker
      /\ \A u \in Worker : u # w => worker'[u] = worker[u]
  BY <1>1 DEF Inv, Types, JobTypes
<1>4. /\ DOMAIN rows' = Photo /\ \A q \in Photo : q # p => rows'[q] = rows[q]
      /\ RowFields \subseteq DOMAIN rows'[p] /\ rows'[p].locked = Lease
      /\ rows'[p].status = rows[p].status /\ rows'[p].age = rows[p].age
  BY <1>1 DEF Inv, Types, RowTypes, RowOK, RowFields
<1>5. Types'
  <2>1. JobOK(worker'[w]) BY <1>2, <1>3, Constants DEF JobOK
  <2>2. RowOK(rows'[p]) BY <1>4 DEF RowOK, Inv, Types, RowTypes
  <2>3. QED BY <1>1, <1>3, <1>4, <2>1, <2>2 DEF Inv, Types, RowTypes, JobTypes, ObjectTypes, SlotTypes
<1>6. CleanInv' /\ ImagesKept BY <1>1, <1>2, <1>3, <1>4 DEF Inv, CleanInv, ImagesKept, Images, Stored
<1>7. LeaseInv'
  <2>1. ASSUME p \notin overrun, NEW u \in Worker PROVE ~ Holds(u, p)
    <3> SUFFICES ASSUME Holds(u, p) PROVE FALSE OBVIOUS
    <3>1. worker[u].left >= 1 /\ rows[p].locked = worker[u].left
      BY <1>1, <2>1 DEF Inv, LeaseInv, Settled
    <3>2. QED BY <1>1, <3>1
  <2>2. ASSUME NEW u \in Worker, NEW q \in Photo \ overrun', Holds(u, q)'
        PROVE  /\ worker'[u].left >= 1
               /\ worker'[u].pc # "discard" =>
                    \/ rows'[q].status = "gone"
                    \/ rows'[q].status = "processing" /\ rows'[q].locked = worker'[u].left
               /\ worker'[u].pc = "discard" => rows'[q].status \in Settled \cup {"gone"}
               /\ \A v \in Worker : Holds(v, q)' => v = u
    <3>1. CASE q = p
      <4>1. u = w BY <1>1, <1>3, <2>1, <2>2, <3>1 DEF Holds
      <4>2. \A v \in Worker : Holds(v, q)' => v = u
        BY <1>1, <1>3, <2>1, <3>1, <4>1 DEF Holds
      <4>3. QED BY <1>1, <1>2, <1>3, <1>4, <3>1, <4>1, <4>2, Constants
    <3>2. CASE q # p
      <4>1. \A v \in Worker : Holds(v, q)' => v # w /\ Holds(v, q)
        BY <1>2, <1>3, <3>2 DEF Holds
      <4>2. u # w /\ Holds(u, q) /\ worker'[u] = worker[u] BY <1>3, <2>2, <4>1
      <4>3. QED BY <1>1, <1>4, <3>2, <4>1, <4>2 DEF Inv, LeaseInv
    <3>3. QED BY <3>1, <3>2
  <2>3. QED BY <2>2 DEF LeaseInv
<1>8. SlotInv'
  <2>1. \A q \in Photo : rows'[q].status = rows[q].status /\ rows'[q].age = rows[q].age BY <1>4
  <2>2. QED BY <1>1, <2>1, SlotKept DEF Inv, Types, Counts, Expired
<1>9. QED BY <1>5, <1>6, <1>7, <1>8 DEF Inv

LEMMA BusyPhoto ==
  ASSUME Inv, NEW w \in Worker, worker[w].pc # "idle"
  PROVE  worker[w].photo \in Photo /\ worker[w].photo # None
BY Constants DEF Inv, Types, JobTypes, JobOK

(* Steps that leave rows and objects alone.                                 *)
LEMMA StepKeeps ==
  ASSUME Inv, NEW w \in Worker, worker[w].pc # "idle",
         UNCHANGED <<uploads, rows, objects, overrun>>,
         \/ End(w)
         \/ worker[w].pc \in {"download", "scan"} /\ Conclude(w, "failed")
         \/ worker[w].pc \in {"download", "scan"} /\ Conclude(w, "rejected")
         \/ worker[w].pc = "scan" /\ worker[w].data = "clean" /\ GoTo(w, "large")
         \/ /\ worker[w].pc = "download"
            /\ \E found : worker' = [worker EXCEPT ![w].pc = "scan", ![w].data = found]
  PROVE  Inv' /\ ImagesKept
<1>1. /\ JobTypes' /\ \A u \in Worker : u # w => worker'[u] = worker[u]
      /\ \/ worker'[w].pc = "idle"
         \/ /\ worker[w].pc \in {"download", "scan"}
            /\ \/ worker'[w].pc = "finish" /\ worker'[w].outcome # "ready"
               \/ worker'[w].pc = "large" /\ worker'[w].data = "clean"
               \/ worker'[w].pc = "scan"
            /\ worker'[w].photo = worker[w].photo /\ worker'[w].left = worker[w].left
  <2> USE DEF Inv, Types
  <2>1. CASE End(w) BY <2>1, EndFacts, NoJobFacts
  <2>2. CASE worker[w].pc \in {"download", "scan"} /\ Conclude(w, "failed")
    BY <2>2, ConcludeFacts DEF Settled
  <2>3. CASE worker[w].pc \in {"download", "scan"} /\ Conclude(w, "rejected")
    BY <2>3, ConcludeFacts DEF Settled
  <2>4. CASE worker[w].pc = "scan" /\ worker[w].data = "clean" /\ GoTo(w, "large")
    BY <2>4, GoToFacts
  <2>5. ASSUME worker[w].pc = "download", NEW found,
               worker' = [worker EXCEPT ![w].pc = "scan", ![w].data = found]
        PROVE  /\ JobTypes' /\ \A u \in Worker : u # w => worker'[u] = worker[u]
               /\ worker'[w].pc = "scan"
               /\ worker'[w].photo = worker[w].photo /\ worker'[w].left = worker[w].left
    <3>1. JobOK(worker[w]) /\ DOMAIN worker = Worker BY DEF JobTypes
    <3>2. DOMAIN worker' = Worker /\ \A u \in Worker : u # w => worker'[u] = worker[u]
      BY <2>5, <3>1
    <3>3. /\ worker'[w].pc = "scan" /\ JobFields \subseteq DOMAIN worker'[w]
          /\ worker'[w].photo = worker[w].photo /\ worker'[w].left = worker[w].left
      BY <2>5, <3>1 DEF JobOK, JobFields
    <3>4. JobOK(worker'[w]) BY <2>5, <3>1, <3>3 DEF JobOK
    <3>5. QED BY <3>2, <3>3, <3>4 DEF JobTypes
  <2>6. QED BY <2>1, <2>2, <2>3, <2>4, <2>5
<1>2. Types' BY <1>1 DEF Inv, Types, uploads, RowTypes, ObjectTypes, SlotTypes
<1>3. CleanInv' /\ ImagesKept BY <1>1 DEF Inv, CleanInv, ImagesKept, Images, Stored
<1>4. LeaseInv' BY <1>1, LeaseKept DEF Inv, Types
<1>5. SlotInv' BY SlotKept DEF Inv, Types, uploads, Counts, Expired
<1>6. QED BY <1>2, <1>3, <1>4, <1>5 DEF Inv

LEMMA PutKeeps ==
  ASSUME Inv, NEW w \in Worker, PutLarge(w) \/ PutThumb(w)
  PROVE  Inv' /\ ImagesKept
<1>1. PICK p \in Photo, k \in {"large", "thumb"} :
        /\ p = worker[w].photo /\ worker[w].pc = k /\ worker[w].data = "clean"
        /\ objects' = [objects EXCEPT ![p][k] = "clean"]
        /\ UNCHANGED <<uploads, rows, overrun>>
        /\ k = "large" => GoTo(w, "thumb")
        /\ k = "thumb" => Conclude(w, "ready")
  BY BusyPhoto DEF PutLarge, PutThumb, Put, Source, At, Inv, CleanInv
<1>2. /\ JobTypes' /\ \A u \in Worker : u # w => worker'[u] = worker[u]
      /\ worker'[w].photo = p /\ worker'[w].left = worker[w].left
      /\ \/ k = "large" /\ worker'[w].pc = "thumb" /\ worker'[w].data = "clean"
         \/ k = "thumb" /\ worker'[w].pc = "finish"
  BY <1>1, GoToFacts, ConcludeFacts DEF Inv, Types, Settled
<1>3. /\ objects' \in [Photo -> [Key -> Content \cup {None}]]
      /\ Stored(p, k)'
      /\ \A q \in Photo : \A j \in {"large", "thumb"} : objects'[q][j] \in {objects[q][j], "clean"}
  BY <1>1 DEF Inv, Types, ObjectTypes, Key, Content, Stored
<1>4. \A q \in Photo : \A j \in {"large", "thumb"} : Stored(q, j) => objects'[q][j] = "clean"
  BY <1>3 DEF Stored
<1>5. Types' BY <1>1, <1>2, <1>3 DEF Inv, Types, uploads, RowTypes, ObjectTypes, SlotTypes
<1>6. CleanInv'
  <2>1. \A q \in Photo : \A j \in {"large", "thumb"} : objects'[q][j] \in {None, "clean"}
    BY <1>3 DEF Inv, CleanInv
  <2>2. \A u \in Worker : worker'[u].pc \in {"large", "thumb"} => worker'[u].data = "clean"
    BY <1>2 DEF Inv, CleanInv
  <2>3. QED BY <2>1, <2>2 DEF CleanInv
<1>10. ASSUME NEW q \in Photo, Images(q) PROVE Images(q)'
  <2>1. rows'[q].status = "ready" => objects'[q]["large"] = "clean" /\ objects'[q]["thumb"] = "clean"
    BY <1>1, <1>4, <1>10 DEF Images
  <2>2. ASSUME NEW u \in Worker, worker'[u].photo = q
        PROVE  /\ worker'[u].pc = "thumb" => objects'[q]["large"] = "clean"
               /\ worker'[u].pc = "finish" /\ worker'[u].outcome = "ready" =>
                    objects'[q]["large"] = "clean" /\ objects'[q]["thumb"] = "clean"
    <3>1. CASE u = w
      <4>1. q = p /\ (k = "thumb" => objects'[p]["large"] = "clean")
        BY <1>1, <1>2, <1>4, <1>10, <2>2, <3>1 DEF Images
      <4>2. QED BY <1>2, <1>3, <3>1, <4>1 DEF Stored
    <3>2. CASE u # w
      <4>1. worker'[u] = worker[u] BY <1>2, <3>2
      <4>2. QED BY <1>4, <1>10, <2>2, <4>1 DEF Images
    <3>3. QED BY <3>1, <3>2
  <2>3. QED BY <2>1, <2>2 DEF Images, Stored
<1>7. LeaseInv' BY <1>1, <1>2, LeaseKept DEF Inv, Types
<1>8. SlotInv' BY <1>1, SlotKept DEF Inv, Types, uploads, Counts, Expired
<1>9. QED BY <1>5, <1>6, <1>7, <1>8, <1>10 DEF Inv, ImagesKept

LEMMA DiscardKeeps ==
  ASSUME Inv, NEW w \in Worker, DiscardOriginal(w)
  PROVE  Inv' /\ ImagesKept
<1>1. PICK p \in Photo : p = worker[w].photo
  BY BusyPhoto DEF DiscardOriginal, At
<1>2. /\ objects' \in [Photo -> [Key -> Content \cup {None}]]
      /\ \A q \in Photo : \A k \in {"large", "thumb"} : objects'[q][k] = objects[q][k]
  BY <1>1 DEF DiscardOriginal, Inv, Types, ObjectTypes, Key
<1>3. /\ UNCHANGED <<slot, rows, overrun>> /\ JobTypes' /\ worker'[w].pc = "idle"
      /\ \A u \in Worker : u # w => worker'[u] = worker[u]
  BY EndFacts, NoJobFacts DEF DiscardOriginal, uploads, Inv, Types
<1>4. Types' BY <1>2, <1>3 DEF Inv, Types, RowTypes, ObjectTypes, SlotTypes
<1>5. CleanInv' /\ ImagesKept
  <2>1. \A u \in Worker : worker[u].pc # "idle" => worker[u].photo \in Photo BY BusyPhoto
  <2>2. QED BY <1>2, <1>3, <2>1 DEF Inv, CleanInv, ImagesKept, Images, Stored
<1>6. LeaseInv' BY <1>3, LeaseKept DEF Inv, Types
<1>7. SlotInv' BY <1>3, SlotKept DEF Inv, Types, Counts, Expired
<1>8. QED BY <1>4, <1>5, <1>6, <1>7 DEF Inv

(* The row of the photo that is finished: settled, if it was there.         *)
LEMMA FinishRows ==
  ASSUME Inv, NEW w \in Worker, NEW p \in Photo, p = worker[w].photo, Finish(w)
  PROVE  /\ RowTypes' /\ \A q \in Photo : q # p => rows'[q] = rows[q]
         /\ Exists(p) => rows'[p].status = worker[w].outcome /\ rows'[p].age = rows[p].age
         /\ ~ Exists(p) => rows'[p] = rows[p]
<1>0. RowTypes BY DEF Inv, Types
<1>1. CASE ~ Exists(p) BY <1>0, <1>1 DEF Finish, RowTypes
<1>2. CASE Exists(p) /\ worker[w].outcome \in Status
  <2>1. rows' = [rows EXCEPT ![p].status = worker[w].outcome, ![p].locked = 0, ![p].idle = 0,
                             ![p].published = (@ \/ worker[w].outcome = "ready")]
    BY <1>2 DEF Finish
  <2>2. /\ DOMAIN rows' = Photo /\ \A q \in Photo : q # p => rows'[q] = rows[q]
        /\ RowFields \subseteq DOMAIN rows'[p]
        /\ rows'[p].status = worker[w].outcome /\ rows'[p].age = rows[p].age
    BY <1>0, <2>1 DEF RowTypes, RowOK, RowFields
  <2>3. RowOK(rows'[p]) BY <1>0, <1>2, <2>2 DEF RowTypes, RowOK
  <2>4. QED BY <1>0, <1>2, <2>2, <2>3 DEF RowTypes
<1>3. worker[w].outcome \in Status
  BY DEF Finish, At, Inv, Types, JobTypes, JobOK, Status
<1>4. QED BY <1>1, <1>2, <1>3

LEMMA FinishKeeps ==
  ASSUME Inv, NEW w \in Worker, Finish(w)
  PROVE  Inv' /\ ImagesKept
<1>1. PICK p \in Photo : p = worker[w].photo /\ worker[w].pc = "finish"
  BY BusyPhoto DEF Finish, At
<1>2. /\ RowTypes' /\ \A q \in Photo : q # p => rows'[q] = rows[q]
      /\ Exists(p) => rows'[p].status = worker[w].outcome /\ rows'[p].age = rows[p].age
      /\ ~ Exists(p) => rows'[p] = rows[p]
  BY <1>1, FinishRows
<1>3. /\ JobTypes' /\ worker'[w].pc = "discard" /\ worker'[w].photo = p /\ worker'[w].left = worker[w].left
      /\ \A u \in Worker : u # w => worker'[u] = worker[u]
      /\ worker[w].outcome \in Settled
  <2>1. GoTo(w, "discard") BY DEF Finish
  <2>2. worker[w].outcome \in Settled BY <1>1 DEF Inv, Types, JobTypes, JobOK
  <2>3. QED BY <1>1, <2>1, <2>2, GoToFacts DEF Inv, Types
<1>4. UNCHANGED <<slot, objects, overrun>> BY DEF Finish, uploads
<1>5. Types' BY <1>2, <1>3, <1>4 DEF Inv, Types, ObjectTypes, SlotTypes
<1>6. CleanInv' /\ ImagesKept
  <2>1. ASSUME NEW q \in Photo, Images(q), rows'[q].status = "ready"
        PROVE  Stored(q, "large") /\ Stored(q, "thumb")
    <3>1. CASE rows[q].status = "ready" BY <2>1, <3>1 DEF Images
    <3>2. CASE q = p /\ worker[w].outcome = "ready" BY <1>1, <2>1, <3>2 DEF Images
    <3>3. QED BY <1>2, <2>1, <3>1, <3>2
  <2>2. QED BY <1>3, <1>4, <2>1 DEF Inv, CleanInv, ImagesKept, Images, Stored
<1>7. LeaseInv'
  <2>1. ASSUME NEW u \in Worker, NEW q \in Photo \ overrun', Holds(u, q)'
        PROVE  /\ worker'[u].left >= 1
               /\ worker'[u].pc # "discard" =>
                    \/ rows'[q].status = "gone"
                    \/ rows'[q].status = "processing" /\ rows'[q].locked = worker'[u].left
               /\ worker'[u].pc = "discard" => rows'[q].status \in Settled \cup {"gone"}
               /\ \A v \in Worker : Holds(v, q)' => v = u
    <3>0. \A v \in Worker : Holds(v, q)' => Holds(v, q) BY <1>1, <1>3 DEF Holds
    <3>1. /\ q \in Photo \ overrun /\ Holds(u, q) /\ \A v \in Worker : Holds(v, q) => v = u
      BY <1>4, <2>1, <3>0 DEF Inv, LeaseInv
    <3>2. CASE u = w
      <4>1. q = p BY <1>3, <2>1, <3>2 DEF Holds
      <4>2. rows[p].status \in {"processing", "gone"} /\ worker[w].left >= 1
        BY <1>1, <3>1, <3>2, <4>1 DEF Inv, LeaseInv
      <4>3. rows'[p].status \in Settled \cup {"gone"}
        BY <1>2, <1>3, <4>2 DEF Exists
      <4>4. QED BY <1>3, <3>0, <3>1, <3>2, <4>1, <4>2, <4>3
    <3>3. CASE u # w
      <4>1. q # p BY <1>1, <3>1, <3>3 DEF Holds
      <4>2. QED BY <1>2, <1>3, <3>0, <3>1, <3>3, <4>1 DEF Inv, LeaseInv
    <3>4. QED BY <3>2, <3>3
  <2>2. QED BY <2>1 DEF LeaseInv
<1>8. SlotInv'
  <2>1. \A q \in Photo : rows[q].status = "absent" => rows'[q].status = "absent"
    BY <1>2 DEF Exists
  <2>2. ASSUME NEW q \in Photo \ overrun', Counts(q)' PROVE Counts(q)
    <3>1. CASE q = p /\ Exists(p)
      <4>1. Holds(w, p) /\ p \in Photo \ overrun BY <1>1, <1>4, <3>1 DEF Holds
      <4>2. rows[p].status = "processing"
        BY <1>1, <3>1, <4>1 DEF Inv, LeaseInv, Exists
      <4>3. QED BY <3>1, <4>2 DEF Counts
    <3>2. CASE rows'[q] = rows[q] BY <2>2, <3>2 DEF Counts, Expired
    <3>3. QED BY <1>2, <3>1, <3>2
  <2>3. QED BY <1>4, <2>1, <2>2, SlotKept DEF Inv, Types
<1>9. QED BY <1>5, <1>6, <1>7, <1>8 DEF Inv

LEMMA RetryRows ==
  ASSUME RowTypes, NEW w \in Worker, NEW p \in Photo, p = worker[w].photo, Retry(w)
  PROVE  /\ DOMAIN rows' = Photo /\ \A q \in Photo : q # p => rows'[q] = rows[q]
         /\ RowFields \subseteq DOMAIN rows'[p]
         /\ rows'[p].status = rows[p].status /\ rows'[p].age = rows[p].age
<1>1. PICK until : rows' = [rows EXCEPT ![p].locked = until] \/ rows' = rows
  BY DEF Retry
<1>2. QED BY <1>1 DEF RowTypes, RowOK, RowFields

LEMMA RetryKeeps ==
  ASSUME Inv, NEW w \in Worker, Retry(w)
  PROVE  Inv' /\ ImagesKept
<1>1. PICK p \in Photo : p = worker[w].photo /\ worker[w].pc # "idle"
  BY BusyPhoto DEF Retry, At
<1>2. /\ UNCHANGED <<slot, objects, overrun>> /\ JobTypes' /\ worker'[w].pc = "idle"
      /\ \A u \in Worker : u # w => worker'[u] = worker[u]
  BY EndFacts, NoJobFacts DEF Retry, uploads, Inv, Types
<1>3. /\ DOMAIN rows' = Photo /\ \A q \in Photo : q # p => rows'[q] = rows[q]
      /\ RowFields \subseteq DOMAIN rows'[p]
      /\ rows'[p].status = rows[p].status /\ rows'[p].age = rows[p].age
  BY <1>1, RetryRows DEF Inv, Types
<1>4. Types'
  <2>1. RowOK(rows'[p]) BY <1>3 DEF RowOK, Inv, Types, RowTypes
  <2>2. QED BY <1>2, <1>3, <2>1 DEF Inv, Types, RowTypes, ObjectTypes, SlotTypes
<1>5. CleanInv' /\ ImagesKept BY <1>2, <1>3 DEF Inv, CleanInv, ImagesKept, Images, Stored
<1>6. LeaseInv'
  <2>1. ASSUME NEW u \in Worker, NEW q \in Photo \ overrun', Holds(u, q)'
        PROVE  /\ worker'[u].left >= 1
               /\ worker'[u].pc # "discard" =>
                    \/ rows'[q].status = "gone"
                    \/ rows'[q].status = "processing" /\ rows'[q].locked = worker'[u].left
               /\ worker'[u].pc = "discard" => rows'[q].status \in Settled \cup {"gone"}
               /\ \A v \in Worker : Holds(v, q)' => v = u
    <3>1. u # w /\ Holds(u, q) /\ q \in Photo \ overrun /\ \A v \in Worker : Holds(v, q)' => Holds(v, q)
      BY <1>2, <2>1 DEF Holds
    <3>2. q # p
      BY <1>1, <3>1 DEF Inv, LeaseInv, Holds
    <3>3. QED BY <1>2, <1>3, <3>1, <3>2 DEF Inv, LeaseInv
  <2>2. QED BY <2>1 DEF LeaseInv
<1>7. SlotInv'
  <2>1. \A q \in Photo : rows'[q].status = rows[q].status /\ rows'[q].age = rows[q].age BY <1>3
  <2>2. QED BY <1>2, <2>1, SlotKept DEF Inv, Types, Counts, Expired
<1>8. QED BY <1>4, <1>5, <1>6, <1>7 DEF Inv

-----------------------------------------------------------------------------
(* Time: the leases that run out put their photo among the overrun.         *)

LEMMA TickRows ==
  ASSUME RowTypes, Tick, NEW p \in Photo
  PROVE  /\ RowOK(rows'[p]) /\ rows'[p].status = rows[p].status /\ rows'[p].age >= rows[p].age
         /\ rows[p].status # "absent" => rows'[p].locked = Down(rows[p].locked)
<1>1. rows'[p] = IF rows[p].status = "absent" THEN rows[p]
                 ELSE [rows[p] EXCEPT !.age = Up(@, AbandonAfter + 1), !.idle = Up(@, FailedFor + 1),
                                      !.locked = Down(@)]
  BY DEF Tick
<1>2. RowOK(rows[p]) BY DEF RowTypes
<1>3. CASE rows[p].status = "absent"
  <2>1. rows'[p] = rows[p] BY <1>1, <1>3
  <2>2. rows[p].age \in Int BY <1>2, Constants DEF RowOK
  <2>3. QED BY <1>2, <1>3, <2>1, <2>2
<1>4. CASE rows[p].status # "absent"
  <2>1. /\ RowFields \subseteq DOMAIN rows'[p] /\ rows'[p].status = rows[p].status
        /\ rows'[p].age = Up(rows[p].age, AbandonAfter + 1)
        /\ rows'[p].locked = Down(rows[p].locked)
    BY <1>1, <1>2, <1>4 DEF RowOK, RowFields
  <2>2. rows'[p].age \in 0 .. AbandonAfter + 1 /\ rows'[p].age >= rows[p].age
    BY <1>2, <2>1, Constants DEF RowOK, Up
  <2>3. QED BY <1>2, <2>1, <2>2 DEF RowOK
<1>5. QED BY <1>3, <1>4

LEMMA TickKeeps ==
  ASSUME Inv, Tick
  PROVE  Inv' /\ ImagesKept
<1>1. /\ DOMAIN rows' = Photo /\ DOMAIN worker' = Worker
      /\ \A w \in Worker : worker'[w] = [worker[w] EXCEPT !.left = Down(@)]
      /\ overrun' = overrun \cup {worker[w].photo : w \in {v \in Worker : Busy(v) /\ worker[v].left <= 1}}
      /\ UNCHANGED <<slot, objects>>
  BY DEF Tick, uploads
<1>2. \A p \in Photo : RowOK(rows[p]) BY DEF Inv, Types, RowTypes
<1>3. \A w \in Worker : JobOK(worker[w]) BY DEF Inv, Types, JobTypes
<1>4. \A p \in Photo :
        /\ RowOK(rows'[p]) /\ rows'[p].status = rows[p].status /\ rows'[p].age >= rows[p].age
        /\ rows[p].status # "absent" => rows'[p].locked = Down(rows[p].locked)
  BY TickRows DEF Inv, Types
<1>5. ASSUME NEW w \in Worker
      PROVE  /\ JobOK(worker'[w]) /\ worker'[w].left = Down(worker[w].left)
             /\ worker'[w].pc = worker[w].pc /\ worker'[w].photo = worker[w].photo
             /\ worker'[w].data = worker[w].data /\ worker'[w].outcome = worker[w].outcome
  <2>1. /\ JobFields \subseteq DOMAIN worker'[w] /\ worker'[w].left = Down(worker[w].left)
        /\ worker'[w].pc = worker[w].pc /\ worker'[w].photo = worker[w].photo
        /\ worker'[w].data = worker[w].data /\ worker'[w].outcome = worker[w].outcome
    BY <1>1, <1>3 DEF JobOK, JobFields
  <2>2. Down(worker[w].left) \in Nat BY <1>3 DEF JobOK, Down
  <2>3. QED BY <1>3, <2>1, <2>2 DEF JobOK
<1>6. Types' BY <1>1, <1>4, <1>5 DEF Inv, Types, RowTypes, JobTypes, ObjectTypes, SlotTypes
<1>7. CleanInv' /\ ImagesKept
  <2>1. \A p \in Photo : rows'[p].status = rows[p].status BY <1>4
  <2>2. \A w \in Worker : /\ worker'[w].pc = worker[w].pc /\ worker'[w].photo = worker[w].photo
                          /\ worker'[w].data = worker[w].data /\ worker'[w].outcome = worker[w].outcome
    BY <1>5
  <2>3. objects' = objects BY <1>1
  <2>4. QED BY <2>1, <2>2, <2>3 DEF Inv, CleanInv, ImagesKept, Images, Stored
<1>8. LeaseInv'
  <2>1. ASSUME NEW w \in Worker, NEW p \in Photo \ overrun', Holds(w, p)'
        PROVE  /\ worker'[w].left >= 1
               /\ worker'[w].pc # "discard" =>
                    \/ rows'[p].status = "gone"
                    \/ rows'[p].status = "processing" /\ rows'[p].locked = worker'[w].left
               /\ worker'[w].pc = "discard" => rows'[p].status \in Settled \cup {"gone"}
               /\ \A v \in Worker : Holds(v, p)' => v = w
    <3>1. p \in Photo \ overrun /\ Holds(w, p) /\ \A v \in Worker : Holds(v, p)' => Holds(v, p)
      BY <1>1, <1>5, <2>1 DEF Holds
    <3>2. worker[w].left >= 2 /\ worker[w].left \in Nat
      <4>1. worker[w].left \in Nat BY <1>3 DEF JobOK
      <4>2. ~ (worker[w].left <= 1) BY <1>1, <2>1, <3>1 DEF Holds, Busy, At
      <4>3. QED BY <4>1, <4>2
    <3>3. worker'[w].left >= 1 BY <1>5, <3>2 DEF Down
    <3>4. worker[w].pc # "discard" =>
            \/ rows'[p].status = "gone"
            \/ rows'[p].status = "processing" /\ rows'[p].locked = worker'[w].left
      <4>1. worker[w].pc # "discard" =>
              \/ rows[p].status = "gone"
              \/ rows[p].status = "processing" /\ rows[p].locked = worker[w].left
        BY <3>1 DEF Inv, LeaseInv
      <4>2. QED BY <1>4, <1>5, <4>1
    <3>5. worker[w].pc = "discard" => rows[p].status \in Settled \cup {"gone"} BY <3>1 DEF Inv, LeaseInv
    <3>6. \A v \in Worker : Holds(v, p) => v = w BY <3>1 DEF Inv, LeaseInv
    <3>7. QED BY <1>4, <1>5, <3>1, <3>3, <3>4, <3>5, <3>6
  <2>2. QED BY <2>1 DEF LeaseInv
<1>9. SlotInv'
  <2>1. \A p \in Photo : Counts(p)' => Counts(p)
    BY <1>2, <1>4, Constants DEF Counts, Expired, RowOK
  <2>2. QED BY <1>1, <1>4, <2>1, SlotKept DEF Inv, Types
<1>10. QED BY <1>6, <1>7, <1>8, <1>9 DEF Inv

-----------------------------------------------------------------------------
LEMMA NextInv == Inv /\ [PhotoNext]_vars => Inv' /\ ImagesKept
<1> SUFFICES ASSUME Inv, [PhotoNext]_vars PROVE Inv' /\ ImagesKept OBVIOUS
<1>1. CASE UNCHANGED vars
  <2>1. Inv'
    BY <1>1 DEF vars, uploads, Inv, Types, RowTypes, JobTypes, ObjectTypes, SlotTypes, CleanInv,
       LeaseInv, Holds, SlotInv, Slots, Counts, Expired, ReportLocked
  <2>2. ImagesKept BY <1>1 DEF vars, uploads, ImagesKept, Images, Stored
  <2>3. QED BY <2>1, <2>2
<1>2. CASE ClientStep
  BY <1>2, ReserveKeeps, InsertKeeps, UploadKeeps, CompleteKeeps DEF ClientStep
<1>3. ASSUME NEW w \in Worker, WorkerStep(w) \/ Retry(w) \/ Crash(w)
      PROVE  Inv' /\ ImagesKept
  <2>1. CASE \E p \in Photo : Claim(w, p) BY <2>1, ClaimKeeps
  <2>2. CASE Download(w)
    BY <2>2, StepKeeps DEF Download, At
  <2>3. CASE Scan(w)
    <3>1. worker[w].pc = "scan" /\ UNCHANGED <<uploads, rows, objects, overrun>>
      BY <2>3 DEF Scan, At
    <3>2. CASE worker[w].data = "clean" /\ GoTo(w, "large") BY <3>1, <3>2, StepKeeps
    <3>3. CASE Conclude(w, "rejected") BY <3>1, <3>3, StepKeeps
    <3>4. QED BY <2>3, <3>2, <3>3 DEF Scan
  <2>4. CASE PutLarge(w) \/ PutThumb(w) BY <2>4, PutKeeps
  <2>5. CASE Finish(w) BY <2>5, FinishKeeps
  <2>6. CASE DiscardOriginal(w) BY <2>6, DiscardKeeps
  <2>7. CASE Retry(w) BY <2>7, RetryKeeps
  <2>8. CASE Crash(w) BY <2>8, StepKeeps DEF Crash, At
  <2>9. QED BY <1>3, <2>1, <2>2, <2>3, <2>4, <2>5, <2>6, <2>7, <2>8 DEF WorkerStep
<1>4. CASE Tick BY <1>4, TickKeeps
<1>5. QED BY <1>1, <1>2, <1>3, <1>4 DEF PhotoNext

(* The inductive invariant of the photo pipeline: what each worker has      *)
(* scanned and stored, whose lease it is, and who reserves a slot           *)
(* (handlers/photos.go, workers/photos.go).                                 *)
THEOREM PhotoInvariant == Spec => [](Inv /\ \A p \in Photo : Images(p))
<1> DEFINE PInv == Inv /\ \A p \in Photo : Images(p)
<1>1. Init => PInv BY InitInv
<1>2. PInv /\ [PhotoNext]_vars => PInv' BY NextInv DEF ImagesKept
<1>3. QED BY <1>1, <1>2, PTL DEF Spec

(* Nothing that was not scanned is ever stored for the public, whenever it  *)
(* was uploaded and whoever worked on it (workers/photos.go process).       *)
THEOREM AlwaysPublishedClean == Spec => []PublishedClean
<1>1. Inv /\ (\A p \in Photo : Images(p)) => PublishedClean
  BY Constants DEF Inv, CleanInv, Images, Stored, PublishedClean
<1>2. QED BY <1>1, PhotoInvariant, PTL

LEMMA InvOneWorker == Inv => OneWorkerPerPhoto
<1> SUFFICES ASSUME Inv, NEW p \in Photo \ overrun
             PROVE  Cardinality({w \in Worker : worker[w].photo = p}) <= 1
  BY DEF OneWorkerPerPhoto
<1> DEFINE S == {w \in Worker : worker[w].photo = p}
<1>1. \A w \in S : Holds(w, p)
  BY Constants DEF Holds, Inv, Types, JobTypes, JobOK
<1>2. \A w, u \in S : w = u BY <1>1 DEF Inv, LeaseInv
<1>3. CASE S = {} BY <1>3, FS_EmptySet
<1>4. CASE S # {}
  <2>1. PICK w : S = {w} BY <1>2, <1>4
  <2>2. Cardinality({w}) = 1 BY FS_Singleton
  <2> HIDE DEF S
  <2>3. Cardinality(S) = 1 BY <2>1, <2>2
  <2>4. QED BY <2>3 DEF S
<1>5. QED BY <1>3, <1>4

LEMMA InvSlots == Inv => SlotsBounded
BY DEF Inv, SlotInv, SlotsBounded

(* A photo that no worker has outlived its lease at is in the hands of one  *)
(* worker, whatever the lease and the back-off (workers/photos.go claim).   *)
THEOREM AlwaysOneWorkerPerPhoto == Spec => []OneWorkerPerPhoto
<1>1. QED BY InvOneWorker, PhotoInvariant, PTL

(* No number of concurrent requests gets a report past its number of photos *)
(* (handlers/photos.go CreatePhotoUpload).                                  *)
THEOREM SlotsAlwaysBounded == Spec => []SlotsBounded
<1>1. QED BY InvSlots, PhotoInvariant, PTL

-----------------------------------------------------------------------------
(* The retention cleaner.  A photo that is doomed is never again one that   *)
(* is ready or in the hands of a worker within its lease; a photo is spared *)
(* if neither its report expired nor a worker outlived its lease at it.     *)
Doomed(p) == rows[p].status \in {"rejected", "failed", "gone"} \/ Abandoned(p)
Spared(p) == p \notin overrun /\ ReportOf[p] \notin condemned

SparedInv == \A p \in Photo : Spared(p) /\ rows[p].status # "gone" => Images(p)

(* With a report its duplicates expire, and a report that is gone is nobody's *)
(* duplicate.                                                               *)
ReportsInv ==
  /\ DOMAIN original = Report /\ condemned \subseteq Report /\ stored \subseteq Report
  /\ \A r \in Report : /\ original[r] \in {None, DuplicateOf[r]}
                       /\ original[r] # None => r \in stored
                       /\ original[r] \in condemned => r \in condemned
  /\ expired \subseteq condemned

ItemOK(i) == {"group", "photo", "keys"} \subseteq DOMAIN i /\ i.photo \in Photo

CleanerTypes ==
  /\ {"pc", "batch", "items", "blocked"} \subseteq DOMAIN cleaner
  /\ \A i \in cleaner.items : ItemOK(i)

(* Whatever happens between the cleaner's steps, what it has found is       *)
(* condemned or doomed.                                                     *)
Lost(p) == p \in overrun \/ Doomed(p)

FoundInv ==
  /\ cleaner.pc \in {"keys", "objects", "rows"} => cleaner.batch \subseteq condemned
  /\ cleaner.pc \in {"photoObjects", "photoRows"} =>
       \A p \in cleaner.batch : p \in Photo /\ Lost(p)
  /\ cleaner.pc = "objects" => \A i \in cleaner.items : ReportOf[i.photo] \in condemned
  /\ cleaner.pc = "photoObjects" => \A i \in cleaner.items : Lost(i.photo)

RetentionInv == Inv /\ SparedInv /\ ReportsInv /\ CleanerTypes /\ FoundInv

LEMMA ReportConstants ==
  /\ \A r \in Report : DuplicateOf[r] \in Report \cup {None}
  /\ \A r \in Report : DuplicateOf[r] # None => DuplicateOf[DuplicateOf[r]] = None
  /\ None \notin Report
  /\ SlotTTL < AbandonAfter
BY ReportAssumption, SlotAssumption

LEMMA NoRunFacts ==
  /\ {"pc", "batch", "items", "blocked"} \subseteq DOMAIN NoRun
  /\ NoRun.pc = "idle" /\ NoRun.batch = {} /\ NoRun.items = {}
BY DEF NoRun

(* What a step of the photo pipeline does to a row.                         *)
LEMMA RowStep ==
  ASSUME Inv, PhotoNext, NEW p \in Photo
  PROVE  \/ rows'[p].status = rows[p].status /\ rows'[p].age >= rows[p].age
         \/ rows[p].status = "absent" /\ rows'[p].status = "pending_upload"
         \/ rows[p].status = "pending_upload" /\ ~ Expired(p) /\ rows'[p].status = "processing"
         \/ /\ Exists(p) /\ rows'[p].status \in Settled
            /\ p \notin overrun => rows[p].status = "processing"
<1>0. RowTypes /\ rows[p].age \in Int
  BY Constants DEF Inv, Types, RowTypes, RowOK
<1>1. CASE UNCHANGED rows BY <1>0, <1>1
<1>2. ASSUME NEW c \in Client, InsertPhoto(c), rows' # rows
      PROVE  rows'[p] = rows[p] \/ (rows[p].status = "absent" /\ rows'[p].status = "pending_upload")
  <2>1. /\ slot[c] \in Photo /\ rows[slot[c]].status = "absent"
        /\ rows' = [rows EXCEPT ![slot[c]] = [NoRow EXCEPT !.status = "pending_upload"]]
    BY <1>2 DEF InsertPhoto, Inv, Types, SlotTypes, SlotInv
  <2>2. QED BY <1>0, <2>1, NoRowFacts DEF RowTypes
<1>3. ASSUME NEW q \in Photo, CompletePhotoUpload(q)
      PROVE  \/ rows'[p] = rows[p]
             \/ rows[p].status = "pending_upload" /\ ~ Expired(p) /\ rows'[p].status = "processing"
  BY <1>0, <1>3 DEF CompletePhotoUpload, Completable, RowTypes, RowOK, RowFields
<1>4. ASSUME NEW w \in Worker, NEW q \in Photo, Claim(w, q)
      PROVE  rows'[p].status = rows[p].status /\ rows'[p].age = rows[p].age
  BY <1>0, <1>4 DEF Claim, RowTypes, RowOK, RowFields
<1>5. ASSUME NEW w \in Worker, Finish(w)
      PROVE  \/ rows'[p] = rows[p]
             \/ /\ Exists(p) /\ rows'[p].status \in Settled
                /\ p \notin overrun => rows[p].status = "processing"
  <2>1. PICK q \in Photo : q = worker[w].photo /\ worker[w].pc = "finish"
    BY <1>5, BusyPhoto DEF Finish, At
  <2>2. /\ p # q => rows'[p] = rows[p]
        /\ Exists(q) => rows'[q].status = worker[w].outcome
        /\ ~ Exists(q) => rows'[q] = rows[q]
    BY <1>5, <2>1, FinishRows
  <2>3. worker[w].outcome \in Settled BY <2>1 DEF Inv, Types, JobTypes, JobOK
  <2>4. q \notin overrun /\ Exists(q) => rows[q].status = "processing"
    BY <2>1 DEF Inv, LeaseInv, Holds, Exists
  <2>5. QED BY <2>2, <2>3, <2>4
<1>6. ASSUME NEW w \in Worker, Retry(w)
      PROVE  rows'[p].status = rows[p].status /\ rows'[p].age = rows[p].age
  <2>1. PICK q \in Photo : q = worker[w].photo BY <1>6, BusyPhoto DEF Retry, At
  <2>2. QED BY <1>0, <1>6, <2>1, RetryRows
<1>7. CASE Tick BY <1>0, <1>7, TickRows
<1>8. CASE ClientStep
  BY <1>0, <1>1, <1>2, <1>3, <1>8 DEF ClientStep, ReserveSlot, Upload
<1>9. ASSUME NEW w \in Worker, WorkerStep(w) \/ Retry(w) \/ Crash(w)
      PROVE  \/ rows'[p].status = rows[p].status /\ rows'[p].age >= rows[p].age
             \/ /\ Exists(p) /\ rows'[p].status \in Settled
                /\ p \notin overrun => rows[p].status = "processing"
  <2>1. CASE \E q \in Photo : Claim(w, q) BY <1>0, <1>4, <2>1
  <2>2. CASE Download(w) \/ Scan(w) \/ PutLarge(w) \/ PutThumb(w) \/ DiscardOriginal(w) \/ Crash(w)
    <3>1. UNCHANGED rows
      BY <2>2 DEF Download, Scan, PutLarge, PutThumb, DiscardOriginal, Crash
    <3>2. QED BY <1>0, <3>1
  <2>3. CASE Finish(w) BY <1>0, <1>5, <2>3
  <2>4. CASE Retry(w) BY <1>0, <1>6, <2>4
  <2>5. QED BY <1>9, <2>1, <2>2, <2>3, <2>4 DEF WorkerStep
<1>10. QED BY <1>7, <1>8, <1>9 DEF PhotoNext

LEMMA DoomedStays ==
  ASSUME Inv, PhotoNext, NEW p \in Photo
  PROVE  /\ rows[p].status = "gone" => rows'[p].status = "gone"
         /\ Lost(p) => Lost(p)'
<1>1. overrun \subseteq overrun'
  BY DEF PhotoNext, ClientStep, ReserveSlot, InsertPhoto, Upload, CompletePhotoUpload, WorkerStep,
     Claim, Download, Scan, PutLarge, PutThumb, Finish, DiscardOriginal, Retry, Crash, Tick
<1>2. rows[p].age \in Nat /\ rows[p].age <= AbandonAfter + 1
      /\ rows'[p].age \in Nat
  <2>1. RowOK(rows[p]) /\ RowOK(rows[p])'
    BY NextInv DEF Inv, Types, RowTypes
  <2>2. QED BY <2>1, Constants DEF RowOK
<1>3. ASSUME p \notin overrun, Doomed(p) PROVE Doomed(p)'
  <2>1. /\ rows[p].status \in {"pending_upload", "rejected", "failed", "gone"}
        /\ rows[p].status = "pending_upload" => rows[p].age > AbandonAfter
    BY <1>3 DEF Doomed, Abandoned
  <2>2. ~ (rows[p].status = "pending_upload" /\ ~ Expired(p))
    BY <1>2, <2>1, ReportConstants, Constants DEF Expired
  <2>3. rows'[p].status = rows[p].status /\ rows'[p].age >= rows[p].age
    BY <1>3, <2>1, <2>2, RowStep
  <2>4. QED BY <1>2, <2>1, <2>3, Constants DEF Doomed, Abandoned
<1>4. rows[p].status = "gone" => rows'[p].status = "gone"
  BY RowStep DEF Exists
<1>5. QED BY <1>1, <1>3, <1>4 DEF Lost

LEMMA PhotoStepKeeps ==
  ASSUME RetentionInv, PhotoNext, UNCHANGED <<reports, cleaner>>
  PROVE  RetentionInv'
<1>1. Inv' /\ ImagesKept BY NextInv DEF RetentionInv
<1>2. stored' = stored /\ overrun \subseteq overrun'
  BY DEF PhotoNext, ClientStep, ReserveSlot, InsertPhoto, Upload, CompletePhotoUpload, WorkerStep,
     Claim, Download, Scan, PutLarge, PutThumb, Finish, DiscardOriginal, Retry, Crash, Tick, uploads
<1>3. \A p \in Photo : /\ rows[p].status = "gone" => rows'[p].status = "gone"
                       /\ Lost(p) => Lost(p)'
  BY DoomedStays DEF RetentionInv
<1>4. UNCHANGED <<original, expired, condemned, cleaner>> BY DEF reports
<1>5. SparedInv'
  BY <1>1, <1>2, <1>3, <1>4 DEF RetentionInv, SparedInv, Spared, ImagesKept
<1>6. ReportsInv' BY <1>2, <1>4 DEF RetentionInv, ReportsInv
<1>7. CleanerTypes' BY <1>4 DEF RetentionInv, CleanerTypes
<1>8. FoundInv' BY <1>3, <1>4 DEF RetentionInv, FoundInv, CleanerTypes, ItemOK
<1>9. QED BY <1>1, <1>5, <1>6, <1>7, <1>8 DEF RetentionInv

(* Steps that change nothing of the photos.                                 *)
LEMMA PhotosSame ==
  ASSUME RetentionInv, UNCHANGED vars, condemned \subseteq condemned'
  PROVE  /\ Inv' /\ SparedInv' /\ UNCHANGED <<stored, rows, objects, overrun>>
         /\ \A p \in Photo : Lost(p) => Lost(p)'
<1>1. Inv' /\ ImagesKept BY NextInv DEF RetentionInv
<1>2. UNCHANGED <<stored, rows, objects, overrun>> BY DEF vars, uploads
<1>3. SparedInv' BY <1>1, <1>2 DEF RetentionInv, SparedInv, Spared, ImagesKept
<1>4. QED BY <1>1, <1>2, <1>3 DEF Lost, Doomed, Abandoned

LEMMA ExpireKeeps ==
  ASSUME RetentionInv, NEW r \in Report, Expire(r)
  PROVE  RetentionInv'
<1>1. /\ UNCHANGED <<vars, original, cleaner>>
      /\ expired' = expired \cup {r}
      /\ condemned' = condemned \cup {r} \cup Duplicates({r})
  BY DEF Expire
<1>2. /\ Inv' /\ SparedInv' /\ UNCHANGED <<stored, rows, objects, overrun>>
      /\ \A p \in Photo : Lost(p) => Lost(p)'
  BY <1>1, PhotosSame
<1>3. ReportsInv'
  <2>1. \A d \in Report : original[d] # None => original[d] = DuplicateOf[d]
    BY DEF RetentionInv, ReportsInv
  <2>2. Duplicates({r}) = {d \in stored : original[d] = r} BY DEF Duplicates
  <2>3. \A d \in Report : original[d] = r => d \in Duplicates({r})
    BY <2>2, ReportConstants DEF RetentionInv, ReportsInv
  <2>4. condemned' \subseteq Report BY <1>1, <2>2 DEF RetentionInv, ReportsInv
  <2>5. ASSUME NEW d \in Report, original[d] \in condemned' PROVE d \in condemned'
    <3>1. CASE original[d] \in condemned BY <1>1, <3>1 DEF RetentionInv, ReportsInv
    <3>2. CASE original[d] = r BY <1>1, <2>3, <3>2
    <3>3. CASE original[d] \in Duplicates({r})
      <4>1. original[original[d]] = r /\ original[d] \in Report BY <1>1, <2>2, <2>4, <3>3
      <4>2. original[d] = DuplicateOf[d] /\ DuplicateOf[original[d]] = r
        BY <2>1, <4>1, ReportConstants
      <4>3. QED BY <4>1, <4>2, ReportConstants
    <3>4. QED BY <1>1, <2>5, <3>1, <3>2, <3>3
  <2>6. QED BY <1>1, <1>2, <2>4, <2>5 DEF RetentionInv, ReportsInv
<1>4. CleanerTypes' BY <1>1 DEF RetentionInv, CleanerTypes
<1>5. FoundInv' BY <1>1, <1>2 DEF RetentionInv, FoundInv, CleanerTypes, ItemOK
<1>6. QED BY <1>2, <1>3, <1>4, <1>5 DEF RetentionInv

LEMMA DecideKeeps ==
  ASSUME RetentionInv, NEW r \in Report, NEW unmark \in BOOLEAN, Decide(r, unmark)
  PROVE  RetentionInv'
<1>1. /\ UNCHANGED <<vars, condemned, cleaner>>
      /\ expired' \subseteq expired
      /\ original' = IF unmark THEN [original EXCEPT ![r] = None] ELSE original
  BY DEF Decide
<1>2. /\ Inv' /\ SparedInv' /\ UNCHANGED <<stored, rows, objects, overrun>>
      /\ \A p \in Photo : Lost(p) => Lost(p)'
  BY <1>1, PhotosSame
<1>3. ReportsInv'
  <2>1. DOMAIN original' = Report /\ \A d \in Report : original'[d] \in {None, original[d]}
    BY <1>1 DEF RetentionInv, ReportsInv
  <2>2. QED BY <1>1, <1>2, <2>1, ReportConstants DEF RetentionInv, ReportsInv
<1>4. CleanerTypes' BY <1>1 DEF RetentionInv, CleanerTypes
<1>5. FoundInv' BY <1>1, <1>2 DEF RetentionInv, FoundInv, CleanerTypes, ItemOK
<1>6. QED BY <1>2, <1>3, <1>4, <1>5 DEF RetentionInv

(* What the cleaner selects.                                                *)
LEMMA SelectKeeps ==
  ASSUME RetentionInv, UNCHANGED <<vars, reports>>, CleanerTypes', FoundInv'
  PROVE  RetentionInv'
<1>1. UNCHANGED <<original, expired, condemned>> BY DEF reports
<1>2. Inv' /\ SparedInv' /\ UNCHANGED <<stored, rows, objects, overrun>> BY <1>1, PhotosSame
<1>3. ReportsInv' BY <1>1, <1>2 DEF RetentionInv, ReportsInv
<1>4. QED BY <1>2, <1>3 DEF RetentionInv

LEMMA AbortKeeps ==
  ASSUME RetentionInv, Abort
  PROVE  RetentionInv'
<1>1. cleaner' = NoRun /\ UNCHANGED <<vars, reports>> BY DEF Abort
<1>2. CleanerTypes' /\ FoundInv' BY <1>1, NoRunFacts DEF CleanerTypes, FoundInv
<1>3. QED BY <1>1, <1>2, SelectKeeps

LEMMA StartRunKeeps ==
  ASSUME RetentionInv, StartRun
  PROVE  RetentionInv'
<1>1. cleaner' = [NoRun EXCEPT !.pc = "reports"] /\ UNCHANGED <<vars, reports>> BY DEF StartRun
<1>2. /\ {"pc", "batch", "items", "blocked"} \subseteq DOMAIN cleaner'
      /\ cleaner'.pc = "reports" /\ cleaner'.items = {}
  BY <1>1 DEF NoRun
<1>3. CleanerTypes' /\ FoundInv' BY <1>2 DEF CleanerTypes, FoundInv
<1>4. QED BY <1>1, <1>3, SelectKeeps

LEMMA ExpiredReportsKeeps ==
  ASSUME RetentionInv, ExpiredReports
  PROVE  RetentionInv'
<1>1. UNCHANGED <<vars, reports>> /\ UNCHANGED condemned BY DEF ExpiredReports, reports
<1>2. Oldest(expired) \subseteq condemned BY DEF Oldest, RetentionInv, ReportsInv
<1>3. /\ {"pc", "batch", "items", "blocked"} \subseteq DOMAIN cleaner'
      /\ cleaner'.items = {}
      /\ \/ cleaner'.pc = "photos"
         \/ cleaner'.pc = "keys" /\ cleaner'.batch = Oldest(expired)
  <2>1. CASE cleaner' = [NoRun EXCEPT !.pc = "photos"] BY <2>1 DEF NoRun
  <2>2. CASE cleaner' = [NoRun EXCEPT !.pc = "keys", !.batch = Oldest(expired)] BY <2>2 DEF NoRun
  <2>3. QED BY <2>1, <2>2 DEF ExpiredReports
<1>4. CleanerTypes' /\ FoundInv' BY <1>1, <1>2, <1>3 DEF CleanerTypes, FoundInv
<1>5. QED BY <1>1, <1>4, SelectKeeps

LEMMA AnItemFacts ==
  \A g, p : p \in Photo => ItemOK(AnItem(g, p)) /\ AnItem(g, p).photo = p
BY DEF AnItem, ItemOK

LEMMA ReadKeysKeeps ==
  ASSUME RetentionInv, ReadKeys
  PROVE  RetentionInv'
<1> DEFINE found == {AnItem(Group(ReportOf[p]), p) :
                        p \in {q \in Photo : /\ Exists(q)
                                             /\ Group(ReportOf[q]) \in cleaner.batch}}
<1>1. /\ UNCHANGED <<vars, reports>> /\ UNCHANGED condemned
      /\ cleaner.pc = "keys"
      /\ cleaner' = [cleaner EXCEPT !.pc = "objects", !.items = found]
  BY DEF ReadKeys, reports
<1>2. cleaner.batch \subseteq condemned BY <1>1 DEF RetentionInv, FoundInv
<1>3. ASSUME NEW p \in Photo, Group(ReportOf[p]) \in cleaner.batch PROVE ReportOf[p] \in condemned
  BY <1>2, <1>3, Constants DEF Group, RetentionInv, ReportsInv
<1>4. \A i \in found : ItemOK(i) /\ ReportOf[i.photo] \in condemned
  BY <1>3, AnItemFacts
<1> HIDE DEF found
<1>5. /\ {"pc", "batch", "items", "blocked"} \subseteq DOMAIN cleaner'
      /\ cleaner'.items = found /\ cleaner'.pc = "objects" /\ cleaner'.batch = cleaner.batch
  BY <1>1 DEF RetentionInv, CleanerTypes
<1>6. CleanerTypes' /\ FoundInv'
  BY <1>1, <1>2, <1>4, <1>5 DEF CleanerTypes, FoundInv, ItemOK
<1>7. QED BY <1>1, <1>6, SelectKeeps

LEMMA AllTriedKeeps ==
  ASSUME RetentionInv, AllTried
  PROVE  RetentionInv'
<1>1. UNCHANGED <<vars, reports>> /\ UNCHANGED condemned BY DEF AllTried, reports
<1>2. /\ {"pc", "batch", "items", "blocked"} \subseteq DOMAIN cleaner'
      /\ cleaner'.items = cleaner.items /\ cleaner'.batch = cleaner.batch
      /\ \/ cleaner.pc = "objects" /\ cleaner'.pc = "rows"
         \/ cleaner.pc = "photoObjects" /\ cleaner'.pc = "photoRows"
  BY DEF AllTried, RetentionInv, CleanerTypes
<1>3. \A p \in Photo : Lost(p) => Lost(p)' BY <1>1, PhotosSame
<1>4. CleanerTypes' BY <1>2 DEF RetentionInv, CleanerTypes, ItemOK
<1>5. FoundInv' BY <1>1, <1>2, <1>3 DEF RetentionInv, FoundInv
<1>6. QED BY <1>1, <1>4, <1>5, SelectKeeps

LEMMA ExpiredPhotosKeeps ==
  ASSUME RetentionInv, ExpiredPhotos
  PROVE  RetentionInv'
<1> DEFINE found == {p \in Photo : Abandoned(p) \/ Failed(p)}
           items == {AnItem(p, p) : p \in found}
<1>1. /\ UNCHANGED <<vars, reports>> /\ UNCHANGED condemned
      /\ cleaner' = [NoRun EXCEPT !.pc = "photoObjects", !.batch = found, !.items = items]
  BY DEF ExpiredPhotos, reports
<1>2. \A p \in found : p \in Photo /\ Lost(p)'
  <2>1. \A p \in found : p \in Photo /\ Lost(p) BY DEF Failed, Lost, Doomed
  <2>2. QED BY <1>1, <2>1, PhotosSame
<1>3. \A i \in items : ItemOK(i) /\ i.photo \in found
  BY AnItemFacts
<1> HIDE DEF found, items
<1>4. /\ {"pc", "batch", "items", "blocked"} \subseteq DOMAIN cleaner'
      /\ cleaner'.items = items /\ cleaner'.pc = "photoObjects" /\ cleaner'.batch = found
  BY <1>1 DEF NoRun
<1>5. CleanerTypes' /\ FoundInv'
  BY <1>2, <1>3, <1>4 DEF CleanerTypes, FoundInv, ItemOK
<1>6. QED BY <1>1, <1>5, SelectKeeps

(* What the object store keeps when objects are deleted.                    *)
LEMMA EraseKeeps ==
  ASSUME Inv, NEW S, objects' = Erased(S), UNCHANGED <<uploads, rows, worker, overrun>>
  PROVE  /\ Inv'
         /\ \A p \in Photo : (\A i \in S : i.photo # p) => (Images(p) => Images(p)')
<1>1. ObjectTypes' /\ \A p \in Photo : \A k \in Key : objects'[p][k] \in {objects[p][k], None}
  BY DEF Erased, Inv, Types, ObjectTypes
<1>2. \A p \in Photo : (\A i \in S : i.photo # p) =>
        \A k \in {"large", "thumb"} : objects'[p][k] = objects[p][k]
  BY DEF Erased, Key
<1>3. Types' BY <1>1 DEF Inv, Types, uploads, RowTypes, JobTypes, SlotTypes
<1>4. CleanInv' BY <1>1 DEF Inv, CleanInv, Key
<1>5. LeaseInv' BY DEF Inv, LeaseInv, Holds
<1>6. SlotInv' BY SlotKept DEF Inv, Types, uploads, Counts, Expired
<1>7. \A p \in Photo : (\A i \in S : i.photo # p) => (Images(p) => Images(p)')
  BY <1>2 DEF Images, Stored
<1>8. QED BY <1>3, <1>4, <1>5, <1>6, <1>7 DEF Inv

(* Deleting the objects of a group, all or some of them.                    *)
LEMMA DeletionKeeps ==
  ASSUME RetentionInv, cleaner.pc \in {"objects", "photoObjects"},
         NEW S, \A i \in S : \E j \in cleaner.items : i.photo = j.photo,
         objects' = Erased(S), UNCHANGED <<uploads, rows, worker, overrun, reports>>,
         DOMAIN cleaner' = DOMAIN cleaner,
         cleaner'.pc = cleaner.pc, cleaner'.batch = cleaner.batch,
         cleaner'.items \subseteq cleaner.items
  PROVE  RetentionInv'
<1>1. UNCHANGED <<original, expired, condemned, stored>> BY DEF reports, uploads
<1>2. /\ Inv'
      /\ \A p \in Photo : (\A i \in S : i.photo # p) => (Images(p) => Images(p)')
  BY EraseKeeps DEF RetentionInv
<1>3. \A p \in Photo : Lost(p) => Lost(p)' BY DEF Lost, Doomed, Abandoned
<1>4. ASSUME NEW p \in Photo, Spared(p)', rows'[p].status # "gone" PROVE Images(p)'
  <2>1. Spared(p) /\ rows[p].status # "gone" /\ Images(p)
    BY <1>1, <1>4 DEF Spared, RetentionInv, SparedInv
  <2>2. CASE \A i \in S : i.photo # p BY <1>2, <2>1, <2>2
  <2>3. CASE \E i \in S : i.photo = p
    <3>1. PICK j \in cleaner.items : j.photo = p BY <2>3
    <3>2. cleaner.pc = "photoObjects" /\ Lost(p)
      BY <2>1, <3>1 DEF RetentionInv, FoundInv, Spared
    <3>3. Doomed(p) BY <2>1, <3>2 DEF Lost, Spared
    <3>4. p \in Photo \ overrun' /\ Doomed(p)' /\ rows'[p].status # "gone"
      BY <1>4, <2>1, <3>3 DEF Spared, Doomed, Abandoned
    <3>5. \A w \in Worker : worker'[w].photo = p => worker'[w].pc \notin {"thumb", "finish"}
      BY <1>2, <3>4 DEF Inv, LeaseInv, Holds, Doomed, Abandoned
    <3>6. rows'[p].status # "ready" BY <3>4 DEF Doomed, Abandoned
    <3>7. QED BY <3>5, <3>6 DEF Images
  <2>4. QED BY <2>2, <2>3
<1>5. SparedInv' BY <1>4 DEF SparedInv
<1>6. ReportsInv' BY <1>1 DEF RetentionInv, ReportsInv
<1>7. CleanerTypes' BY DEF RetentionInv, CleanerTypes, ItemOK
<1>8. FoundInv' BY <1>1, <1>3 DEF RetentionInv, FoundInv, CleanerTypes, ItemOK
<1>9. QED BY <1>2, <1>5, <1>6, <1>7, <1>8 DEF RetentionInv

LEMMA DeleteObjectsKeeps ==
  ASSUME RetentionInv, NEW g \in Groups, DeleteObjects(g)
  PROVE  RetentionInv'
<1>1. /\ cleaner.pc \in {"objects", "photoObjects"}
      /\ objects' = Erased(Members(g))
      /\ UNCHANGED <<uploads, rows, worker, overrun, reports>>
  BY DEF DeleteObjects
<1>2. PICK S : S = Members(g) OBVIOUS
<1>3. \A i \in S : \E j \in cleaner.items : i.photo = j.photo BY <1>2 DEF Members
<1>4. /\ DOMAIN cleaner' = DOMAIN cleaner
      /\ cleaner'.pc = cleaner.pc /\ cleaner'.batch = cleaner.batch
      /\ cleaner'.items \subseteq cleaner.items
  BY DEF DeleteObjects, RetentionInv, CleanerTypes
<1>5. objects' = Erased(S) BY <1>1, <1>2
<1>6. QED BY <1>1, <1>3, <1>4, <1>5, DeletionKeeps

LEMMA DeletionFailsKeeps ==
  ASSUME RetentionInv, NEW g \in Groups, DeletionFails(g)
  PROVE  RetentionInv'
<1>1. /\ cleaner.pc \in {"objects", "photoObjects"}
      /\ UNCHANGED <<uploads, rows, worker, overrun, reports>>
  BY DEF DeletionFails
<1>2. PICK done \in SUBSET Members(g), i \in Members(g), keys \in Prefix :
        objects' = Erased(done \cup {[i EXCEPT !.keys = i.keys \cap keys]})
  BY DEF DeletionFails
<1> DEFINE part == [i EXCEPT !.keys = i.keys \cap keys]
<1>3. i \in cleaner.items /\ done \subseteq cleaner.items /\ ItemOK(i)
  BY <1>2 DEF Members, RetentionInv, CleanerTypes
<1>4. part.photo = i.photo BY <1>3 DEF ItemOK
<1>5. PICK S : S = done \cup {part} OBVIOUS
<1>6. objects' = Erased(S) BY <1>2, <1>5
<1> HIDE DEF part
<1>7. \A m \in S : \E j \in cleaner.items : m.photo = j.photo BY <1>3, <1>4, <1>5
<1>8. /\ DOMAIN cleaner' = DOMAIN cleaner
      /\ cleaner'.pc = cleaner.pc /\ cleaner'.batch = cleaner.batch
      /\ cleaner'.items \subseteq cleaner.items
  BY DEF DeletionFails, RetentionInv, CleanerTypes
<1>9. QED BY <1>1, <1>6, <1>7, <1>8, DeletionKeeps

(* Deleting rows.                                                           *)
LEMMA RowsDeleted ==
  ASSUME Inv, NEW S, DOMAIN rows' = Photo,
         \A p \in Photo : rows'[p] = IF p \in S /\ Exists(p)
                                     THEN [NoRow EXCEPT !.status = "gone", !.age = rows[p].age]
                                     ELSE rows[p],
         UNCHANGED <<slot, objects, worker, overrun>>
  PROVE  /\ Inv' /\ ImagesKept
         /\ \A p \in Photo : /\ rows'[p] = rows[p] \/ (p \in S /\ rows'[p].status = "gone")
                             /\ rows[p].status = "gone" => rows'[p].status = "gone"
                             /\ Lost(p) => Lost(p)'
<1>1. \A p \in Photo : RowOK(rows[p]) BY DEF Inv, Types, RowTypes
<1>2. \A p \in Photo : LET gone == [NoRow EXCEPT !.status = "gone", !.age = rows[p].age]
                       IN  RowFields \subseteq DOMAIN gone /\ gone.status = "gone" /\ gone.age = rows[p].age
  BY DEF NoRow, RowFields
<1>3. \A p \in Photo : /\ rows'[p] = rows[p] \/ (p \in S /\ Exists(p) /\ rows'[p].status = "gone")
                       /\ RowOK(rows'[p])
  BY <1>1, <1>2 DEF RowOK, Status
<1>4. Types' BY <1>3 DEF Inv, Types, RowTypes, JobTypes, ObjectTypes, SlotTypes
<1>5. CleanInv' BY DEF Inv, CleanInv
<1>6. ImagesKept BY <1>3 DEF ImagesKept, Images, Stored
<1>7. LeaseInv'
  <2>1. ASSUME NEW w \in Worker, NEW p \in Photo \ overrun', Holds(w, p)'
        PROVE  /\ worker'[w].left >= 1
               /\ worker'[w].pc # "discard" =>
                    \/ rows'[p].status = "gone"
                    \/ rows'[p].status = "processing" /\ rows'[p].locked = worker'[w].left
               /\ worker'[w].pc = "discard" => rows'[p].status \in Settled \cup {"gone"}
               /\ \A v \in Worker : Holds(v, p)' => v = w
    <3>1. Holds(w, p) /\ p \in Photo \ overrun /\ \A v \in Worker : Holds(v, p)' => Holds(v, p)
      BY <2>1 DEF Holds
    <3>2. rows'[p] = rows[p] \/ rows'[p].status = "gone" BY <1>3
    <3>3. QED BY <3>1, <3>2 DEF Inv, LeaseInv
  <2>2. QED BY <2>1 DEF LeaseInv
<1>8. SlotInv'
  <2>1. \A p \in Photo : /\ rows[p].status = "absent" => rows'[p].status = "absent"
                         /\ Counts(p)' => Counts(p)
    BY <1>3 DEF Counts, Expired, Exists
  <2>2. QED BY <2>1, SlotKept DEF Inv, Types
<1>9. \A p \in Photo : rows[p].status = "gone" => rows'[p].status = "gone"
  BY <1>3
<1>10. \A p \in Photo : Lost(p) => Lost(p)' BY <1>3 DEF Lost, Doomed, Abandoned
<1>11. QED BY <1>3, <1>4, <1>5, <1>6, <1>7, <1>8, <1>9, <1>10 DEF Inv

LEMMA DeleteReportsKeeps ==
  ASSUME RetentionInv, DeleteReports
  PROVE  RetentionInv'
<1>1. PICK doomed : doomed = (Removable \cup Duplicates(Removable)) \cap stored OBVIOUS
<1>2. /\ cleaner.pc = "rows"
      /\ stored' = stored \ doomed
      /\ rows' = [p \in Photo |-> IF ReportOf[p] \in doomed /\ Exists(p)
                                  THEN [NoRow EXCEPT !.status = "gone", !.age = rows[p].age]
                                  ELSE rows[p]]
      /\ expired' = expired \ doomed
      /\ original' = [r \in Report |-> IF r \in doomed THEN None ELSE original[r]]
      /\ UNCHANGED <<slot, objects, worker, overrun, condemned>>
  BY <1>1 DEF DeleteReports
<1>3. PICK S : S = {p \in Photo : ReportOf[p] \in doomed} OBVIOUS
<1>4. /\ Inv' /\ ImagesKept
      /\ \A p \in Photo : /\ rows'[p] = rows[p] \/ (p \in S /\ rows'[p].status = "gone")
                          /\ rows[p].status = "gone" => rows'[p].status = "gone"
                          /\ Lost(p) => Lost(p)'
  <2>1. Inv BY DEF RetentionInv
  <2>2. DOMAIN rows' = Photo BY <1>2
  <2>3. \A p \in Photo : rows'[p] = IF p \in S /\ Exists(p)
                                    THEN [NoRow EXCEPT !.status = "gone", !.age = rows[p].age]
                                    ELSE rows[p]
    BY <1>2, <1>3
  <2>4. UNCHANGED <<slot, objects, worker, overrun>> BY <1>2
  <2>5. QED BY <2>1, <2>2, <2>3, <2>4, RowsDeleted
<1>5. SparedInv' BY <1>2, <1>4 DEF RetentionInv, SparedInv, Spared, ImagesKept
<1>6. ReportsInv' BY <1>2, ReportConstants DEF RetentionInv, ReportsInv
<1>7. /\ {"pc", "batch", "items", "blocked"} \subseteq DOMAIN cleaner'
      /\ cleaner'.pc \in {"photos", "reports"} /\ cleaner'.items = {}
  BY DEF DeleteReports, NoRun
<1>8. CleanerTypes' /\ FoundInv' BY <1>7 DEF CleanerTypes, FoundInv
<1>9. QED BY <1>4, <1>5, <1>6, <1>8 DEF RetentionInv

LEMMA DeletePhotosKeeps ==
  ASSUME RetentionInv, DeletePhotos
  PROVE  RetentionInv'
<1>1. /\ rows' = [p \in Photo |-> IF p \in Removable /\ Exists(p)
                                  THEN [NoRow EXCEPT !.status = "gone", !.age = rows[p].age]
                                  ELSE rows[p]]
      /\ cleaner' = NoRun
      /\ UNCHANGED <<stored, slot, objects, worker, overrun, original, expired, condemned>>
  BY DEF DeletePhotos, uploads, reports
<1>2. PICK S : S = Removable OBVIOUS
<1>3. /\ Inv' /\ ImagesKept
      /\ \A p \in Photo : rows[p].status = "gone" => rows'[p].status = "gone"
  BY <1>1, <1>2, RowsDeleted DEF RetentionInv
<1>4. SparedInv' BY <1>1, <1>3 DEF RetentionInv, SparedInv, Spared, ImagesKept
<1>5. ReportsInv' BY <1>1 DEF RetentionInv, ReportsInv
<1>6. CleanerTypes' /\ FoundInv' BY <1>1, NoRunFacts DEF CleanerTypes, FoundInv
<1>7. QED BY <1>3, <1>4, <1>5, <1>6 DEF RetentionInv

-----------------------------------------------------------------------------
LEMMA InitRetention == RetentionInit => RetentionInv
<1> SUFFICES ASSUME RetentionInit PROVE RetentionInv OBVIOUS
<1>1. /\ original = DuplicateOf /\ expired = {} /\ cleaner = NoRun /\ condemned = {}
      /\ stored = Report /\ Inv /\ \A p \in Photo : Images(p)
  BY InitInv DEF RetentionInit, Init
<1>2. DOMAIN original = Report BY <1>1, ReportAssumption
<1>3. ReportsInv BY <1>1, <1>2, ReportConstants DEF ReportsInv
<1>4. CleanerTypes /\ FoundInv BY <1>1, NoRunFacts DEF CleanerTypes, FoundInv
<1>5. QED BY <1>1, <1>3, <1>4 DEF RetentionInv, SparedInv

LEMMA NextRetention == RetentionInv /\ [RetentionNext]_allVars => RetentionInv'
<1> SUFFICES ASSUME RetentionInv, [RetentionNext]_allVars PROVE RetentionInv' OBVIOUS
<1>1. CASE UNCHANGED allVars
  <2>1. UNCHANGED <<vars, reports>> /\ cleaner' = cleaner /\ UNCHANGED condemned
    BY <1>1 DEF allVars, reports
  <2>2. \A p \in Photo : Lost(p) => Lost(p)' BY <2>1, PhotosSame
  <2>3. CleanerTypes' /\ FoundInv'
    BY <2>1, <2>2 DEF RetentionInv, CleanerTypes, FoundInv, ItemOK
  <2>4. QED BY <2>1, <2>3, SelectKeeps
<1>2. CASE PhotoNext /\ UNCHANGED <<reports, cleaner>> BY <1>2, PhotoStepKeeps
<1>3. CASE CleanerStep
  BY <1>3, StartRunKeeps, ExpiredReportsKeeps, ReadKeysKeeps, DeleteObjectsKeeps, AllTriedKeeps,
     DeleteReportsKeeps, ExpiredPhotosKeeps, DeletePhotosKeeps DEF CleanerStep
<1>4. CASE StorageFails BY <1>4, DeletionFailsKeeps DEF StorageFails
<1>5. CASE Abort BY <1>5, AbortKeeps
<1>6. CASE \E r \in Report : Expire(r) \/ \E unmark \in BOOLEAN : Decide(r, unmark)
  BY <1>6, ExpireKeeps, DecideKeeps
<1>7. QED BY <1>1, <1>2, <1>3, <1>4, <1>5, <1>6 DEF RetentionNext

(* The inductive invariant of the cleaner among clients, workers and        *)
(* moderators: between its queries and its deletions, what it has found     *)
(* stays condemned with its report, or doomed (workers/retention.go).       *)
THEOREM RetentionInvariant == RetentionSpec => []RetentionInv
<1>1. QED BY InitRetention, NextRetention, PTL DEF RetentionSpec

(* The cleaner never takes the images of a ready photo whose report did not *)
(* expire, however its queries and deletions interleave with uploads,       *)
(* workers, moderators, failures of the store and restarts                  *)
(* (workers/retention.go cleanReports, cleanPhotos).                        *)
THEOREM KeptPhotosAlwaysIntact == RetentionSpec => []KeptPhotosIntact
<1>1. RetentionInv => KeptPhotosIntact
  BY Constants DEF RetentionInv, SparedInv, Spared, Images, Stored, KeptPhotosIntact
<1>2. QED BY <1>1, RetentionInvariant, PTL

(* Nor does it open a second worker's way to a photo, or a report's way     *)
(* past its number of photos, by deleting rows under those who are at them  *)
(* (workers/retention.go beside workers/photos.go and handlers/photos.go).  *)
THEOREM CleanerKeepsTurns == RetentionSpec => [](OneWorkerPerPhoto /\ SlotsBounded)
<1>1. RetentionInv => OneWorkerPerPhoto /\ SlotsBounded
  BY InvOneWorker, InvSlots DEF RetentionInv
<1>2. QED BY <1>1, RetentionInvariant, PTL
=============================================================================
