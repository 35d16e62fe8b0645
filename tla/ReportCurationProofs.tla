------------------------ MODULE ReportCurationProofs ------------------------
(***************************************************************************)
(* Proofs about ReportCuration, for every set of requests, accounts,       *)
(* moderators and instances and every value of the windows and limits.     *)
(***************************************************************************)
EXTENDS ReportCuration, FiniteSetTheorems, SequenceTheorems, TLAPS

(* A table of stored reports is finite, and so is what is counted in it. *)
LEMMA CountType ==
    ASSUME TypeOK, NEW S \in SUBSET DOMAIN rows
    PROVE  Count(S) \in Found
<1>1. S \subseteq Report
  BY DEF TypeOK
<1>2. Cardinality(S) \in Nat
  BY <1>1, FiniteAssumption, FS_Subset, FS_CardinalityType
<1>3. Accounts(S) \subseteq Account
  BY DEF Accounts, TypeOK, Row, Submission
<1>4. Cardinality(Accounts(S)) \in Nat
  BY <1>3, FiniteAssumption, FS_Subset, FS_CardinalityType
<1> QED
  BY <1>2, <1>4 DEF Count, Found

LEMMA HistoryType ==
    ASSUME TypeOK, NEW r \in Report, NEW s \in Status
    PROVE  Cardinality(History(r, s)) \in Nat
<1>1. History(r, s) \subseteq Report
  BY DEF History, TypeOK
<1> QED
  BY <1>1, FiniteAssumption, FS_Subset, FS_CardinalityType

(* VerificationScore stays within 0 .. 100 on any evidence. *)
LEMMA ScoreType ==
    ASSUME NEW e, e.independent \in Nat, e.verified \in Nat, e.rejected \in Nat
    PROVE  VerificationScore(e) \in 0 .. 100
<1> DEFINE corroboration == AtMost(50, 25 * e.independent + (IF e.anonymous THEN 15 ELSE 0))
           score == corroboration + (IF e.photo THEN 20 ELSE 0) + (IF e.signedIn THEN 10 ELSE 0)
                    + AtMost(20, 10 * e.verified) - 25 * e.rejected
<1>1. corroboration \in Int
  BY DEF AtMost
<1>2. AtMost(20, 10 * e.verified) \in Int
  BY DEF AtMost
<1>3. score \in Int
  <2> HIDE DEF corroboration
  <2> QED  BY <1>1, <1>2
<1>4. VerificationScore(e) = Clamp(score)
  BY DEF VerificationScore
<1> HIDE DEF score
<1> QED
  BY <1>3, <1>4 DEF Clamp, AtMost

LEMMA EvidenceType ==
    ASSUME TypeOK, NEW r \in DOMAIN rows, NEW found \in Found
    PROVE  VerificationScore(Evidence(r, found)) \in 0 .. 100
<1> DEFINE e == Evidence(r, found)
<1>1. r \in Report
  BY DEF TypeOK
<1>2. Cardinality(History(r, "verified")) \in Nat
  BY <1>1, HistoryType DEF Status
<1>3. Cardinality(History(r, "rejected")) \in Nat
  BY <1>1, HistoryType DEF Status
<1>4. e.independent \in Nat /\ e.verified \in Nat /\ e.rejected \in Nat
  BY <1>2, <1>3 DEF Evidence, Found
<1> HIDE DEF e
<1>5. VerificationScore(e) \in 0 .. 100
  BY <1>4, ScoreType
<1> QED
  BY <1>5 DEF e

(* findDuplicate answers NULL or a stored report's original. *)
LEMMA FindDuplicateType ==
    ASSUME NEW c, NEW t, NEW S \in Oldest(Candidates(c, t), CandidateLimit),
           NEW original \in FindDuplicate(c, t, S)
    PROVE  original = None \/ \E q \in DOMAIN rows : original = Original(q)
<1>1. S \subseteq Candidates(c, t)
  BY DEF Oldest
<1>2. ASSUME NEW T \in Oldest(Matches(c, t, S), 1)
      PROVE  T \subseteq Matches(c, t, S)
  BY DEF Oldest
<1>3. Matches(c, t, S) \subseteq S
  BY DEF Matches
<1>4. CASE Matches(c, t, S) = {}
  BY <1>4 DEF FindDuplicate
<1>5. CASE Matches(c, t, S) # {}
  <2>1. PICK q \in UNION Oldest(Matches(c, t, S), 1) : original = Original(q)
    BY <1>5 DEF FindDuplicate
  <2>2. q \in Candidates(c, t)
    BY <2>1, <1>1, <1>2, <1>3
  <2> QED
    BY <2>1, <2>2 DEF Candidates
<1> QED
  BY <1>4, <1>5

LEMMA DuplicateAnswer ==
    ASSUME NEW r, CheckDuplicate(r)
    PROVE  \E original :
             /\ requests' = [requests EXCEPT ![r] =
                    [requests[r] EXCEPT !.checked = TRUE, !.duplicateOf = original]]
             /\ original = None \/ \E q \in DOMAIN rows : original = Original(q)
<1>1. PICK c, t : c = requests[r].content /\ t = requests[r].createdAt
  OBVIOUS
<1>2. PICK S \in Oldest(Candidates(c, t), CandidateLimit) : \E original \in FindDuplicate(c, t, S) :
          requests' = [requests EXCEPT ![r] =
              [@ EXCEPT !.checked = TRUE, !.duplicateOf = original]]
  BY <1>1, Zenon DEF CheckDuplicate
<1>3. PICK original \in FindDuplicate(c, t, S) :
          requests' = [requests EXCEPT ![r] =
              [@ EXCEPT !.checked = TRUE, !.duplicateOf = original]]
  BY <1>2, Zenon
<1>4. original = None \/ \E q \in DOMAIN rows : original = Original(q)
  BY <1>2, <1>3, FindDuplicateType
<1> QED
  BY <1>3, <1>4, Zenon

LEMMA TypeInit == Init => TypeOK
<1> SUFFICES ASSUME Init PROVE TypeOK
  OBVIOUS
<1>1. 0 \in Time
  BY WindowAssumption DEF Time
<1>2. \A r \in Report : <<>> \in Seq(Event)
  BY EmptySeq
<1> QED
  BY <1>1, <1>2 DEF Init, TypeOK, Transaction, NoTransaction, VerifierRun, IdleRun, Found, NothingFound

(* An update of a function at one argument, which may lie outside its domain. *)
LEMMA UpdateType ==
    ASSUME NEW D, NEW R, NEW f \in [D -> R], NEW x, NEW y, x \in D => y \in R
    PROVE  [f EXCEPT ![x] = y] \in [D -> R]
OBVIOUS

LEMMA IdleRunType == IdleRun \in VerifierRun /\ NothingFound \in Found
<1>1. 0 \in Time
  BY WindowAssumption DEF Time
<1> QED
  BY <1>1 DEF IdleRun, VerifierRun, NothingFound, Found

LEMMA NoTransactionType == NoTransaction \in Transaction
<1>1. 0 \in Time
  BY WindowAssumption DEF Time
<1> QED
  BY <1>1 DEF NoTransaction, Transaction

(* A new event keeps a log a sequence of events. *)
LEMMA LogType ==
    ASSUME TypeOK, NEW r, NEW event \in Event
    PROVE  [events EXCEPT ![r] = Append(@, event)] \in [Report -> Seq(Event)]
<1>1. \A s \in Seq(Event) : Append(s, event) \in Seq(Event)
  BY AppendProperties
<1>2. events \in [Report -> Seq(Event)]
  BY DEF TypeOK
<1> QED
  BY <1>1, <1>2

LEMMA NextReportType ==
    ASSUME TypeOK, NEW i \in Instance, NextReport(i)
    PROVE  verifier' \in [Instance -> VerifierRun]
<1> DEFINE run == verifier[i]
           new == [run EXCEPT !.pc = "next", !.report = None, !.found = NothingFound,
                              !.score = 0, !.at = 0]
<1>1. run \in VerifierRun /\ verifier \in [Instance -> VerifierRun]
  BY DEF TypeOK
<1>2. 0 \in Time /\ 0 \in 0 .. 100
  BY WindowAssumption DEF Time
<1>3. new \in VerifierRun
  BY <1>1, <1>2, IdleRunType DEF VerifierRun
<1>4. verifier' = [verifier EXCEPT ![i] = new]
  BY DEF NextReport
<1> HIDE DEF new
<1> QED
  BY <1>1, <1>3, <1>4

LEMMA TypeStep == TypeOK /\ [Next]_vars => TypeOK'
<1> SUFFICES ASSUME TypeOK, [Next]_vars PROVE TypeOK'
  OBVIOUS
<1>1. CASE Tick
  BY <1>1, WindowAssumption DEF TypeOK, Tick, Time
<1>2. ASSUME NEW r \in Report, BeginStore(r) \/ CheckDuplicate(r)
      PROVE  TypeOK'
  <2>1. CASE BeginStore(r)
    <3>1. PICK c \in Contents[r] : requests' = [requests EXCEPT ![r] =
              [content |-> c, createdAt |-> now, checked |-> FALSE, duplicateOf |-> None]]
      BY <2>1, Zenon DEF BeginStore
    <3>2. c \in Submission
      BY ContentsAssumption
    <3> QED
      BY <2>1, <3>1, <3>2 DEF TypeOK, BeginStore, Request
  <2>2. CASE CheckDuplicate(r)
    <3> DEFINE q == requests[r]
    <3>1. PICK original : /\ requests' = [requests EXCEPT ![r] =
                               [q EXCEPT !.checked = TRUE, !.duplicateOf = original]]
                          /\ original = None \/ \E s \in DOMAIN rows : original = Original(s)
      BY <2>2, DuplicateAnswer
    <3>2. \A s \in DOMAIN rows : Original(s) \in Report \cup {None}
      BY DEF TypeOK, Original, Row
    <3>3. original \in Report \cup {None}
      BY <3>1, <3>2
    <3>4. q \in Request
      BY <2>2 DEF TypeOK, CheckDuplicate
    <3> DEFINE new == [q EXCEPT !.checked = TRUE, !.duplicateOf = original]
    <3>5. new \in Request
      BY <3>3, <3>4 DEF Request
    <3> HIDE DEF new
    <3> QED
      BY <2>2, <3>1, <3>5 DEF TypeOK, CheckDuplicate, new
  <2> QED
    BY <1>2, <2>1, <2>2
<1>3. ASSUME NEW r \in Report, InsertReport(r)
      PROVE  TypeOK'
  <2>1. requests[r] \in Request
    BY <1>3 DEF TypeOK, InsertReport
  <2> DEFINE new == [content |-> requests[r].content, duplicateOf |-> requests[r].duplicateOf,
                     createdAt |-> requests[r].createdAt, status |-> "pending",
                     moderatedBy |-> None, statusUpdatedAt |-> requests[r].createdAt,
                     score |-> 0, corroborations |-> 0]
  <2>2. new \in Row
    BY <2>1 DEF Request, Row, Status
  <2>3. rows' = [s \in DOMAIN rows \cup {r} |-> IF s = r THEN new ELSE rows[s]]
    BY <1>3 DEF InsertReport
  <2> HIDE DEF new
  <2>4. rows' \in [DOMAIN rows' -> Row] /\ DOMAIN rows' \subseteq Report
    BY <2>2, <2>3 DEF TypeOK
  <2>5. requests' \in [Report -> Request \cup {None}]
    BY <1>3 DEF TypeOK, InsertReport
  <2> QED
    BY <1>3, <2>4, <2>5 DEF TypeOK, InsertReport
<1>4. ASSUME NEW r \in Report, AbortStore(r)
      PROVE  TypeOK'
  BY <1>4 DEF TypeOK, AbortStore
<1>5. ASSUME NEW r \in Report, PublishPhoto(r)
      PROVE  TypeOK'
  BY <1>5 DEF TypeOK, PublishPhoto
<1>6. ASSUME NEW m \in Moderator, NEW r \in Report, BeginModeration(m, r)
      PROVE  TypeOK'
  BY <1>6 DEF TypeOK, BeginModeration, Transaction
<1>7. ASSUME NEW m \in Moderator, LockRow(m)
      PROVE  TypeOK'
  <2> DEFINE tx == moderation[m]
             new == [tx EXCEPT !.current = rows[tx.report].status]
  <2>1. tx \in Transaction /\ tx.report \in DOMAIN rows
    BY <1>7 DEF TypeOK, LockRow
  <2>2. rows[tx.report].status \in Status
    BY <2>1 DEF TypeOK, Row
  <2>3. new \in Transaction
    BY <2>1, <2>2 DEF Transaction
  <2>4. moderation' = [moderation EXCEPT ![m] = new]
    BY <1>7 DEF LockRow
  <2> HIDE DEF new
  <2> QED
    BY <1>7, <2>3, <2>4 DEF TypeOK, LockRow
<1>8. ASSUME NEW m \in Moderator, Decide(m)
      PROVE  TypeOK'
  <2> DEFINE tx == moderation[m]
  <2>1. PICK status \in Status, notDuplicate \in BOOLEAN :
            /\ rows' = [rows EXCEPT ![tx.report] =
                 [@ EXCEPT !.status = status,
                           !.moderatedBy = IF status = "pending" THEN None ELSE m,
                           !.statusUpdatedAt = tx.at,
                           !.duplicateOf = IF notDuplicate THEN None
                                            ELSE rows[tx.report].duplicateOf]]
            /\ events' = [events EXCEPT ![tx.report] =
                 Append(@, [from |-> tx.current, to |-> status, actor |-> m, at |-> tx.at])]
    BY <1>8, Zenon DEF Decide
  <2> DEFINE row == rows[tx.report]
             new == [row EXCEPT !.status = status,
                                !.moderatedBy = IF status = "pending" THEN None ELSE m,
                                !.statusUpdatedAt = tx.at,
                                !.duplicateOf = IF notDuplicate THEN None ELSE row.duplicateOf]
             event == [from |-> tx.current, to |-> status, actor |-> m, at |-> tx.at]
  <2>2. tx \in Transaction /\ tx.current \in Status /\ tx.at \in Time
    BY <1>8 DEF TypeOK, Decide, Transaction
  <2>3. ASSUME tx.report \in DOMAIN rows
        PROVE  new \in Row
    <3>1. row \in Row
      BY <2>3 DEF TypeOK
    <3> HIDE DEF row
    <3> QED
      BY <2>2, <3>1 DEF Row, Actor
  <2>4. rows' = [rows EXCEPT ![tx.report] = new]
    BY <2>1
  <2>5. event \in Event
    BY <2>1, <2>2 DEF Event, Actor
  <2>6. events' = [events EXCEPT ![tx.report] = Append(@, event)]
    BY <2>1
  <2>7. moderation' \in [Moderator -> Transaction]
    BY <1>8, NoTransactionType DEF TypeOK, Decide
  <2> HIDE DEF new, event
  <2>8. rows' \in [DOMAIN rows -> Row]
    BY <2>3, <2>4, UpdateType DEF TypeOK
  <2>9. events' \in [Report -> Seq(Event)]
    BY <2>5, <2>6, LogType
  <2> QED
    BY <1>8, <2>7, <2>8, <2>9 DEF TypeOK, Decide
<1>9. ASSUME NEW m \in Moderator, AbortModeration(m)
      PROVE  TypeOK'
  BY <1>9, NoTransactionType DEF TypeOK, AbortModeration
<1>10. ASSUME NEW i \in Instance, StartRun(i)
       PROVE  TypeOK'
  <2>1. PICK batch \in Newest(Pending, VerifyBatch) :
            verifier' = [verifier EXCEPT ![i] = [IdleRun EXCEPT !.pc = "next", !.todo = batch]]
    BY <1>10, Zenon DEF StartRun
  <2>2. batch \subseteq Report
    BY <2>1 DEF TypeOK, Newest, Pending
  <2> DEFINE new == [IdleRun EXCEPT !.pc = "next", !.todo = batch]
  <2>3. new \in VerifierRun
    BY <2>2, IdleRunType DEF VerifierRun
  <2>4. verifier' = [verifier EXCEPT ![i] = new]
    BY <2>1
  <2> HIDE DEF new
  <2> QED
    BY <1>10, <2>3, <2>4 DEF TypeOK, StartRun
<1>11. ASSUME NEW i \in Instance, GatherCorroborators(i)
       PROVE  TypeOK'
  <2>1. PICK r \in verifier[i].todo :
            verifier' = [verifier EXCEPT ![i] =
              [@ EXCEPT !.pc = "history", !.todo = verifier[i].todo \ {r}, !.report = r,
                        !.found = Count(Corroborators(r))]]
    BY <1>11, Zenon DEF GatherCorroborators
  <2> DEFINE run == verifier[i]
             found == Count(Corroborators(r))
             new == [run EXCEPT !.pc = "history", !.todo = run.todo \ {r}, !.report = r,
                            !.found = found]
  <2>2. Corroborators(r) \subseteq DOMAIN rows
    BY DEF Corroborators
  <2>3. found \in Found
    BY <2>2, CountType
  <2>4. run \in VerifierRun
    BY DEF TypeOK
  <2>5. verifier' = [verifier EXCEPT ![i] = new]
    BY <2>1
  <2> HIDE DEF found
  <2>6. new \in VerifierRun
    BY <2>3, <2>4 DEF VerifierRun
  <2> HIDE DEF new
  <2> QED
    BY <1>11, <2>5, <2>6 DEF TypeOK, GatherCorroborators
<1>12. ASSUME NEW i \in Instance, GatherHistory(i)
       PROVE  TypeOK'
  <2> DEFINE run == verifier[i]
             score == IF run.report \in DOMAIN rows
                      THEN VerificationScore(Evidence(run.report, run.found))
                      ELSE 0
             new == [run EXCEPT !.pc = "record", !.at = now, !.score = score]
  <2>1. run \in VerifierRun /\ run.found \in Found /\ now \in Time
    BY DEF TypeOK, VerifierRun
  <2>2. score \in 0 .. 100
    <3>1. CASE run.report \in DOMAIN rows
      BY <2>1, <3>1, EvidenceType
    <3>2. CASE run.report \notin DOMAIN rows
      BY <3>2
    <3> QED
      BY <3>1, <3>2
  <2>3. verifier' = [verifier EXCEPT ![i] = new]
    BY <1>12 DEF GatherHistory
  <2> HIDE DEF score
  <2>4. new \in VerifierRun
    BY <2>1, <2>2 DEF VerifierRun
  <2> HIDE DEF new
  <2> QED
    BY <1>12, <2>3, <2>4 DEF TypeOK, GatherHistory
<1>13. ASSUME NEW i \in Instance, RecordVerified(i)
       PROVE  TypeOK'
  <2> DEFINE run == verifier[i]
             row == rows[run.report]
             new == [row EXCEPT !.score = run.score, !.corroborations = run.found.reports,
                                !.status = "verified", !.moderatedBy = ModeratedByAuto,
                                !.statusUpdatedAt = run.at]
             event == [from |-> "pending", to |-> "verified", actor |-> ModeratedByAuto, at |-> run.at]
  <2>1. run.score \in 0 .. 100 /\ run.found.reports \in Nat /\ run.at \in Time
    BY DEF TypeOK, VerifierRun, Found
  <2>2. run.report \in DOMAIN rows /\ row \in Row
    BY <1>13 DEF TypeOK, RecordVerified, Undecided
  <2>3. event \in Event
    BY <2>1 DEF Event, Status, Actor
  <2>4. rows' = [rows EXCEPT ![run.report] = new]
    BY <1>13 DEF RecordVerified
  <2>5. events' = [events EXCEPT ![run.report] = Append(@, event)]
    BY <1>13 DEF RecordVerified
  <2> HIDE DEF row, event
  <2>6. new \in Row
    <3> HIDE DEF run
    <3> QED  BY <2>1, <2>2 DEF Row, Status, Actor
  <2> HIDE DEF new
  <2>7. rows' \in [DOMAIN rows -> Row]
    BY <2>4, <2>6, UpdateType DEF TypeOK
  <2>8. events' \in [Report -> Seq(Event)]
    BY <2>3, <2>5, LogType
  <2>9. verifier' \in [Instance -> VerifierRun]
    BY <1>13, NextReportType DEF RecordVerified
  <2> QED
    BY <1>13, <2>7, <2>8, <2>9 DEF TypeOK, RecordVerified
<1>14. ASSUME NEW i \in Instance, RecordScore(i)
       PROVE  TypeOK'
  <2> DEFINE run == verifier[i]
             row == rows[run.report]
             new == [row EXCEPT !.score = run.score, !.corroborations = run.found.reports]
  <2>1. run.score \in 0 .. 100 /\ run.found.reports \in Nat
    BY DEF TypeOK, VerifierRun, Found
  <2>2. run.report \in DOMAIN rows /\ row \in Row
    BY <1>14 DEF TypeOK, RecordScore, Undecided
  <2>3. rows' = [rows EXCEPT ![run.report] = new]
    BY <1>14 DEF RecordScore
  <2> HIDE DEF row
  <2>4. new \in Row
    <3> HIDE DEF run
    <3> QED  BY <2>1, <2>2 DEF Row
  <2> HIDE DEF new
  <2>5. rows' \in [DOMAIN rows -> Row]
    BY <2>3, <2>4, UpdateType DEF TypeOK
  <2>6. verifier' \in [Instance -> VerifierRun]
    BY <1>14, NextReportType DEF RecordScore
  <2> QED
    BY <1>14, <2>5, <2>6 DEF TypeOK, RecordScore
<1>15. ASSUME NEW i \in Instance, RecordNothing(i)
       PROVE  TypeOK'
  <2>1. verifier' \in [Instance -> VerifierRun]
    BY <1>15, NextReportType DEF RecordNothing
  <2> QED
    BY <1>15, <2>1 DEF TypeOK, RecordNothing
<1>16. ASSUME NEW i \in Instance, FinishRun(i) \/ FailRun(i)
       PROVE  TypeOK'
  BY <1>16, IdleRunType DEF TypeOK, FinishRun, FailRun, Unlock
<1>17. ASSUME NEW i \in Instance, LoseSession(i)
       PROVE  TypeOK'
  BY <1>17 DEF TypeOK, LoseSession
<1>18. CASE UNCHANGED vars
  BY <1>18 DEF TypeOK, vars
<1> QED
  BY <1>1, <1>2, <1>3, <1>4, <1>5, <1>6, <1>7, <1>8, <1>9, <1>10, <1>11, <1>12, <1>13, <1>14,
     <1>15, <1>16, <1>17, <1>18
     DEF Next, StoreStep, ModerationStep, VerifierStep, RecordStep

(* Every reachable state is well typed; in particular a score never leaves *)
(* the SMALLINT range 0 .. 100 that VerificationScore clamps it to.        *)
THEOREM TypeCorrect == Spec => []TypeOK
<1>1. Init => TypeOK
  BY TypeInit
<1>2. TypeOK /\ [Next]_vars => TypeOK'
  BY TypeStep
<1> QED
  BY <1>1, <1>2, PTL DEF Spec
-----------------------------------------------------------------------------

(* No step removes a report or changes its contents, its time or, except to *)
(* clear it, its original.                                                  *)
RowsGrow ==
    \A s \in DOMAIN rows :
        /\ s \in DOMAIN rows'
        /\ rows'[s].content = rows[s].content
        /\ rows'[s].createdAt = rows[s].createdAt
        /\ rows'[s].duplicateOf \in {rows[s].duplicateOf, None}

LEMMA RowsGrowStep == TypeOK /\ Chronology /\ [Next]_vars => RowsGrow
<1> SUFFICES ASSUME TypeOK, Chronology, [Next]_vars
             PROVE  RowsGrow
  OBVIOUS
<1>1. rows \in [DOMAIN rows -> Row]
  BY DEF TypeOK
<1>2. ASSUME NEW r \in Report, InsertReport(r)
      PROVE  RowsGrow
  BY <1>2 DEF InsertReport, Chronology, RowsGrow
<1>3. ASSUME NEW m \in Moderator, Decide(m)
      PROVE  RowsGrow
  <2>1. PICK status \in Status, notDuplicate \in BOOLEAN :
            rows' = [rows EXCEPT ![moderation[m].report] =
                [@ EXCEPT !.status = status,
                          !.moderatedBy = IF status = "pending" THEN None ELSE m,
                          !.statusUpdatedAt = moderation[m].at,
                          !.duplicateOf = IF notDuplicate THEN None
                                          ELSE rows[moderation[m].report].duplicateOf]]
    BY <1>3, Zenon DEF Decide
  <2> QED
    BY <2>1, <1>1 DEF RowsGrow, Row
<1>4. ASSUME NEW i \in Instance, RecordVerified(i)
      PROVE  RowsGrow
  BY <1>4, <1>1 DEF RecordVerified, RowsGrow, Row
<1>5. ASSUME NEW i \in Instance, RecordScore(i)
      PROVE  RowsGrow
  BY <1>5, <1>1 DEF RecordScore, RowsGrow, Row
<1>6. CASE UNCHANGED rows
  BY <1>6 DEF RowsGrow
<1>7. QED
  BY <1>2, <1>3, <1>4, <1>5, <1>6
     DEF Next, vars, StoreStep, ModerationStep, VerifierStep, RecordStep, Tick, BeginStore,
         CheckDuplicate, AbortStore, PublishPhoto, BeginModeration, LockRow, AbortModeration, StartRun,
         GatherCorroborators, GatherHistory, RecordNothing, FinishRun, FailRun, LoseSession

(* A stored original stays one. *)
LEMMA OriginalStays ==
    ASSUME RowsGrow, NEW o, NEW r, IsOriginalOf(o, r)
    PROVE  o # r /\ o \in DOMAIN rows' /\ rows'[o].duplicateOf = None
BY DEF RowsGrow, IsOriginalOf

(* What CheckDuplicate answers is a stored original of the new report. *)
LEMMA AnswerIsOriginal ==
    ASSUME FlatDuplicates, NEW r, r \notin DOMAIN rows, NEW q \in DOMAIN rows
    PROVE  IsOriginalOf(Original(q), r)
<1>1. CASE rows[q].duplicateOf = None
  BY <1>1 DEF Original, IsOriginalOf
<1>2. CASE rows[q].duplicateOf # None
  BY <1>2 DEF Original, IsOriginalOf, FlatDuplicates
<1> QED
  BY <1>1, <1>2

LEMMA CheckedDuplicate ==
    ASSUME TypeOK, Chronology, FlatDuplicates, NEW r \in Report, CheckDuplicate(r)
    PROVE  /\ requests[r] # None
           /\ requests'[r].createdAt = requests[r].createdAt
           /\ requests'[r].duplicateOf # None => IsOriginalOf(requests'[r].duplicateOf, r)
           /\ \A s \in Report \ {r} : requests'[s] = requests[s]
<1> DEFINE q == requests[r]
<1>1. PICK original : /\ requests' = [requests EXCEPT ![r] =
                           [q EXCEPT !.checked = TRUE, !.duplicateOf = original]]
                      /\ original = None \/ \E s \in DOMAIN rows : original = Original(s)
  BY DuplicateAnswer
<1>2. q # None /\ q \in Request
  BY DEF TypeOK, CheckDuplicate
<1>3. r \notin DOMAIN rows
  BY <1>2 DEF Chronology
<1>4. original # None => IsOriginalOf(original, r)
  BY <1>1, <1>3, AnswerIsOriginal
<1>5. /\ requests'[r] = [q EXCEPT !.checked = TRUE, !.duplicateOf = original]
      /\ \A s \in Report \ {r} : requests'[s] = requests[s]
  BY <1>1 DEF TypeOK
<1>6. requests'[r].createdAt = q.createdAt /\ requests'[r].duplicateOf = original
  <2> HIDE DEF q
  <2> QED  BY <1>2, <1>5 DEF Request
<1> QED
  BY <1>2, <1>4, <1>5, <1>6

LEMMA ChronologyStep ==
    TypeOK /\ Chronology /\ FlatDuplicates /\ RowLocks /\ [Next]_vars => Chronology'
<1> SUFFICES ASSUME TypeOK, Chronology, FlatDuplicates, RowLocks, [Next]_vars
             PROVE  Chronology'
  OBVIOUS
<1>0. RowsGrow
  BY RowsGrowStep
<1>t. now \in Int
  BY DEF TypeOK, Time
<1>1. CASE Tick
  <2>1. \A r \in DOMAIN rows : rows[r].createdAt \in Int
    BY DEF TypeOK, Row, Time
  <2>2. \A r \in Report : requests[r] # None => requests[r].createdAt \in Int
    BY DEF TypeOK, Request, Time
  <2> QED
    BY <1>1, <1>t, <2>1, <2>2 DEF Tick, Chronology
<1>2. ASSUME NEW r \in Report, BeginStore(r) \/ CheckDuplicate(r)
      PROVE  Chronology'
  <2>1. r \notin DOMAIN rows /\ UNCHANGED <<now, rows, events>>
    BY <1>2 DEF BeginStore, CheckDuplicate, Chronology
  <2>2. requests'[r].createdAt <= now /\ \A s \in Report \ {r} : requests'[s] = requests[s]
    <3>1. CASE BeginStore(r)
      BY <3>1, <1>t DEF BeginStore, TypeOK
    <3>2. CASE CheckDuplicate(r)
      BY <3>2, CheckedDuplicate DEF Chronology
    <3> QED
      BY <1>2, <3>1, <3>2
  <2> QED
    BY <2>1, <2>2 DEF Chronology, TypeOK
<1>3. ASSUME NEW r \in Report, InsertReport(r)
      PROVE  Chronology'
  <2>1. requests[r] # None
    BY <1>3 DEF InsertReport
  <2>2. /\ DOMAIN rows' = DOMAIN rows \cup {r}
        /\ rows'[r].createdAt = requests[r].createdAt
        /\ \A s \in DOMAIN rows : s # r => rows'[s] = rows[s]
    BY <1>3 DEF InsertReport
  <2>3. requests'[r] = None /\ \A s \in Report \ {r} : requests'[s] = requests[s]
    BY <1>3 DEF InsertReport, TypeOK
  <2>4. UNCHANGED <<now, events>>
    BY <1>3 DEF InsertReport
  <2> QED
    BY <2>1, <2>2, <2>3, <2>4 DEF Chronology, TypeOK
<1>4. ASSUME NEW r \in Report, AbortStore(r)
      PROVE  Chronology'
  BY <1>4 DEF AbortStore, Chronology, TypeOK
<1>5. ASSUME NEW m \in Moderator, Decide(m)
      PROVE  Chronology'
  <2>1. moderation[m].report \in DOMAIN rows
    BY <1>5 DEF Decide, RowLocks
  <2>2. UNCHANGED <<now, requests>>
    BY <1>5 DEF Decide
  <2>3. \A s \in Report \ DOMAIN rows : events'[s] = events[s]
    BY <1>5, <2>1 DEF Decide, TypeOK
  <2>4. DOMAIN rows' = DOMAIN rows
    BY <1>5 DEF Decide
  <2> QED
    BY <1>0, <2>2, <2>3, <2>4 DEF Chronology, RowsGrow
<1>6. ASSUME NEW i \in Instance, RecordVerified(i)
      PROVE  Chronology'
  <2>1. verifier[i].report \in DOMAIN rows
    BY <1>6 DEF RecordVerified, Undecided
  <2>2. UNCHANGED <<now, requests>>
    BY <1>6 DEF RecordVerified
  <2>3. \A s \in Report \ DOMAIN rows : events'[s] = events[s]
    BY <1>6, <2>1 DEF RecordVerified, TypeOK
  <2>4. DOMAIN rows' = DOMAIN rows
    BY <1>6 DEF RecordVerified
  <2> QED
    BY <1>0, <2>2, <2>3, <2>4 DEF Chronology, RowsGrow
<1>7. ASSUME NEW i \in Instance, RecordScore(i)
      PROVE  Chronology'
  <2>1. UNCHANGED <<now, requests, events>> /\ DOMAIN rows' = DOMAIN rows
    BY <1>7 DEF RecordScore
  <2> QED
    BY <1>0, <2>1 DEF Chronology, RowsGrow
<1>8. CASE UNCHANGED <<now, rows, requests, events>>
  BY <1>8 DEF Chronology
<1> QED
  BY <1>1, <1>2, <1>3, <1>4, <1>5, <1>6, <1>7, <1>8
     DEF Next, vars, StoreStep, ModerationStep, VerifierStep, RecordStep, PublishPhoto,
         BeginModeration, LockRow, AbortModeration, StartRun, GatherCorroborators, GatherHistory,
         RecordNothing, FinishRun, FailRun, LoseSession

LEMMA FlatDuplicatesStep ==
    TypeOK /\ Chronology /\ FlatDuplicates /\ [Next]_vars => FlatDuplicates'
<1> SUFFICES ASSUME TypeOK, Chronology, FlatDuplicates, [Next]_vars
             PROVE  FlatDuplicates'
  OBVIOUS
<1> DEFINE Stays(o, r) == o # r /\ o \in DOMAIN rows' /\ rows'[o].duplicateOf = None
<1>1. RowsGrow
  BY RowsGrowStep
<1>2. \A o, r : IsOriginalOf(o, r) => Stays(o, r)
  BY <1>1, OriginalStays
<1>3. \A r \in DOMAIN rows : rows'[r].duplicateOf # None => Stays(rows'[r].duplicateOf, r)
  BY <1>1, <1>2 DEF RowsGrow, FlatDuplicates
<1>4. \A r \in Report : requests[r] # None /\ requests[r].duplicateOf # None
          => Stays(requests[r].duplicateOf, r)
  BY <1>2 DEF FlatDuplicates
<1>5. ASSUME \A r \in DOMAIN rows' \ DOMAIN rows : rows'[r].duplicateOf # None
                => Stays(rows'[r].duplicateOf, r),
             \A r \in Report : requests'[r] # None /\ requests'[r].duplicateOf # None
                => Stays(requests'[r].duplicateOf, r)
      PROVE  FlatDuplicates'
  BY <1>3, <1>5 DEF FlatDuplicates, IsOriginalOf
<1>6. ASSUME NEW r \in Report, BeginStore(r) \/ CheckDuplicate(r)
      PROVE  FlatDuplicates'
  <2>1. rows' = rows /\ \A s \in Report \ {r} : requests'[s] = requests[s]
    <3>1. CASE BeginStore(r)
      BY <3>1 DEF BeginStore, TypeOK
    <3>2. CASE CheckDuplicate(r)
      BY <3>2, CheckedDuplicate DEF CheckDuplicate
    <3> QED
      BY <1>6, <3>1, <3>2
  <2>2. requests'[r].duplicateOf # None => Stays(requests'[r].duplicateOf, r)
    <3>1. CASE BeginStore(r)
      <4>1. requests'[r].duplicateOf = None
        BY <3>1 DEF BeginStore, TypeOK
      <4> QED
        BY <4>1
    <3>2. CASE CheckDuplicate(r)
      BY <1>2, <3>2, CheckedDuplicate
    <3> QED
      BY <1>6, <3>1, <3>2
  <2> HIDE DEF Stays
  <2>3. \A s \in Report : requests'[s] # None /\ requests'[s].duplicateOf # None
            => Stays(requests'[s].duplicateOf, s)
    BY <1>4, <2>1, <2>2
  <2> QED
    BY <1>5, <2>1, <2>3
<1>7. ASSUME NEW r \in Report, InsertReport(r)
      PROVE  FlatDuplicates'
  <2>1. requests[r] # None
    BY <1>7 DEF InsertReport
  <2>2. /\ DOMAIN rows' = DOMAIN rows \cup {r}
        /\ rows'[r].duplicateOf = requests[r].duplicateOf
    BY <1>7 DEF InsertReport
  <2>3. requests'[r] = None /\ \A s \in Report \ {r} : requests'[s] = requests[s]
    BY <1>7 DEF InsertReport, TypeOK
  <2> HIDE DEF Stays
  <2> QED
    BY <1>4, <1>5, <2>1, <2>2, <2>3
<1>8. ASSUME DOMAIN rows' = DOMAIN rows,
             \A r \in Report : requests'[r] \in {requests[r], None}
      PROVE  FlatDuplicates'
  <2> HIDE DEF Stays
  <2> QED
    BY <1>4, <1>5, <1>8
<1>9. ASSUME NEW r \in Report, AbortStore(r)
      PROVE  FlatDuplicates'
  BY <1>8, <1>9 DEF AbortStore, TypeOK
<1>10. ASSUME NEW m \in Moderator, Decide(m)
       PROVE  DOMAIN rows' = DOMAIN rows /\ UNCHANGED requests
  BY <1>10 DEF Decide
<1>11. ASSUME NEW i \in Instance, RecordVerified(i) \/ RecordScore(i)
       PROVE  DOMAIN rows' = DOMAIN rows /\ UNCHANGED requests
  BY <1>11 DEF RecordVerified, RecordScore
<1> QED
  BY <1>6, <1>7, <1>8, <1>9, <1>10, <1>11
     DEF Next, vars, StoreStep, ModerationStep, VerifierStep, RecordStep, Tick, PublishPhoto,
         BeginModeration, LockRow, AbortModeration, StartRun, GatherCorroborators, GatherHistory,
         RecordNothing, FinishRun, FailRun, LoseSession

-----------------------------------------------------------------------------
(* The audit trail.                                                        *)

LEMMA AppendChained ==
    ASSUME NEW log \in Seq(Event), NEW e \in Event, Chained(log),
           e.from = IF log = <<>> THEN "pending" ELSE log[Len(log)].to
    PROVE  /\ Chained(Append(log, e))
           /\ Append(log, e) # <<>>
           /\ Append(log, e)[Len(Append(log, e))] = e
<1> DEFINE longer == Append(log, e)
<1>1. /\ longer # <<>>
      /\ Len(longer) = Len(log) + 1
      /\ \A k \in 1 .. Len(log) : longer[k] = log[k]
      /\ longer[Len(log) + 1] = e
  BY AppendProperties
<1>2. Len(log) \in Nat /\ (log = <<>> <=> Len(log) = 0)
  BY EmptySeq, LenProperties
<1> HIDE DEF longer
<1>3. ASSUME NEW k \in 1 .. Len(longer)
      PROVE  longer[k].from = IF k = 1 THEN "pending" ELSE longer[k - 1].to
  <2>1. CASE k \in 1 .. Len(log)
    BY <1>1, <1>2, <2>1 DEF Chained
  <2>2. CASE k = Len(log) + 1
    BY <1>1, <1>2, <2>2
  <2> QED
    BY <1>1, <1>2, <2>1, <2>2
<1>4. Chained(longer)
  BY <1>3 DEF Chained
<1> QED
  BY <1>1, <1>4 DEF longer

(* A step that changes the log and the row of one stored report, the event  *)
(* saying what became of the row, keeps the audit trail.                    *)
LEMMA AuditedChange ==
    ASSUME TypeOK, AuditTrail, NEW r \in DOMAIN rows, NEW e \in Event, NEW row,
           events' = [events EXCEPT ![r] = Append(@, e)],
           rows' = [rows EXCEPT ![r] = row],
           e.from = rows[r].status,
           row.status = e.to, row.statusUpdatedAt = e.at,
           row.moderatedBy = IF e.to = "pending" THEN None ELSE e.actor
    PROVE  AuditTrail'
<1>1. r \in Report /\ events[r] \in Seq(Event)
  BY DEF TypeOK
<1>2. e.from = IF events[r] = <<>> THEN "pending" ELSE events[r][Len(events[r])].to
  BY DEF AuditTrail, Explains
<1>3. events'[r] = Append(events[r], e) /\ rows'[r] = row
  BY <1>1 DEF TypeOK
<1>4. Chained(events'[r]) /\ events'[r] # <<>> /\ events'[r][Len(events'[r])] = e
  BY <1>1, <1>2, <1>3, AppendChained DEF AuditTrail
<1>5. Explains(events'[r], rows'[r])
  BY <1>3, <1>4 DEF Explains
<1>6. \A s \in DOMAIN rows \ {r} : events'[s] = events[s] /\ rows'[s] = rows[s]
  BY <1>1 DEF TypeOK
<1>7. DOMAIN rows' = DOMAIN rows
  OBVIOUS
<1> QED
  BY <1>4, <1>5, <1>6, <1>7 DEF AuditTrail

LEMMA AuditTrailStep ==
    TypeOK /\ Chronology /\ AuditTrail /\ RowLocks /\ [Next]_vars => AuditTrail'
<1> SUFFICES ASSUME TypeOK, Chronology, AuditTrail, RowLocks, [Next]_vars
             PROVE  AuditTrail'
  OBVIOUS
<1>1. ASSUME NEW r \in Report, InsertReport(r)
      PROVE  AuditTrail'
  <2>1. requests[r] # None /\ r \notin DOMAIN rows
    BY <1>1 DEF InsertReport, Chronology
  <2>2. /\ DOMAIN rows' = DOMAIN rows \cup {r}
        /\ rows'[r].status = "pending" /\ rows'[r].moderatedBy = None
        /\ \A s \in DOMAIN rows : rows'[s] = rows[s]
        /\ UNCHANGED events
    BY <1>1, <2>1 DEF InsertReport
  <2>3. events[r] = <<>>
    BY <2>1 DEF Chronology
  <2>4. Chained(<<>>)
    BY DEF Chained
  <2>5. Chained(events'[r]) /\ Explains(events'[r], rows'[r])
    BY <2>2, <2>3, <2>4 DEF Explains
  <2> QED
    BY <2>2, <2>5 DEF AuditTrail
<1>2. ASSUME NEW m \in Moderator, Decide(m)
      PROVE  AuditTrail'
  <2> DEFINE tx == moderation[m]
  <2>1. PICK status \in Status, notDuplicate \in BOOLEAN :
            /\ rows' = [rows EXCEPT ![tx.report] =
                 [@ EXCEPT !.status = status,
                           !.moderatedBy = IF status = "pending" THEN None ELSE m,
                           !.statusUpdatedAt = tx.at,
                           !.duplicateOf = IF notDuplicate THEN None
                                            ELSE rows[tx.report].duplicateOf]]
            /\ events' = [events EXCEPT ![tx.report] =
                 Append(@, [from |-> tx.current, to |-> status, actor |-> m, at |-> tx.at])]
    BY <1>2, Zenon DEF Decide
  <2> DEFINE old == rows[tx.report]
             new == [old EXCEPT !.status = status,
                                !.moderatedBy = IF status = "pending" THEN None ELSE m,
                                !.statusUpdatedAt = tx.at,
                                !.duplicateOf = IF notDuplicate THEN None ELSE old.duplicateOf]
             event == [from |-> tx.current, to |-> status, actor |-> m, at |-> tx.at]
  <2>2. tx.report \in DOMAIN rows /\ tx.current = old.status
    BY <1>2 DEF Decide, RowLocks
  <2>3. old \in Row /\ tx.at \in Time
    BY <2>2 DEF TypeOK, Transaction
  <2>4. event \in Event
    BY <2>2, <2>3 DEF Row, Event, Actor
  <2>5. /\ new.status = event.to
        /\ new.statusUpdatedAt = event.at
        /\ new.moderatedBy = IF event.to = "pending" THEN None ELSE event.actor
        /\ event.from = old.status
    <3> HIDE DEF old
    <3> QED  BY <2>2, <2>3 DEF Row
  <2>6. rows' = [rows EXCEPT ![tx.report] = new]
    BY <2>1
  <2>7. events' = [events EXCEPT ![tx.report] = Append(@, event)]
    BY <2>1
  <2> HIDE DEF new, event
  <2> QED
    BY <2>2, <2>4, <2>5, <2>6, <2>7, AuditedChange
<1>3. ASSUME NEW i \in Instance, RecordVerified(i)
      PROVE  AuditTrail'
  <2> DEFINE run == verifier[i]
             old == rows[run.report]
             new == [old EXCEPT !.score = run.score, !.corroborations = run.found.reports,
                                !.status = "verified", !.moderatedBy = ModeratedByAuto,
                                !.statusUpdatedAt = run.at]
             event == [from |-> "pending", to |-> "verified", actor |-> ModeratedByAuto,
                       at |-> run.at]
  <2>1. run.report \in DOMAIN rows /\ old.status = "pending"
    BY <1>3 DEF RecordVerified, Undecided
  <2>2. old \in Row /\ run.at \in Time
    BY <2>1 DEF TypeOK, VerifierRun
  <2>3. event \in Event
    BY <2>2 DEF Event, Status, Actor
  <2>4. /\ new.status = event.to
        /\ new.statusUpdatedAt = event.at
        /\ new.moderatedBy = IF event.to = "pending" THEN None ELSE event.actor
        /\ event.from = old.status
    <3> HIDE DEF old
    <3> QED  BY <2>1, <2>2 DEF Row
  <2>5. rows' = [rows EXCEPT ![run.report] = new]
    BY <1>3 DEF RecordVerified
  <2>6. events' = [events EXCEPT ![run.report] = Append(@, event)]
    BY <1>3 DEF RecordVerified
  <2> HIDE DEF new, event
  <2> QED
    BY <2>1, <2>3, <2>4, <2>5, <2>6, AuditedChange
<1>4. ASSUME NEW i \in Instance, RecordScore(i)
      PROVE  AuditTrail'
  <2>1. /\ DOMAIN rows' = DOMAIN rows
        /\ UNCHANGED events
        /\ \A s \in DOMAIN rows : /\ rows'[s].status = rows[s].status
                                  /\ rows'[s].moderatedBy = rows[s].moderatedBy
                                  /\ rows'[s].statusUpdatedAt = rows[s].statusUpdatedAt
    BY <1>4 DEF RecordScore, TypeOK, Row
  <2> QED
    BY <2>1 DEF AuditTrail, Explains
<1>5. CASE UNCHANGED <<rows, events>>
  BY <1>5 DEF AuditTrail
<1> QED
  BY <1>1, <1>2, <1>3, <1>4, <1>5
     DEF Next, vars, StoreStep, ModerationStep, VerifierStep, RecordStep, Tick, BeginStore,
         CheckDuplicate, AbortStore, PublishPhoto, BeginModeration, LockRow, AbortModeration, StartRun,
         GatherCorroborators, GatherHistory, RecordNothing, FinishRun, FailRun, LoseSession

-----------------------------------------------------------------------------
(* Row locks, and what the verifier holds.                                 *)

LEMMA RowLocksStep ==
    TypeOK /\ Chronology /\ RowLocks /\ [Next]_vars => RowLocks'
<1> SUFFICES ASSUME TypeOK, Chronology, RowLocks, [Next]_vars
             PROVE  RowLocks'
  OBVIOUS
<1>0. moderation \in [Moderator -> Transaction]
  BY DEF TypeOK
<1>1. ASSUME \A m \in Moderator : \/ moderation'[m] = moderation[m]
                                  \/ moderation'[m].current = None,
             \A m \in Moderator : moderation'[m].current # None =>
                /\ moderation[m].report \in DOMAIN rows'
                /\ rows'[moderation[m].report].status = rows[moderation[m].report].status
      PROVE  RowLocks'
  BY <1>1 DEF RowLocks
<1>2. ASSUME NEW r \in Report, InsertReport(r)
      PROVE  RowLocks'
  <2>1. r \notin DOMAIN rows
    BY <1>2 DEF InsertReport, Chronology
  <2>2. UNCHANGED moderation /\ \A s \in DOMAIN rows : s \in DOMAIN rows' /\ rows'[s] = rows[s]
    BY <1>2, <2>1 DEF InsertReport
  <2> QED
    BY <1>1, <2>2 DEF RowLocks
<1>3. ASSUME NEW m \in Moderator, NEW r \in Report, BeginModeration(m, r)
      PROVE  RowLocks'
  <2>1. moderation'[m].current = None /\ \A n \in Moderator \ {m} : moderation'[n] = moderation[n]
    BY <1>0, <1>3 DEF BeginModeration
  <2> QED
    BY <1>1, <1>3, <2>1 DEF BeginModeration, RowLocks
<1>4. ASSUME NEW m \in Moderator, LockRow(m)
      PROVE  RowLocks'
  <2> DEFINE r == moderation[m].report
  <2>1. moderation'[m].report = r /\ moderation'[m].current = rows[r].status
    BY <1>0, <1>4 DEF LockRow, Transaction
  <2>2. \A n \in Moderator \ {m} : moderation'[n] = moderation[n]
    BY <1>0, <1>4 DEF LockRow
  <2>3. \A n \in Moderator : moderation[n].report = r => moderation[n].current = None
    BY <1>4 DEF LockRow, RowLocked
  <2>4. r \in DOMAIN rows /\ UNCHANGED rows
    BY <1>4 DEF LockRow
  <2> HIDE DEF r
  <2> QED
    BY <2>1, <2>2, <2>3, <2>4 DEF RowLocks
<1>5. ASSUME NEW m \in Moderator, Decide(m)
      PROVE  RowLocks'
  <2> DEFINE r == moderation[m].report
  <2>1. moderation'[m].current = None /\ \A n \in Moderator \ {m} : moderation'[n] = moderation[n]
    BY <1>0, <1>5 DEF Decide, NoTransaction
  <2>2. moderation[m].current # None
    BY <1>5 DEF Decide
  <2>3. \A n \in Moderator \ {m} : moderation[n].current # None => moderation[n].report # r
    BY <2>2 DEF RowLocks
  <2>4. DOMAIN rows' = DOMAIN rows /\ \A s \in DOMAIN rows : s # r => rows'[s] = rows[s]
    BY <1>5 DEF Decide, TypeOK
  <2> HIDE DEF r
  <2> QED
    BY <1>1, <2>1, <2>3, <2>4 DEF RowLocks
<1>6. ASSUME NEW m \in Moderator, AbortModeration(m)
      PROVE  RowLocks'
  <2>1. moderation'[m].current = None /\ \A n \in Moderator \ {m} : moderation'[n] = moderation[n]
    BY <1>0, <1>6 DEF AbortModeration, NoTransaction
  <2> QED
    BY <1>1, <1>6, <2>1 DEF AbortModeration, RowLocks
<1>7. ASSUME NEW i \in Instance, RecordVerified(i) \/ RecordScore(i)
      PROVE  RowLocks'
  <2> DEFINE r == verifier[i].report
  <2>1. \A n \in Moderator : moderation[n].current # None => moderation[n].report # r
    BY <1>7 DEF RecordVerified, RecordScore, RowLocked
  <2>2. DOMAIN rows' = DOMAIN rows /\ \A s \in DOMAIN rows : s # r => rows'[s] = rows[s]
    BY <1>7 DEF RecordVerified, RecordScore, TypeOK
  <2>3. UNCHANGED moderation
    BY <1>7 DEF RecordVerified, RecordScore
  <2> HIDE DEF r
  <2> QED
    BY <1>1, <2>1, <2>2, <2>3 DEF RowLocks
<1>8. CASE UNCHANGED <<rows, moderation>>
  BY <1>8 DEF RowLocks
<1> QED
  BY <1>2, <1>3, <1>4, <1>5, <1>6, <1>7, <1>8
     DEF Next, vars, StoreStep, ModerationStep, VerifierStep, RecordStep, Tick, BeginStore,
         CheckDuplicate, AbortStore, PublishPhoto, StartRun, GatherCorroborators, GatherHistory, RecordNothing,
         FinishRun, FailRun, LoseSession

LEMMA VerifierTargetsStep ==
    TypeOK /\ Chronology /\ VerifierTargets /\ [Next]_vars => VerifierTargets'
<1> SUFFICES ASSUME TypeOK, Chronology, VerifierTargets, [Next]_vars
             PROVE  VerifierTargets'
  OBVIOUS
<1> DEFINE Held(i) == verifier[i].todo \cup {verifier[i].report}
<1>0. verifier \in [Instance -> VerifierRun]
  BY DEF TypeOK
<1>1. RowsGrow
  BY RowsGrowStep
<1>2. \A i \in Instance : \A r \in Held(i) :
          r # None => r \in DOMAIN rows' /\ rows'[r].duplicateOf = None
  BY <1>1 DEF RowsGrow, VerifierTargets
<1>3. ASSUME \A i \in Instance :
                 /\ verifier'[i].todo \subseteq Held(i)
                 /\ verifier'[i].report \in Held(i) \cup {None}
      PROVE  VerifierTargets'
  BY <1>2, <1>3 DEF VerifierTargets
<1>4. ASSUME NEW i \in Instance, StartRun(i)
      PROVE  VerifierTargets'
  <2>1. PICK batch \in Newest(Pending, VerifyBatch) :
            verifier' = [verifier EXCEPT ![i] = [IdleRun EXCEPT !.pc = "next", !.todo = batch]]
    BY <1>4, Zenon DEF StartRun
  <2>2. batch \subseteq Pending
    BY DEF Newest
  <2>3. \A r \in batch : r \in DOMAIN rows /\ rows[r].duplicateOf = None
    BY <2>2 DEF Pending, Scored
  <2>4. verifier'[i].todo = batch /\ verifier'[i].report = None
    BY <1>0, <2>1 DEF IdleRun
  <2>5. \A j \in Instance \ {i} : verifier'[j] = verifier[j]
    BY <1>0, <2>1
  <2>6. UNCHANGED rows
    BY <1>4 DEF StartRun
  <2> QED
    BY <2>3, <2>4, <2>5, <2>6 DEF VerifierTargets
<1>5. ASSUME NEW i \in Instance, GatherCorroborators(i)
      PROVE  VerifierTargets'
  <2>1. PICK r \in verifier[i].todo :
            verifier' = [verifier EXCEPT ![i] =
              [@ EXCEPT !.pc = "history", !.todo = verifier[i].todo \ {r}, !.report = r,
                        !.found = Count(Corroborators(r))]]
    BY <1>5, Zenon DEF GatherCorroborators
  <2>2. verifier'[i].todo = verifier[i].todo \ {r} /\ verifier'[i].report = r
    BY <1>0, <2>1 DEF VerifierRun
  <2>3. \A j \in Instance \ {i} : verifier'[j] = verifier[j]
    BY <1>0, <2>1
  <2> QED
    BY <1>3, <2>2, <2>3
<1>6. ASSUME NEW i \in Instance, GatherHistory(i)
      PROVE  VerifierTargets'
  <2>1. verifier'[i].todo = verifier[i].todo /\ verifier'[i].report = verifier[i].report
    BY <1>0, <1>6 DEF GatherHistory, VerifierRun
  <2>2. \A j \in Instance \ {i} : verifier'[j] = verifier[j]
    BY <1>0, <1>6 DEF GatherHistory
  <2> QED
    BY <1>3, <2>1, <2>2
<1>7. ASSUME NEW i \in Instance, NextReport(i)
      PROVE  VerifierTargets'
  <2>1. verifier'[i].todo = verifier[i].todo /\ verifier'[i].report = None
    BY <1>0, <1>7 DEF NextReport, VerifierRun
  <2>2. \A j \in Instance \ {i} : verifier'[j] = verifier[j]
    BY <1>0, <1>7 DEF NextReport
  <2> QED
    BY <1>3, <2>1, <2>2
<1>8. ASSUME NEW i \in Instance, FinishRun(i) \/ FailRun(i)
      PROVE  VerifierTargets'
  <2>1. verifier'[i].todo = {} /\ verifier'[i].report = None
    BY <1>0, <1>8 DEF FinishRun, FailRun, IdleRun
  <2>2. \A j \in Instance \ {i} : verifier'[j] = verifier[j]
    BY <1>0, <1>8 DEF FinishRun, FailRun
  <2> QED
    BY <1>3, <2>1, <2>2
<1>9. CASE UNCHANGED verifier
  BY <1>3, <1>9
<1> QED
  BY <1>4, <1>5, <1>6, <1>7, <1>8, <1>9
     DEF Next, vars, StoreStep, ModerationStep, VerifierStep, RecordStep, Tick, BeginStore,
         CheckDuplicate, InsertReport, AbortStore, PublishPhoto, BeginModeration, LockRow, Decide,
         AbortModeration, RecordVerified, RecordScore, RecordNothing, LoseSession

-----------------------------------------------------------------------------
(* The theorems.                                                           *)

LEMMA InvInit == Init => Inv
<1> SUFFICES ASSUME Init PROVE Inv
  OBVIOUS
<1>1. TypeOK
  BY TypeInit
<1>2. Chronology /\ FlatDuplicates /\ AuditTrail
  BY DEF Init, Chronology, FlatDuplicates, AuditTrail
<1>3. RowLocks
  BY DEF Init, RowLocks, NoTransaction
<1>4. VerifierTargets
  BY DEF Init, VerifierTargets, IdleRun
<1> QED
  BY <1>1, <1>2, <1>3, <1>4 DEF Inv

LEMMA InvStep == Inv /\ [Next]_vars => Inv'
BY TypeStep, ChronologyStep, FlatDuplicatesStep, AuditTrailStep, RowLocksStep,
   VerifierTargetsStep DEF Inv

(* Inv holds in every reachable state. *)
THEOREM Invariance == Spec => []Inv
<1>1. Init => Inv
  BY InvInit
<1>2. Inv /\ [Next]_vars => Inv'
  BY InvStep
<1> QED
  BY <1>1, <1>2, PTL DEF Spec

(* duplicate_of always names another stored report that is no duplicate,   *)
(* however many requests, moderators and verifier runs interleave; it may    *)
(* be the younger one of the two (FindDuplicate takes the absolute age).     *)
THEOREM DuplicatesAreFlat == Spec => []FlatDuplicates
<1>1. Inv => FlatDuplicates
  BY DEF Inv
<1> QED
  BY <1>1, Invariance, PTL

(* The log of every report chains from 'pending' to its current status and  *)
(* names who decided it.                                                    *)
THEOREM AuditTrailCorrect == Spec => []AuditTrail
<1>1. Inv => AuditTrail
  BY DEF Inv
<1> QED
  BY <1>1, Invariance, PTL

(* What a moderator verified or rejected is never taken over by the         *)
(* verifier: it is not possible in one step, whatever was read before.      *)
THEOREM ModeratorsHaveTheLastWord == Spec => ModeratorDecisionsFinal
<1> DEFINE Final == \A r \in DOMAIN rows :
                rows[r].moderatedBy \in Moderator => rows'[r].moderatedBy # ModeratedByAuto
<1>1. ASSUME Inv, [Next]_vars PROVE Final
  <2> SUFFICES ASSUME NEW r \in DOMAIN rows, rows[r].moderatedBy \in Moderator
               PROVE  rows'[r].moderatedBy # ModeratedByAuto
    OBVIOUS
  <2>0. /\ TypeOK /\ Chronology
        /\ rows[r] \in Row
    BY <1>1 DEF Inv, TypeOK
  <2>1. rows[r].moderatedBy # ModeratedByAuto /\ rows[r].moderatedBy # None
    BY NameAssumption
  <2>2. ASSUME NEW q \in Report, InsertReport(q)
        PROVE  rows'[r] = rows[r]
    BY <2>0, <2>2 DEF InsertReport, Chronology
  <2>3. ASSUME NEW m \in Moderator, Decide(m)
        PROVE  rows'[r].moderatedBy \in {rows[r].moderatedBy, None, m}
    <3>1. PICK status \in Status, notDuplicate \in BOOLEAN :
              rows' = [rows EXCEPT ![moderation[m].report] =
                  [@ EXCEPT !.status = status,
                            !.moderatedBy = IF status = "pending" THEN None ELSE m,
                            !.statusUpdatedAt = moderation[m].at,
                            !.duplicateOf = IF notDuplicate THEN None
                                            ELSE rows[moderation[m].report].duplicateOf]]
      BY <2>3, Zenon DEF Decide
    <3> QED
      BY <2>0, <3>1 DEF Row
  <2>4. ASSUME NEW i \in Instance, RecordVerified(i)
        PROVE  rows'[r] = rows[r]
    BY <2>0, <2>1, <2>4 DEF RecordVerified, Undecided
  <2>5. ASSUME NEW i \in Instance, RecordScore(i)
        PROVE  rows'[r].moderatedBy = rows[r].moderatedBy
    BY <2>0, <2>5 DEF RecordScore, Row
  <2>6. CASE UNCHANGED rows
    BY <2>1, <2>6
  <2> QED
    BY <1>1, <2>1, <2>2, <2>3, <2>4, <2>5, <2>6, NameAssumption
       DEF Next, vars, StoreStep, ModerationStep, VerifierStep, RecordStep, Tick, BeginStore,
           CheckDuplicate, AbortStore, PublishPhoto, BeginModeration, LockRow, AbortModeration, StartRun,
           GatherCorroborators, GatherHistory, RecordNothing, FinishRun, FailRun, LoseSession
<1>2. Inv /\ [Next]_vars => [Final]_vars
  BY <1>1
<1>3. Spec => [][Final]_vars
  BY <1>2, Invariance, PTL DEF Spec
<1> QED
  BY <1>3 DEF ModeratorDecisionsFinal

-----------------------------------------------------------------------------
(* What verifies a report automatically.                                    *)

(* Another account reported it too; or the reporter is trusted and has a     *)
(* photo of it.                                                             *)
Witnessed(r) ==
    \E o \in DOMAIN rows \ {r} :
        /\ rows[o].content.account \notin {None, rows[r].content.account}
        /\ rows[o].content.group = rows[r].content.group
        /\ Distance(rows[o].content, rows[r].content) <= CorroborationRadius

Trusted(r) ==
    /\ r \in photoReady
    /\ \E h \in DOMAIN rows \ {r} :
          rows[h].content.account = rows[r].content.account /\ HumanVerified(h)

Evidenced(r) == Witnessed(r) \/ Trusted(r)

(* The evidence outlives the queries that found it: what a run carries from  *)
(* one of its statements to the next was true once and stays true.           *)
EvidenceInv ==
    /\ \A r \in DOMAIN rows : rows[r].moderatedBy = ModeratedByAuto =>
          rows[r].score >= AutoVerifyScore /\ Evidenced(r)
    /\ \A i \in Instance :
          /\ verifier[i].pc \in {"history", "record"} => verifier[i].report \in DOMAIN rows
          /\ verifier[i].pc = "history" /\ verifier[i].found.accounts > 0
                => Witnessed(verifier[i].report)
          /\ verifier[i].pc = "record" /\ verifier[i].score >= AutoVerifyScore
                => Evidenced(verifier[i].report)

(* Without another account, 50 points need a photo and a verified report:    *)
(* without the one or the other, 45 is all there is.                         *)
LEMMA ScoreNeedsEvidence ==
    ASSUME NEW e, e.independent = 0, e.verified \in Nat, e.rejected \in Nat,
           VerificationScore(e) >= AutoVerifyScore
    PROVE  e.photo /\ e.verified > 0
<1> DEFINE corroboration == AtMost(50, 25 * e.independent + (IF e.anonymous THEN 15 ELSE 0))
           photo == IF e.photo THEN 20 ELSE 0
           signed == IF e.signedIn THEN 10 ELSE 0
           history == AtMost(20, 10 * e.verified)
           score == corroboration + photo + signed + history - 25 * e.rejected
<1>1. corroboration \in 0 .. 15
  BY DEF AtMost
<1>2. history \in 0 .. 20 /\ (e.verified = 0 => history = 0)
  BY DEF AtMost
<1>3. signed \in 0 .. 10
  OBVIOUS
<1>4. photo \in 0 .. 20 /\ (~ e.photo => photo = 0)
  OBVIOUS
<1>5. VerificationScore(e) = Clamp(score)
  BY DEF VerificationScore
<1>6. PICK k \in Nat : k = e.rejected
  OBVIOUS
<1>7. score = corroboration + photo + signed + history - 25 * k
  BY <1>6
<1> HIDE DEF corroboration, photo, signed, history
<1>8. score \in Int
  BY <1>1, <1>2, <1>3, <1>4, <1>7
<1>9. score >= 50
  <2> HIDE DEF score
  <2> QED  BY <1>5, <1>8 DEF Clamp, AtMost, AutoVerifyScore
<1>10. photo # 0 /\ history # 0
  BY <1>1, <1>2, <1>3, <1>4, <1>7, <1>9
<1> QED
  BY <1>2, <1>4, <1>10

(* What gatherEvidence counts was there.                                    *)
LEMMA CountedWitness ==
    ASSUME TypeOK, NEW r \in DOMAIN rows, Count(Corroborators(r)).accounts # 0
    PROVE  Witnessed(r)
<1>1. Count(Corroborators(r)).accounts = Cardinality(Accounts(Corroborators(r)))
  BY DEF Count
<1>2. Accounts(Corroborators(r)) # {}
  BY <1>1, FS_EmptySet
<1>3. PICK o \in Corroborators(r) : rows[o].content.account # None
  BY <1>2 DEF Accounts
<1>4. /\ o \in DOMAIN rows \ {r}
      /\ rows[o].content.group = rows[r].content.group
      /\ Distance(rows[o].content, rows[r].content) <= CorroborationRadius
      /\ Independent(o, r)
  BY <1>3 DEF Corroborators
<1>5. rows[o].content.account # rows[r].content.account
  BY <1>3, <1>4 DEF Independent
<1> QED
  BY <1>3, <1>4, <1>5 DEF Witnessed

LEMMA CountedHistory ==
    ASSUME TypeOK, AuditTrail, NEW r \in DOMAIN rows, Cardinality(History(r, "verified")) # 0
    PROVE  \E h \in DOMAIN rows \ {r} :
              rows[h].content.account = rows[r].content.account /\ HumanVerified(h)
<1>1. History(r, "verified") # {}
  BY FS_EmptySet
<1>2. PICK h \in History(r, "verified") : TRUE
  BY <1>1
<1>3. /\ h \in DOMAIN rows \ {r} /\ rows[h].content.account = rows[r].content.account
      /\ rows[h].status = "verified" /\ rows[h].moderatedBy \notin {None, ModeratedByAuto}
  BY <1>2 DEF History
<1>4. events[h] \in Seq(Event) /\ rows[h].moderatedBy \in Actor \cup {None}
  BY <1>3 DEF TypeOK, Row
<1>5. rows[h].moderatedBy \in Moderator
  BY <1>3, <1>4 DEF Actor
<1>6. Explains(events[h], rows[h])
  BY <1>3 DEF AuditTrail
<1>7. events[h] # <<>>
  BY <1>3, <1>6 DEF Explains
<1>8. PICK n : n = Len(events[h])
  OBVIOUS
<1>9. n \in 1 .. n /\ DOMAIN events[h] = 1 .. n
  BY <1>4, <1>7, <1>8, EmptySeq, LenProperties
<1>10. events[h][n].to = "verified" /\ events[h][n].actor \in Moderator
  BY <1>3, <1>5, <1>6, <1>7, <1>8 DEF Explains
<1>11. HumanVerified(h)
  BY <1>8, <1>9, <1>10 DEF HumanVerified
<1> QED
  BY <1>3, <1>11

(* Reports keep their content, logs only grow, and photos stay.              *)
LogsGrow ==
    \A r \in Report : \A k \in 1 .. Len(events[r]) :
        k \in 1 .. Len(events'[r]) /\ events'[r][k] = events[r][k]

LEMMA LogsGrowStep == TypeOK /\ [Next]_vars => LogsGrow
<1> SUFFICES ASSUME TypeOK, [Next]_vars PROVE LogsGrow
  OBVIOUS
<1>1. \A r \in Report : events[r] \in Seq(Event)
  BY DEF TypeOK
<1>2. ASSUME NEW r, NEW e \in Event, events' = [events EXCEPT ![r] = Append(@, e)]
      PROVE  LogsGrow
  <2>1. \A s \in Report : events'[s] = events[s] \/ events'[s] = Append(events[s], e)
    BY <1>2 DEF TypeOK
  <2>2. ASSUME NEW s \in Report, NEW k \in 1 .. Len(events[s])
        PROVE  k \in 1 .. Len(events'[s]) /\ events'[s][k] = events[s][k]
    <3>1. Len(events[s]) \in Nat
      BY <1>1, LenProperties
    <3>2. CASE events'[s] = Append(events[s], e)
      BY <1>1, <3>1, <3>2, AppendProperties
    <3>3. CASE events'[s] = events[s]
      BY <3>3
    <3> QED
      BY <2>1, <3>2, <3>3
  <2> QED
    BY <2>2 DEF LogsGrow
<1>3. ASSUME NEW m \in Moderator, Decide(m)
      PROVE  LogsGrow
  <2>1. PICK status \in Status :
            events' = [events EXCEPT ![moderation[m].report] =
                Append(@, [from |-> moderation[m].current, to |-> status, actor |-> m,
                           at |-> moderation[m].at])]
    BY <1>3, Zenon DEF Decide
  <2>2. moderation[m] \in Transaction /\ moderation[m].current # None
    BY <1>3 DEF TypeOK, Decide
  <2>3. [from |-> moderation[m].current, to |-> status, actor |-> m, at |-> moderation[m].at] \in Event
    BY <2>2 DEF Transaction, Event, Actor
  <2> QED
    BY <1>2, <2>1, <2>3
<1>4. ASSUME NEW i \in Instance, RecordVerified(i)
      PROVE  LogsGrow
  <2>1. events' = [events EXCEPT ![verifier[i].report] =
            Append(@, [from |-> "pending", to |-> "verified", actor |-> ModeratedByAuto,
                       at |-> verifier[i].at])]
    BY <1>4 DEF RecordVerified
  <2>2. verifier[i].at \in Time
    BY DEF TypeOK, VerifierRun
  <2>3. [from |-> "pending", to |-> "verified", actor |-> ModeratedByAuto, at |-> verifier[i].at]
          \in Event
    BY <2>2 DEF Event, Status, Actor
  <2> QED
    BY <1>2, <2>1, <2>3
<1>5. CASE UNCHANGED events
  BY <1>5 DEF LogsGrow
<1> QED
  BY <1>3, <1>4, <1>5
     DEF Next, vars, StoreStep, ModerationStep, VerifierStep, RecordStep, Tick, BeginStore,
         CheckDuplicate, InsertReport, AbortStore, PublishPhoto, BeginModeration, LockRow, AbortModeration,
         StartRun, GatherCorroborators, GatherHistory, RecordScore, RecordNothing, FinishRun,
         FailRun, LoseSession

LEMMA EvidenceStays ==
    ASSUME TypeOK, RowsGrow, LogsGrow, photoReady \subseteq photoReady', NEW r \in DOMAIN rows
    PROVE  /\ r \in DOMAIN rows'
           /\ Witnessed(r) => Witnessed(r)'
           /\ Evidenced(r) => Evidenced(r)'
<1>1. \A s \in DOMAIN rows : s \in DOMAIN rows' /\ rows'[s].content = rows[s].content
  BY DEF RowsGrow
<1>2. ASSUME Witnessed(r) PROVE Witnessed(r)'
  <2>1. PICK o \in DOMAIN rows \ {r} :
          /\ rows[o].content.account \notin {None, rows[r].content.account}
          /\ rows[o].content.group = rows[r].content.group
          /\ Distance(rows[o].content, rows[r].content) <= CorroborationRadius
    BY <1>2 DEF Witnessed
  <2>2. o \in DOMAIN rows' \ {r} /\ rows'[o].content = rows[o].content
        /\ rows'[r].content = rows[r].content
    BY <1>1
  <2> QED
    BY <2>1, <2>2 DEF Witnessed
<1>3. ASSUME Trusted(r) PROVE Trusted(r)'
  <2>1. PICK h \in DOMAIN rows \ {r} :
          rows[h].content.account = rows[r].content.account /\ HumanVerified(h)
    BY <1>3 DEF Trusted
  <2>2. h \in DOMAIN rows' \ {r} /\ rows'[h].content.account = rows'[r].content.account
    BY <1>1, <2>1
  <2>3. HumanVerified(h)'
    BY <2>1 DEF HumanVerified, LogsGrow, TypeOK
  <2>4. r \in photoReady'
    BY <1>3 DEF Trusted
  <2> QED
    BY <2>2, <2>3, <2>4 DEF Trusted
<1> QED
  BY <1>1, <1>2, <1>3 DEF Evidenced

LEMMA PhotosStay == [Next]_vars => photoReady \subseteq photoReady'
BY DEF Next, vars, StoreStep, ModerationStep, VerifierStep, RecordStep, Tick, BeginStore,
       CheckDuplicate, InsertReport, AbortStore, PublishPhoto, BeginModeration, LockRow, Decide, AbortModeration,
       StartRun, GatherCorroborators, GatherHistory, RecordVerified, RecordScore, RecordNothing,
       FinishRun, FailRun, LoseSession

(* A step decides at most one report, and the verifier decides none but the  *)
(* one whose evidence it holds.                                             *)
LEMMA EvidencedRows ==
    ASSUME Inv, EvidenceInv, [Next]_vars
    PROVE  \A r \in DOMAIN rows' : rows'[r].moderatedBy = ModeratedByAuto =>
              /\ rows'[r].score >= AutoVerifyScore
              /\ r \in DOMAIN rows /\ Evidenced(r)
<1>0. TypeOK /\ Chronology /\ rows \in [DOMAIN rows -> Row]
  BY DEF Inv, TypeOK
<1>1. SUFFICES ASSUME NEW r \in DOMAIN rows', rows'[r].moderatedBy = ModeratedByAuto
               PROVE  rows'[r].score >= AutoVerifyScore /\ r \in DOMAIN rows /\ Evidenced(r)
  OBVIOUS
<1>2. CASE r \in DOMAIN rows /\ rows'[r].moderatedBy = rows[r].moderatedBy
           /\ rows'[r].score = rows[r].score
  BY <1>1, <1>2 DEF EvidenceInv
<1>3. ASSUME NEW q \in Report, InsertReport(q)
      PROVE  r \in DOMAIN rows /\ rows'[r] = rows[r]
  <2>1. DOMAIN rows' = DOMAIN rows \cup {q} /\ rows'[q].moderatedBy = None
        /\ \A s \in DOMAIN rows \ {q} : rows'[s] = rows[s]
    BY <1>3 DEF InsertReport
  <2> QED
    BY <1>1, <2>1, NameAssumption
<1>4. ASSUME NEW m \in Moderator, Decide(m)
      PROVE  r \in DOMAIN rows /\ rows'[r] = rows[r]
  <2>1. PICK status \in Status, notDuplicate \in BOOLEAN :
            rows' = [rows EXCEPT ![moderation[m].report] =
                [@ EXCEPT !.status = status,
                          !.moderatedBy = IF status = "pending" THEN None ELSE m,
                          !.statusUpdatedAt = moderation[m].at,
                          !.duplicateOf = IF notDuplicate THEN None
                                          ELSE rows[moderation[m].report].duplicateOf]]
    BY <1>4, Zenon DEF Decide
  <2>2. r \in DOMAIN rows
    BY <2>1
  <2>3. CASE r = moderation[m].report
    <3>1. rows'[r].moderatedBy \in {None, m}
      BY <1>0, <2>1, <2>2, <2>3 DEF Row
    <3> QED
      BY <1>1, <3>1, NameAssumption
  <2>4. CASE r # moderation[m].report
    BY <2>1, <2>2, <2>4
  <2> QED
    BY <2>2, <2>3, <2>4
<1>5. ASSUME NEW i \in Instance, RecordVerified(i)
      PROVE  rows'[r].score >= AutoVerifyScore /\ r \in DOMAIN rows /\ Evidenced(r)
  <2>1. PICK run : run = verifier[i]
    OBVIOUS
  <2>2. /\ run.pc = "record" /\ run.score >= AutoVerifyScore
        /\ rows' = [rows EXCEPT ![run.report] =
             [@ EXCEPT !.score = run.score, !.corroborations = run.found.reports,
                       !.status = "verified", !.moderatedBy = ModeratedByAuto,
                       !.statusUpdatedAt = run.at]]
    BY <1>5, <2>1 DEF RecordVerified
  <2>3. r \in DOMAIN rows
    BY <2>2
  <2>4. CASE r = run.report
    <3>1. rows'[r].score = run.score
      BY <1>0, <2>2, <2>3, <2>4 DEF Row
    <3>2. Evidenced(r)
      BY <2>1, <2>2, <2>4 DEF EvidenceInv
    <3> QED
      BY <2>2, <2>3, <3>1, <3>2
  <2>5. CASE r # run.report
    <3>1. rows'[r] = rows[r]
      BY <2>2, <2>3, <2>5
    <3> QED
      BY <1>1, <2>3, <3>1 DEF EvidenceInv
  <2> QED
    BY <2>4, <2>5
<1>6. ASSUME NEW i \in Instance, RecordScore(i)
      PROVE  r \in DOMAIN rows /\ rows'[r] = rows[r]
  <2>1. PICK run : run = verifier[i]
    OBVIOUS
  <2>2. /\ rows[run.report].moderatedBy = None /\ run.report \in DOMAIN rows
        /\ rows' = [rows EXCEPT ![run.report] =
             [@ EXCEPT !.score = run.score, !.corroborations = run.found.reports]]
    BY <1>6, <2>1 DEF RecordScore, Undecided
  <2>3. rows'[run.report].moderatedBy = None
    BY <1>0, <2>2 DEF Row
  <2> QED
    BY <1>1, <2>2, <2>3, NameAssumption
<1>7. CASE UNCHANGED rows
  BY <1>1, <1>7 DEF EvidenceInv
<1> QED
  BY <1>2, <1>3, <1>4, <1>5, <1>6, <1>7
     DEF Next, vars, StoreStep, ModerationStep, VerifierStep, RecordStep, Tick, BeginStore,
         CheckDuplicate, AbortStore, PublishPhoto, BeginModeration, LockRow, AbortModeration, StartRun,
         GatherCorroborators, GatherHistory, RecordNothing, FinishRun, FailRun, LoseSession

(* The part of EvidenceInv about the verifiers, in the state before the step. *)
LEMMA EvidencedRuns ==
    ASSUME Inv, EvidenceInv, [Next]_vars
    PROVE  \A i \in Instance :
              /\ verifier'[i].pc \in {"history", "record"} => verifier'[i].report \in DOMAIN rows
              /\ verifier'[i].pc = "history" /\ verifier'[i].found.accounts > 0
                    => Witnessed(verifier'[i].report)
              /\ verifier'[i].pc = "record" /\ verifier'[i].score >= AutoVerifyScore
                    => Evidenced(verifier'[i].report)
<1>0. TypeOK /\ AuditTrail /\ VerifierTargets /\ verifier \in [Instance -> VerifierRun]
  BY DEF Inv, TypeOK
<1>1. ASSUME NEW i \in Instance, verifier'[i].pc \notin {"history", "record"},
             \A j \in Instance \ {i} : verifier'[j] = verifier[j]
      PROVE  \A j \in Instance :
              /\ verifier'[j].pc \in {"history", "record"} => verifier'[j].report \in DOMAIN rows
              /\ verifier'[j].pc = "history" /\ verifier'[j].found.accounts > 0
                    => Witnessed(verifier'[j].report)
              /\ verifier'[j].pc = "record" /\ verifier'[j].score >= AutoVerifyScore
                    => Evidenced(verifier'[j].report)
  BY <1>1 DEF EvidenceInv
<1>2. ASSUME NEW i \in Instance, StartRun(i)
      PROVE  verifier'[i].pc \notin {"history", "record"} /\ \A j \in Instance \ {i} : verifier'[j] = verifier[j]
  <2>1. PICK batch : verifier' = [verifier EXCEPT ![i] = [IdleRun EXCEPT !.pc = "next", !.todo = batch]]
    BY <1>2, Zenon DEF StartRun
  <2> QED
    BY <1>0, <2>1 DEF IdleRun
<1>3. ASSUME NEW i \in Instance, GatherCorroborators(i)
      PROVE  /\ verifier'[i].pc = "history" /\ verifier'[i].report \in DOMAIN rows
             /\ verifier'[i].found.accounts > 0 => Witnessed(verifier'[i].report)
             /\ \A j \in Instance \ {i} : verifier'[j] = verifier[j]
  <2>1. PICK r \in verifier[i].todo :
            verifier' = [verifier EXCEPT ![i] =
              [@ EXCEPT !.pc = "history", !.todo = verifier[i].todo \ {r}, !.report = r,
                        !.found = Count(Corroborators(r))]]
    BY <1>3, Zenon DEF GatherCorroborators
  <2>2. PICK found : found = Count(Corroborators(r))
    OBVIOUS
  <2>3. /\ verifier'[i].pc = "history" /\ verifier'[i].report = r /\ verifier'[i].found = found
        /\ \A j \in Instance \ {i} : verifier'[j] = verifier[j]
    BY <1>0, <2>1, <2>2 DEF VerifierRun
  <2>4. r \in Report
    BY <1>0 DEF VerifierRun
  <2>5. r \in DOMAIN rows
    BY <1>0, <2>4, NameAssumption DEF VerifierTargets
  <2>6. found.accounts > 0 => Witnessed(r)
    BY <1>0, <2>2, <2>5, CountedWitness
  <2> QED
    BY <2>3, <2>5, <2>6
<1>4. ASSUME NEW i \in Instance, GatherHistory(i)
      PROVE  /\ verifier'[i].pc = "record" /\ verifier'[i].report \in DOMAIN rows
             /\ verifier'[i].score >= AutoVerifyScore => Evidenced(verifier'[i].report)
             /\ \A j \in Instance \ {i} : verifier'[j] = verifier[j]
  <2>1. PICK r : r = verifier[i].report
    OBVIOUS
  <2>2. PICK found : found = verifier[i].found
    OBVIOUS
  <2>3. verifier[i].pc = "history" /\ r \in DOMAIN rows /\ (found.accounts > 0 => Witnessed(r))
    BY <1>4, <2>1, <2>2 DEF GatherHistory, EvidenceInv
  <2>4. found \in Found /\ found.accounts \in Nat
    BY <1>0, <2>2 DEF VerifierRun, Found
  <2>5. PICK e : e = Evidence(r, found)
    OBVIOUS
  <2>6. PICK s : s = VerificationScore(e)
    OBVIOUS
  <2>7. /\ verifier'[i].pc = "record" /\ verifier'[i].report = r /\ verifier'[i].score = s
        /\ \A j \in Instance \ {i} : verifier'[j] = verifier[j]
    BY <1>0, <1>4, <2>1, <2>2, <2>3, <2>5, <2>6 DEF GatherHistory, VerifierRun
  <2>8. ASSUME s >= AutoVerifyScore, found.accounts = 0 PROVE Evidenced(r)
    <3>1. r \in Report
      BY <1>0, <2>3 DEF TypeOK
    <3>2. Cardinality(History(r, "verified")) \in Nat /\ Cardinality(History(r, "rejected")) \in Nat
      BY <1>0, <3>1, HistoryType DEF Status
    <3>3. /\ e.independent = 0 /\ (e.photo => r \in photoReady)
          /\ e.verified = Cardinality(History(r, "verified"))
          /\ e.rejected = Cardinality(History(r, "rejected"))
      BY <2>5, <2>8 DEF Evidence
    <3>4. e.photo /\ e.verified > 0
      BY <2>6, <2>8, <3>2, <3>3, ScoreNeedsEvidence
    <3>5. r \in photoReady
      BY <3>3, <3>4
    <3>6. Cardinality(History(r, "verified")) # 0
      <4>1. PICK n : n = Cardinality(History(r, "verified"))
        OBVIOUS
      <4>2. n > 0
        BY <3>3, <3>4, <4>1
      <4> QED
        BY <4>1, <4>2
    <3> QED
      BY <1>0, <2>3, <3>5, <3>6, CountedHistory DEF Evidenced, Trusted
  <2>9. s >= AutoVerifyScore => Evidenced(r)
    BY <2>3, <2>4, <2>8 DEF Evidenced
  <2> QED
    BY <2>3, <2>7, <2>9
<1>5. ASSUME NEW i \in Instance, NextReport(i)
      PROVE  verifier'[i].pc \notin {"history", "record"} /\ \A j \in Instance \ {i} : verifier'[j] = verifier[j]
  BY <1>0, <1>5 DEF NextReport, VerifierRun
<1>6. ASSUME NEW i \in Instance, FinishRun(i) \/ FailRun(i)
      PROVE  verifier'[i].pc \notin {"history", "record"} /\ \A j \in Instance \ {i} : verifier'[j] = verifier[j]
  BY <1>0, <1>6 DEF FinishRun, FailRun, IdleRun
<1>7. CASE \E i \in Instance : StartRun(i)
  BY <1>1, <1>2, <1>7
<1>8. CASE \E i \in Instance : GatherCorroborators(i)
  BY <1>3, <1>8 DEF EvidenceInv
<1>9. CASE \E i \in Instance : GatherHistory(i)
  BY <1>4, <1>9 DEF EvidenceInv
<1>10. CASE \E i \in Instance : NextReport(i)
  BY <1>1, <1>5, <1>10
<1>11. CASE \E i \in Instance : FinishRun(i) \/ FailRun(i)
  BY <1>1, <1>6, <1>11
<1>12. CASE UNCHANGED verifier
  BY <1>12 DEF EvidenceInv
<1> QED
  BY <1>7, <1>8, <1>9, <1>10, <1>11, <1>12
     DEF Next, vars, StoreStep, ModerationStep, VerifierStep, RecordStep, Tick, BeginStore,
         CheckDuplicate, InsertReport, AbortStore, PublishPhoto, BeginModeration, LockRow, Decide,
         AbortModeration, RecordVerified, RecordScore, RecordNothing, LoseSession

LEMMA EvidenceStep == ASSUME Inv, EvidenceInv, [Next]_vars PROVE EvidenceInv'
<1>1. TypeOK /\ RowsGrow /\ LogsGrow /\ photoReady \subseteq photoReady'
  BY RowsGrowStep, LogsGrowStep, PhotosStay DEF Inv
<1>2. \A r \in DOMAIN rows : /\ r \in DOMAIN rows'
                             /\ Witnessed(r) => Witnessed(r)'
                             /\ Evidenced(r) => Evidenced(r)'
  BY <1>1, EvidenceStays
<1>3. \A r \in DOMAIN rows' : rows'[r].moderatedBy = ModeratedByAuto =>
          rows'[r].score >= AutoVerifyScore /\ Evidenced(r)'
  BY <1>2, EvidencedRows
<1>4. ASSUME NEW i \in Instance
      PROVE  /\ verifier'[i].pc \in {"history", "record"} => verifier'[i].report \in DOMAIN rows'
             /\ verifier'[i].pc = "history" /\ verifier'[i].found.accounts > 0
                   => Witnessed(verifier[i].report)'
             /\ verifier'[i].pc = "record" /\ verifier'[i].score >= AutoVerifyScore
                   => Evidenced(verifier[i].report)'
  <2>1. PICK r : r = verifier'[i].report
    OBVIOUS
  <2>2. /\ verifier'[i].pc \in {"history", "record"} => r \in DOMAIN rows
        /\ verifier'[i].pc = "history" /\ verifier'[i].found.accounts > 0 => Witnessed(r)
        /\ verifier'[i].pc = "record" /\ verifier'[i].score >= AutoVerifyScore => Evidenced(r)
    BY <2>1, EvidencedRuns
  <2>3. /\ verifier'[i].pc \in {"history", "record"} => r \in DOMAIN rows'
        /\ verifier'[i].pc = "history" /\ verifier'[i].found.accounts > 0 => Witnessed(r)'
        /\ verifier'[i].pc = "record" /\ verifier'[i].score >= AutoVerifyScore => Evidenced(r)'
    BY <1>2, <2>2
  <2>4. Witnessed(r)' => Witnessed(verifier[i].report)'
    BY <2>1 DEF Witnessed
  <2>5. Evidenced(r)' => Evidenced(verifier[i].report)'
    BY <2>1, <2>4 DEF Evidenced, Trusted
  <2> QED
    BY <2>1, <2>3, <2>4, <2>5
<1> QED
  BY <1>3, <1>4 DEF EvidenceInv

(* No report is verified automatically on its own account: the score counts *)
(* reports of other accounts, or a photo and a report of the same account    *)
(* that a moderator verified, and what was counted does not go away before   *)
(* the verdict is recorded (workers/verifier.go gatherEvidence, record;      *)
(* services/curation.go VerificationScore).                                  *)
THEOREM AutoVerifiedAlwaysOnEvidence == Spec => []AutoVerifiedOnEvidence
<1>1. Init => EvidenceInv
  BY DEF Init, EvidenceInv, IdleRun
<1>2. Inv /\ EvidenceInv /\ [Next]_vars => EvidenceInv'
  BY EvidenceStep
<1>3. EvidenceInv => AutoVerifiedOnEvidence
  BY DEF EvidenceInv, Evidenced, Witnessed, Trusted, AutoVerifiedOnEvidence
<1> QED
  BY <1>1, <1>2, <1>3, Invariance, PTL DEF Spec

-----------------------------------------------------------------------------
(* The refinement of ReportLifecycle.                                      *)

(* An update of one row updates the life of its report. *)
LEMMA LifeUpdate ==
    ASSUME TypeOK, NEW r \in DOMAIN rows, NEW row, rows' = [rows EXCEPT ![r] = row]
    PROVE  Lifecycle!Become(r, row.status, row.moderatedBy, row.duplicateOf)
<1>1. r \in Report /\ DOMAIN rows' = DOMAIN rows /\ rows'[r] = row
  BY DEF TypeOK
<1>2. \A s \in DOMAIN rows \ {r} : rows'[s] = rows[s]
  OBVIOUS
<1> QED
  BY <1>1, <1>2 DEF life, Lifecycle!Become

LEMMA LifeOfStored ==
    ASSUME TypeOK, NEW r \in DOMAIN rows
    PROVE  /\ r \in Report
           /\ life[r] = [status |-> rows[r].status, moderatedBy |-> rows[r].moderatedBy,
                         duplicateOf |-> rows[r].duplicateOf]
           /\ life[r].status # "absent"
<1>1. r \in Report /\ rows[r].status \in Status
  BY DEF TypeOK, Row
<1> QED
  BY <1>1 DEF life, Status

LEMMA LifecycleStep ==
    Inv /\ [Next]_vars => [Lifecycle!Next]_life
<1> SUFFICES ASSUME Inv, [Next]_vars
             PROVE  Lifecycle!Next \/ UNCHANGED life
  OBVIOUS
<1>0. TypeOK /\ Chronology /\ FlatDuplicates /\ RowLocks /\ VerifierTargets
  BY DEF Inv
<1>1. ASSUME NEW r \in Report, InsertReport(r)
      PROVE  Lifecycle!Next
  <2> DEFINE o == requests[r].duplicateOf
  <2>1. requests[r] # None /\ r \notin DOMAIN rows
    BY <1>0, <1>1 DEF InsertReport, Chronology
  <2>2. /\ DOMAIN rows' = DOMAIN rows \cup {r}
        /\ rows'[r].status = "pending"
        /\ rows'[r].moderatedBy = None
        /\ rows'[r].duplicateOf = o
        /\ \A s \in DOMAIN rows : rows'[s] = rows[s]
    BY <1>1, <2>1 DEF InsertReport
  <2>3. Lifecycle!Become(r, "pending", None, o)
    BY <1>0, <2>1, <2>2 DEF life, Lifecycle!Become, TypeOK
  <2>4. ~Lifecycle!Published(r)
    BY <2>1 DEF life, Lifecycle!Published
  <2>5. CASE o = None
    BY <2>3, <2>4, <2>5 DEF Lifecycle!Next, Lifecycle!Publish
  <2>6. CASE o # None
    <3>1. PICK original \in DOMAIN rows :
              original = o /\ original # r /\ rows[original].duplicateOf = None
      BY <1>0, <2>1, <2>6 DEF FlatDuplicates, IsOriginalOf
    <3>2. /\ original \in Report
          /\ Lifecycle!Published(original)
          /\ life[original].duplicateOf = None
      <4>1. /\ original \in Report /\ life[original].status # "absent"
            /\ life[original] = [status |-> rows[original].status,
                                 moderatedBy |-> rows[original].moderatedBy,
                                 duplicateOf |-> rows[original].duplicateOf]
        BY <1>0, LifeOfStored
      <4>2. Lifecycle!Published(original)
        BY <4>1 DEF Lifecycle!Published
      <4>3. life[original].duplicateOf = rows[original].duplicateOf
        BY <4>1
      <4> QED
        BY <3>1, <4>1, <4>2, <4>3
    <3>4. Lifecycle!Become(r, "pending", None, original)
      BY <2>3, <3>1
    <3>5. Lifecycle!Publish(r)
      BY <2>4, <3>1, <3>2, <3>4 DEF Lifecycle!Publish
    <3> QED
      BY <3>5 DEF Lifecycle!Next
  <2> QED
    BY <2>5, <2>6
<1>2. ASSUME NEW m \in Moderator, Decide(m)
      PROVE  Lifecycle!Next
  <2> DEFINE r == moderation[m].report
             old == rows[r]
  <2>1. PICK status \in Status, notDuplicate \in BOOLEAN :
            rows' = [rows EXCEPT ![r] =
                [@ EXCEPT !.status = status,
                          !.moderatedBy = IF status = "pending" THEN None ELSE m,
                          !.statusUpdatedAt = moderation[m].at,
                          !.duplicateOf = IF notDuplicate THEN None ELSE rows[r].duplicateOf]]
    BY <1>2, Zenon DEF Decide
  <2> DEFINE by == IF status = "pending" THEN None ELSE m
             original == IF notDuplicate THEN None ELSE old.duplicateOf
             new == [old EXCEPT !.status = status,
                                !.moderatedBy = IF status = "pending" THEN None ELSE m,
                                !.statusUpdatedAt = moderation[m].at,
                                !.duplicateOf = IF notDuplicate THEN None ELSE old.duplicateOf]
  <2>2. r \in DOMAIN rows
    BY <1>0, <1>2 DEF Decide, RowLocks
  <2>3. old \in Row
    BY <1>0, <2>2 DEF TypeOK
  <2>4. rows' = [rows EXCEPT ![r] = new]
    BY <2>1
  <2>5. new.status = status /\ new.moderatedBy = by /\ new.duplicateOf = original
    <3> HIDE DEF old
    <3> QED  BY <2>3 DEF Row
  <2> HIDE DEF new
  <2>6. Lifecycle!Become(r, status, by, original)
    BY <1>0, <2>2, <2>4, <2>5, LifeUpdate
  <2>7. r \in Report /\ Lifecycle!Published(r) /\ life[r].duplicateOf = old.duplicateOf
    <3>1. /\ r \in Report /\ life[r].status # "absent"
          /\ life[r] = [status |-> old.status, moderatedBy |-> old.moderatedBy,
                        duplicateOf |-> old.duplicateOf]
      BY <1>0, <2>2, LifeOfStored
    <3>2. Lifecycle!Published(r)
      BY <3>1 DEF Lifecycle!Published
    <3> HIDE DEF r, old
    <3> QED
      BY <3>1, <3>2
  <2>8. original \in {None, life[r].duplicateOf}
    BY <2>7
  <2> HIDE DEF r, old, original
  <2>9. Lifecycle!Decide(m, r)
    BY <2>6, <2>7, <2>8 DEF Lifecycle!Decide, Status
  <2> QED
    BY <2>7, <2>9 DEF Lifecycle!Next
<1>3. ASSUME NEW i \in Instance, RecordVerified(i)
      PROVE  Lifecycle!Next
  <2> DEFINE r == verifier[i].report
             old == rows[r]
             new == [old EXCEPT !.score = verifier[i].score,
                                !.corroborations = verifier[i].found.reports,
                                !.status = "verified", !.moderatedBy = ModeratedByAuto,
                                !.statusUpdatedAt = verifier[i].at]
  <2>1. r \in DOMAIN rows /\ old.status = "pending" /\ old.moderatedBy = None
    BY <1>3 DEF RecordVerified, Undecided
  <2>2. old.duplicateOf = None
    BY <1>0, <2>1, NameAssumption DEF VerifierTargets, TypeOK
  <2>3. rows' = [rows EXCEPT ![r] = new]
    BY <1>3 DEF RecordVerified
  <2>4. /\ new.status = "verified" /\ new.moderatedBy = ModeratedByAuto
        /\ new.duplicateOf = None
    <3>1. old \in Row
      BY <1>0, <2>1 DEF TypeOK
    <3> HIDE DEF old
    <3> QED  BY <2>2, <3>1 DEF Row
  <2> HIDE DEF new
  <2>5. Lifecycle!Become(r, "verified", ModeratedByAuto, None)
    BY <1>0, <2>1, <2>3, <2>4, LifeUpdate
  <2>6. r \in Report
        /\ life[r] = [status |-> "pending", moderatedBy |-> None, duplicateOf |-> None]
    BY <1>0, <2>1, <2>2, LifeOfStored
  <2> HIDE DEF r
  <2> QED
    BY <2>5, <2>6
       DEF Lifecycle!Next, Lifecycle!AutoVerify, ModeratedByAuto, Lifecycle!ModeratedByAuto
<1>4. ASSUME NEW i \in Instance, RecordScore(i)
      PROVE  UNCHANGED life
  <2>1. /\ DOMAIN rows' = DOMAIN rows
        /\ \A s \in DOMAIN rows : /\ rows'[s].status = rows[s].status
                                  /\ rows'[s].moderatedBy = rows[s].moderatedBy
                                  /\ rows'[s].duplicateOf = rows[s].duplicateOf
    BY <1>0, <1>4 DEF RecordScore, TypeOK, Row
  <2> QED
    BY <2>1 DEF life
<1>5. CASE UNCHANGED rows
  BY <1>5 DEF life
<1> QED
  BY <1>1, <1>2, <1>3, <1>4, <1>5
     DEF Next, vars, StoreStep, ModerationStep, VerifierStep, RecordStep, Tick, BeginStore,
         CheckDuplicate, AbortStore, PublishPhoto, BeginModeration, LockRow, AbortModeration, StartRun,
         GatherCorroborators, GatherHistory, RecordNothing, FinishRun, FailRun, LoseSession

(* Storing, verifying and moderating reports concurrently implement the      *)
(* life cycle that ReportLifecycle promises.                                 *)
THEOREM CurationImplementsLifecycle == Spec => ImplementsLifecycle
<1>1. Init => Lifecycle!Init
  BY DEF Init, life, Lifecycle!Init, Lifecycle!Absent
<1>2. Inv /\ [Next]_vars => [Lifecycle!Next]_life
  BY LifecycleStep
<1> QED
  BY <1>1, <1>2, Invariance, PTL DEF Spec, ImplementsLifecycle, Lifecycle!Spec
=============================================================================
