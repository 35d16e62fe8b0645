------------------------- MODULE WeatherCacheProofs -------------------------
(***************************************************************************)
(* What WeatherCache keeps for every set of callers and cells and every    *)
(* configuration.                                                          *)
(***************************************************************************)
EXTENDS WeatherCache, FiniteSetTheorems, TLAPS

LEMMA Constants ==
  /\ FreshFor \in Nat \ {0} /\ StaleFor \in Nat /\ TooOld \in Nat \ {0}
  /\ FreshFor < TooOld /\ StaleFor < TooOld
  /\ MaxEntries \in Nat \ {0} /\ BreakerThreshold \in Nat \ {0}
  /\ FetchTimeout \in Nat \ {0} /\ BreakerCooldown \in Nat /\ FetchTimeout < BreakerCooldown
  /\ Attempts \in Nat \ {0} /\ Minute \in Nat \ {0}
  /\ MaxRequestsPerMinute \in Nat \ {0} /\ Full \in Nat /\ Minute <= Full
  /\ None \notin Int
<1>1. MaxRequestsPerMinute * Minute \in Nat /\ Minute <= MaxRequestsPerMinute * Minute
  BY ConfigAssumption
<1>2. QED
  BY <1>1, ConfigAssumption, TimeoutAssumption, NoneAssumption DEF TooOld, Full

-----------------------------------------------------------------------------
(* A copy that ages stays one, and the older of two copies stays older.    *)
LEMMA OlderIsMonotone ==
  /\ \A a \in Age \cup {None} : Older(a) \in Age \cup {None} /\ (Older(a) = None <=> a = None)
  /\ \A a, b \in Age : a <= b => Older(a) <= Older(b)
BY Constants DEF Older, Age

(* storeLocked leaves a copy of age 0 of the cell, keeps or drops every    *)
(* other one and stays within the bound.                                   *)
LEMMA StoreKeepsOrDrops ==
  ASSUME TypeOK, NEW k \in Cells, Store(k)
  PROVE  /\ cache' \in [Cells -> Age \cup {None}]
         /\ cache'[k] = 0
         /\ \A j \in Cells \ {k} : cache'[j] \in {cache[j], None}
         /\ Cardinality(Cached') <= MaxEntries
<1> DEFINE kept(S) == [j \in Cells |-> IF j = k THEN 0 ELSE IF j \in S THEN cache[j] ELSE None]
           usable == {j \in Cached : cache[j] <= StaleFor}
<1>0. /\ IsFiniteSet(Cached) /\ Cached \subseteq Cells
      /\ cache \in [Cells -> Age \cup {None}] /\ Cardinality(Cached) <= MaxEntries
  BY ConfigAssumption, FS_Subset DEF Cached, TypeOK
<1>1. SUFFICES ASSUME NEW S \in SUBSET Cached, cache' = kept(S),
                      Cardinality(S \cup {k}) <= MaxEntries
               PROVE  /\ cache' \in [Cells -> Age \cup {None}]
                      /\ cache'[k] = 0
                      /\ \A j \in Cells \ {k} : cache'[j] \in {cache[j], None}
                      /\ Cardinality(Cached') <= MaxEntries
  <2>1. CASE k \in Cached
    <3>1. cache' = kept(Cached) /\ Cached \cup {k} = Cached
      BY <2>1 DEF Store
    <3>2. QED BY <3>1, <1>0, <1>1
  <2>2. CASE k \notin Cached /\ Cardinality(Cached) < MaxEntries
    <3>1. cache' = kept(Cached) BY <2>2 DEF Store
    <3>2. Cardinality(Cached \cup {k}) <= MaxEntries
      <4>1. Cardinality(Cached \cup {k}) = Cardinality(Cached) + 1
        BY <1>0, <2>2, FS_AddElement
      <4>2. Cardinality(Cached) \in Nat
        BY <1>0, FS_CardinalityType
      <4>3. QED BY <4>1, <4>2, <2>2, Constants
    <3>3. QED BY <3>1, <3>2, <1>1
  <2>3. CASE k \notin Cached /\ ~ (Cardinality(Cached) < MaxEntries)
    <3>0. usable \subseteq Cached /\ IsFiniteSet(usable) /\ k \notin usable
      BY <1>0, <2>3, FS_Subset
    <3>1. CASE Cardinality(usable) < MaxEntries
      <4>1. cache' = kept(usable) BY <2>3, <3>1 DEF Store
      <4>2. Cardinality(usable \cup {k}) <= MaxEntries
        <5>1. Cardinality(usable \cup {k}) = Cardinality(usable) + 1
          BY <3>0, <2>3, FS_AddElement
        <5>2. Cardinality(usable) \in Nat
          BY <3>0, FS_CardinalityType
        <5>3. QED BY <5>1, <5>2, <3>1, Constants
      <4>3. QED BY <3>0, <4>1, <4>2, <1>1
    <3>2. CASE ~ (Cardinality(usable) < MaxEntries)
      <4>1. PICK old \in usable : cache' = kept(usable \ {old})
        BY <2>3, <3>2 DEF Store
      <4>2. /\ IsFiniteSet(usable \ {old})
            /\ Cardinality(usable \ {old}) = Cardinality(usable) - 1
            /\ Cardinality(usable) <= Cardinality(Cached)
            /\ Cardinality(usable) \in Nat /\ Cardinality(Cached) \in Nat
        BY <3>0, <1>0, FS_RemoveElement, FS_Subset, FS_CardinalityType
      <4>3. Cardinality((usable \ {old}) \cup {k}) = Cardinality(usable \ {old}) + 1
        BY <3>0, <4>2, FS_AddElement
      <4>4. Cardinality((usable \ {old}) \cup {k}) <= MaxEntries
        BY <4>2, <4>3, <1>0, Constants
      <4>5. usable \ {old} \subseteq Cached BY <3>0
      <4>6. QED BY <4>1, <4>4, <4>5, <1>1
    <3>3. QED BY <3>1, <3>2
  <2>4. QED BY <2>1, <2>2, <2>3
<1>2. cache' \in [Cells -> Age \cup {None}]
  BY <1>0, <1>1, Constants DEF Age
<1>3. cache'[k] = 0 /\ \A j \in Cells \ {k} : cache'[j] \in {cache[j], None}
  BY <1>1
<1>4. Cached' \subseteq S \cup {k}
  BY <1>1 DEF Cached
<1>5. IsFiniteSet(S \cup {k})
  BY <1>0, <1>1, FS_Subset, FS_AddElement
<1>6. Cardinality(Cached') <= MaxEntries
  BY <1>1, <1>4, <1>5, FS_Subset, FS_CardinalityType, Constants
<1>7. QED BY <1>2, <1>3, <1>6

-----------------------------------------------------------------------------
(* What the steps preserve.  Calls from before the circuit opened end      *)
(* before it half-opens, so none is out when the first probe may start.    *)
BreakerInv ==
  /\ openLeft = None => ~ probing
  /\ openLeft # None /\ openLeft > 0 =>
       ~ probing /\ \A k \in InFlight : inflight[k].left < openLeft
  /\ SingleProbe

(* The cache's copy is never older than one a caller holds or was given.   *)
Copies(c) ==
  /\ pc[c] = "fetched" => cache[CellOf[c]] \in {None, 0}
  /\ cache[CellOf[c]] # None /\ captured[c] # None => cache[CellOf[c]] <= captured[c]
  /\ reply[c] # None /\ cache[CellOf[c]] # None => cache[CellOf[c]] <= reply[c].age
  /\ reply[c] # None /\ captured[c] # None => captured[c] <= reply[c].age

CallerInv(c) ==
  /\ Copies(c)
  /\ pc[c] = "waiting" => inflight[CellOf[c]] # None
  /\ pc[c] = "served" =>
       IF reply[c].stale THEN reply[c].age <= StaleFor ELSE reply[c].age < FreshFor

CallersInv == \A c \in Callers : CallerInv(c)

-----------------------------------------------------------------------------
(* Types *)

LEMMA UnchangedCached ==
  ASSUME UNCHANGED cache PROVE Cached' = Cached
BY DEF Cached

LEMMA AnswerType ==
  ASSUME TypeOK, NEW c \in Callers, NEW age \in Age, NEW stale \in BOOLEAN, Answer(c, age, stale)
  PROVE  /\ pc' \in [Callers -> {"idle", "served", "waiting"} \cup Woken]
         /\ captured' \in [Callers -> Age \cup {None}]
         /\ reply' \in [Callers -> Answers \cup {None}]
BY DEF Answer, TypeOK, Answers

LEMMA FallbackType ==
  ASSUME TypeOK, NEW c \in Callers, NEW copy \in Age \cup {None}, Fallback(c, copy)
  PROVE  /\ pc' \in [Callers -> {"idle", "served", "waiting"} \cup Woken]
         /\ captured' \in [Callers -> Age \cup {None}]
         /\ reply' \in [Callers -> Answers \cup {None}]
<1>1. CASE Usable(copy) /\ Answer(c, copy, TRUE)
  <2>1. copy \in Age BY <1>1 DEF Usable
  <2>2. QED BY <1>1, <2>1, AnswerType
<1>2. CASE ~ Usable(copy)
  BY <1>2 DEF Fallback, TypeOK
<1>3. QED BY <1>1, <1>2 DEF Fallback

LEMMA WaitType ==
  ASSUME TypeOK, NEW c \in Callers, Wait(c)
  PROVE  /\ pc' \in [Callers -> {"idle", "served", "waiting"} \cup Woken]
         /\ captured' \in [Callers -> Age \cup {None}]
         /\ reply' \in [Callers -> Answers \cup {None}]
BY ConfigAssumption DEF Wait, TypeOK

LEMMA SendRequestType ==
  ASSUME TypeOK, SendRequest PROVE requests' \in [1 .. Minute -> Nat]
BY Constants DEF SendRequest, TypeOK

LEMMA TypeInit == Init => TypeOK
<1> SUFFICES ASSUME Init PROVE TypeOK
  OBVIOUS
<1>1. Cached = {} BY DEF Init, Cached
<1>2. Cardinality(Cached) <= MaxEntries
  BY <1>1, FS_EmptySet, Constants
<1>3. failures \in 0 .. BreakerThreshold /\ tokens \in 0 .. Full
  BY Constants DEF Init
<1>4. requests \in [1 .. Minute -> Nat]
  BY DEF Init
<1>5. /\ pc \in [Callers -> {"idle", "served", "waiting"} \cup Woken]
      /\ captured \in [Callers -> Age \cup {None}]
      /\ reply \in [Callers -> Answers \cup {None}]
  BY DEF Init
<1>6. /\ cache \in [Cells -> Age \cup {None}]
      /\ inflight \in [Cells -> Fetch \cup {None}]
  BY DEF Init
<1>7. QED BY <1>2, <1>3, <1>4, <1>5, <1>6 DEF Init, TypeOK

LEMMA TypeStep ==
  ASSUME TypeOK, [Next]_vars PROVE TypeOK'
<1>1. ASSUME NEW c \in Callers, GetHit(c) PROVE TypeOK'
  <2>1. cache[CellOf[c]] \in Age
    BY <1>1, ConfigAssumption DEF GetHit, IsFresh, TypeOK
  <2>2. Answer(c, cache[CellOf[c]], FALSE) /\ FALSE \in BOOLEAN
    BY <1>1 DEF GetHit
  <2>3. PICK age \in Age : Answer(c, age, FALSE)
    BY <2>1, <2>2
  <2>4. QED BY <1>1, <2>3, AnswerType, UnchangedCached DEF GetHit, TypeOK
<1>2. ASSUME NEW c \in Callers, GetJoin(c) PROVE TypeOK'
  BY <1>2, WaitType, UnchangedCached DEF GetJoin, TypeOK
<1>3. ASSUME NEW c \in Callers, GetFetch(c) PROVE TypeOK'
  <2>1. inflight' \in [Cells -> Fetch \cup {None}]
    <3>1. [left |-> FetchTimeout, attempt |-> 1] \in Fetch
      BY Constants DEF Fetch
    <3>2. QED BY <1>3, <3>1 DEF GetFetch, TypeOK
  <2>2. tokens' \in 0 .. Full
    BY <1>3, Constants DEF GetFetch, TypeOK, HasToken
  <2>3. QED
    BY <1>3, <2>1, <2>2, WaitType, SendRequestType, UnchangedCached DEF GetFetch, TypeOK
<1>4. ASSUME NEW c \in Callers, GetRefused(c) PROVE TypeOK'
  <2>1. PICK copy \in Age \cup {None} : Fallback(c, copy)
    BY <1>4, ConfigAssumption DEF GetRefused, TypeOK
  <2>2. QED
    BY <1>4, <2>1, FallbackType, UnchangedCached DEF GetRefused, StepBack, TypeOK
<1>5. ASSUME NEW c \in Callers, Return(c) PROVE TypeOK'
  <2>1. CASE Answer(c, 0, FALSE)
    <3>1. 0 \in Age /\ FALSE \in BOOLEAN BY Constants DEF Age
    <3>2. QED BY <1>5, <2>1, <3>1, AnswerType, UnchangedCached DEF Return, TypeOK
  <2>2. CASE Fallback(c, captured[c])
    <3>1. PICK copy \in Age \cup {None} : Fallback(c, copy)
      BY <2>2 DEF TypeOK
    <3>2. QED BY <1>5, <3>1, FallbackType, UnchangedCached DEF Return, TypeOK
  <2>3. QED BY <1>5, <2>1, <2>2 DEF Return
<1>6. ASSUME NEW c \in Callers, GiveUp(c) PROVE TypeOK'
  BY <1>6, UnchangedCached DEF GiveUp, TypeOK
<1>7. ASSUME NEW k \in Cells, Retry(k) PROVE TypeOK'
  <2>1. inflight[k] \in Fetch BY <1>7 DEF Retry, TypeOK
  <2>2. inflight' \in [Cells -> Fetch \cup {None}]
    <3>1. [inflight[k] EXCEPT !.attempt = inflight[k].attempt + 1] \in Fetch
      BY <1>7, <2>1, Constants DEF Retry, Fetch
    <3>2. inflight' = [inflight EXCEPT ![k] =
                         [inflight[k] EXCEPT !.attempt = inflight[k].attempt + 1]]
      BY <1>7 DEF Retry
    <3>3. QED BY <3>1, <3>2 DEF TypeOK
  <2>3. QED
    BY <1>7, <2>2, SendRequestType, UnchangedCached DEF Retry, callerVars, TypeOK
<1>8. ASSUME NEW k \in Cells, FetchSucceeds(k) PROVE TypeOK'
  <2>1. cache' \in [Cells -> Age \cup {None}] /\ Cardinality(Cached') <= MaxEntries
    BY <1>8, StoreKeepsOrDrops DEF FetchSucceeds
  <2>2. inflight' \in [Cells -> Fetch \cup {None}]
    BY <1>8 DEF FetchSucceeds, Wake, TypeOK
  <2>3. pc' \in [Callers -> {"idle", "served", "waiting"} \cup Woken]
    BY <1>8 DEF FetchSucceeds, Wake, TypeOK, Woken
  <2>4. /\ failures' \in 0 .. BreakerThreshold /\ openLeft' \in 0 .. BreakerCooldown \cup {None}
        /\ probing' \in BOOLEAN
    <3>1. failures' = 0 /\ openLeft' = None /\ probing' = FALSE
      BY <1>8 DEF FetchSucceeds
    <3>2. 0 \in 0 .. BreakerThreshold BY Constants
    <3>3. QED BY <3>1, <3>2
  <2>5. /\ tokens' \in 0 .. Full /\ requests' \in [1 .. Minute -> Nat]
        /\ captured' \in [Callers -> Age \cup {None}] /\ reply' \in [Callers -> Answers \cup {None}]
    BY <1>8 DEF FetchSucceeds, Wake, TypeOK
  <2>6. QED BY <2>1, <2>2, <2>3, <2>4, <2>5 DEF TypeOK
<1>9. ASSUME NEW k \in Cells, FetchFails(k) PROVE TypeOK'
  <2>1. inflight' \in [Cells -> Fetch \cup {None}]
    BY <1>9 DEF FetchFails, Wake, TypeOK
  <2>2. pc' \in [Callers -> {"idle", "served", "waiting"} \cup Woken]
    BY <1>9 DEF FetchFails, Wake, TypeOK, Woken
  <2>3. failures' \in 0 .. BreakerThreshold /\ openLeft' \in 0 .. BreakerCooldown \cup {None}
    BY <1>9, Constants DEF FetchFails, RecordFailure, TypeOK
  <2>4. QED
    BY <1>9, <2>1, <2>2, <2>3, UnchangedCached DEF FetchFails, RecordFailure, Wake, TypeOK
<1>10. CASE Tick
  <2>1. /\ cache' \in [Cells -> Age \cup {None}]
        /\ captured' \in [Callers -> Age \cup {None}]
        /\ Cached' = Cached
    BY <1>10, OlderIsMonotone DEF Tick, TypeOK, Cached
  <2>2. \A k \in Cells : inflight[k] # None => inflight[k] \in Fetch /\ inflight[k].left > 0
    BY <1>10 DEF Tick, TypeOK, InFlight
  <2>3. inflight' \in [Cells -> Fetch \cup {None}]
    <3>1. ASSUME NEW k \in Cells, inflight[k] # None
          PROVE  [inflight[k] EXCEPT !.left = @ - 1] \in Fetch
      <4>1. inflight[k] \in Fetch /\ inflight[k].left > 0 BY <2>2, <3>1
      <4>2. inflight[k].left - 1 \in 0 .. FetchTimeout BY <4>1, Constants DEF Fetch
      <4>3. QED BY <4>1, <4>2 DEF Fetch
    <3>2. inflight' = [k \in Cells |-> IF inflight[k] = None THEN None
                                      ELSE [inflight[k] EXCEPT !.left = @ - 1]]
      BY <1>10 DEF Tick
    <3>3. QED BY <3>1, <3>2
  <2>4. reply' \in [Callers -> Answers \cup {None}]
    <3>1. SUFFICES ASSUME NEW c \in Callers PROVE reply'[c] \in Answers \cup {None}
      BY <1>10 DEF Tick
    <3>2. CASE reply[c] = None
      BY <1>10, <3>2 DEF Tick
    <3>3. CASE reply[c] # None
      <4>1. reply[c] \in Answers BY <3>3 DEF TypeOK
      <4>2. reply[c].age \in Age BY <4>1 DEF Answers
      <4>3. Older(reply[c].age) \in Age
        BY <4>2, OlderIsMonotone, Constants DEF Age
      <4>4. reply'[c] = [reply[c] EXCEPT !.age = Older(reply[c].age)]
        BY <1>10, <3>3 DEF Tick
      <4>5. QED BY <4>1, <4>3, <4>4 DEF Answers
    <3>4. QED BY <3>2, <3>3
  <2>5. tokens' \in 0 .. Full
    BY <1>10, Constants DEF Tick, Refilled, TypeOK
  <2>6. openLeft' \in 0 .. BreakerCooldown \cup {None}
    BY <1>10, Constants DEF Tick, TypeOK
  <2>7. requests' \in [1 .. Minute -> Nat]
    <3>1. requests' = [i \in 1 .. Minute |-> IF i = 1 THEN 0 ELSE requests[i - 1]]
      BY <1>10 DEF Tick
    <3>2. ASSUME NEW i \in 1 .. Minute, i # 1 PROVE requests[i - 1] \in Nat
      <4>1. i - 1 \in 1 .. Minute BY <3>2, Constants
      <4>2. QED BY <4>1 DEF TypeOK
    <3>3. QED BY <3>1, <3>2
  <2>8. pc' \in [Callers -> {"idle", "served", "waiting"} \cup Woken]
    BY <1>10 DEF Tick, TypeOK
  <2>9. QED
    BY <1>10, <2>1, <2>3, <2>4, <2>5, <2>6, <2>7, <2>8 DEF Tick, TypeOK
<1>11. CASE UNCHANGED vars
  BY <1>11, UnchangedCached DEF vars, TypeOK
<1>12. QED
  BY <1>1, <1>2, <1>3, <1>4, <1>5, <1>6, <1>7, <1>8, <1>9, <1>10, <1>11 DEF Next

(* Every variable keeps its range and the cache its bound.                 *)
THEOREM TypeCorrect == Spec => []TypeOK
BY TypeInit, TypeStep, PTL DEF Spec

-----------------------------------------------------------------------------
(* The circuit breaker *)

LEMMA FetchIsNotNone == \A f \in Fetch : f # None
BY NoneAssumption

LEMMA FetchAges ==
  \A f \in Fetch : LET g == [f EXCEPT !.left = f.left - 1]
                  IN f.left > 0 => g \in Fetch /\ g.left = f.left - 1 /\ f.left \in Nat
BY Constants DEF Fetch

LEMMA BreakerInit == Init => BreakerInv
BY Constants DEF Init, BreakerInv, SingleProbe

LEMMA BreakerUnchanged ==
  ASSUME BreakerInv, UNCHANGED <<inflight, openLeft, probing>> PROVE BreakerInv'
BY DEF BreakerInv, SingleProbe, InFlight

LEMMA BreakerStep ==
  ASSUME TypeOK, BreakerInv, [Next]_vars PROVE BreakerInv'
<1>0. /\ openLeft \in Nat \cup {None} /\ probing \in BOOLEAN /\ None \notin Int
      /\ inflight \in [Cells -> Fetch \cup {None}]
  BY Constants DEF TypeOK
<1>1. ASSUME NEW c \in Callers, GetHit(c) \/ GetJoin(c) \/ GiveUp(c) \/ Return(c) PROVE BreakerInv'
  BY <1>1, BreakerUnchanged DEF GetHit, GetJoin, GiveUp, Return
<1>2. ASSUME NEW c \in Callers, GetFetch(c) PROVE BreakerInv'
  <2> DEFINE k == CellOf[c]
             fetch == [left |-> FetchTimeout, attempt |-> 1]
  <2>1. k \in Cells /\ inflight[k] = None /\ BreakerAllows
    BY <1>2, ConfigAssumption DEF GetFetch
  <2>2. fetch # None
    <3>1. fetch \in Fetch BY Constants DEF Fetch
    <3>2. QED BY <3>1, FetchIsNotNone
  <2>3. inflight' = [inflight EXCEPT ![k] = fetch] /\ openLeft' = openLeft /\ probing' = (openLeft # None)
    BY <1>2 DEF GetFetch
  <2>4. InFlight' = InFlight \cup {k}
    BY <1>0, <2>1, <2>2, <2>3 DEF InFlight
  <2>5. CASE openLeft = None
    BY <1>0, <2>3, <2>5 DEF BreakerInv, SingleProbe
  <2>6. CASE openLeft # None
    <3>1. openLeft = 0 /\ ~ probing BY <2>1, <2>6 DEF BreakerAllows
    <3>2. InFlight = {} BY <3>1 DEF BreakerInv, SingleProbe
    <3>3. openLeft' = 0 /\ probing' = TRUE BY <2>3, <2>6, <3>1
    <3>4. InFlight' = {k} BY <2>4, <3>2
    <3>5. QED BY <1>0, <3>3, <3>4 DEF BreakerInv, SingleProbe
  <2>7. QED BY <2>5, <2>6
<1>3. ASSUME NEW c \in Callers, GetRefused(c) PROVE BreakerInv'
  <2>1. probing' = probing
    BY <1>0, <1>3 DEF GetRefused, StepBack, BreakerAllows, BreakerInv
  <2>2. QED BY <1>3, <2>1, BreakerUnchanged DEF GetRefused
<1>4. ASSUME NEW k \in Cells, Retry(k) PROVE BreakerInv'
  <2>1. inflight[k] \in Fetch /\ inflight[k] # None BY <1>0, <1>4 DEF Retry
  <2>2. inflight' = [inflight EXCEPT ![k] =
                       [inflight[k] EXCEPT !.attempt = inflight[k].attempt + 1]]
    BY <1>4 DEF Retry
  <2>3. /\ [inflight[k] EXCEPT !.attempt = inflight[k].attempt + 1] # None
        /\ [inflight[k] EXCEPT !.attempt = inflight[k].attempt + 1].left = inflight[k].left
    <3>1. [inflight[k] EXCEPT !.attempt = inflight[k].attempt + 1] \in Fetch
      BY <1>4, <2>1, Constants DEF Retry, Fetch
    <3>2. QED BY <2>1, <3>1, FetchIsNotNone DEF Fetch
  <2>4. InFlight' = InFlight /\ \A j \in InFlight : inflight'[j].left = inflight[j].left
    BY <1>0, <2>1, <2>2, <2>3 DEF InFlight
  <2>5. UNCHANGED <<openLeft, probing>> BY <1>4 DEF Retry
  <2>6. QED BY <2>4, <2>5 DEF BreakerInv, SingleProbe
<1>5. ASSUME NEW k \in Cells, FetchSucceeds(k) PROVE BreakerInv'
  BY <1>5, <1>0 DEF FetchSucceeds, BreakerInv, SingleProbe
<1>6. ASSUME NEW k \in Cells, FetchFails(k) PROVE BreakerInv'
  <2>1. /\ probing' = FALSE
        /\ openLeft' = BreakerCooldown \/ (openLeft' = openLeft /\ openLeft = None)
    <3>1. /\ probing' = FALSE
          /\ openLeft' = IF openLeft # None \/ failures' >= BreakerThreshold
                         THEN BreakerCooldown ELSE openLeft
      BY <1>6 DEF FetchFails, RecordFailure
    <3>2. CASE openLeft # None \/ failures' >= BreakerThreshold
      <4>1. openLeft' = BreakerCooldown BY <3>1, <3>2, Zenon
      <4>2. QED BY <3>1, <4>1
    <3>3. CASE ~ (openLeft # None \/ failures' >= BreakerThreshold)
      BY <3>1, <3>3, Zenon
    <3>4. QED BY <3>2, <3>3
  <2>2. CASE openLeft' = BreakerCooldown
    <3>1. \A j \in InFlight' : inflight'[j] \in Fetch
      BY <1>0, <1>6 DEF FetchFails, Wake, InFlight
    <3>2. \A j \in InFlight' : inflight'[j].left < BreakerCooldown
      BY <3>1, Constants DEF Fetch
    <3>3. BreakerCooldown > 0 BY Constants
    <3>4. QED BY <2>1, <2>2, <3>2, <3>3, Constants DEF BreakerInv, SingleProbe
  <2>3. CASE openLeft' = openLeft /\ openLeft = None
    BY <2>1, <2>3, <1>0 DEF BreakerInv, SingleProbe
  <2>4. QED BY <2>1, <2>2, <2>3
<1>7. CASE Tick
  <2>1. /\ probing' = probing
        /\ openLeft' = IF openLeft = None \/ openLeft = 0 THEN openLeft ELSE openLeft - 1
    BY <1>7 DEF Tick
  <2>2. \A j \in InFlight : /\ inflight[j] \in Fetch
                            /\ inflight[j].left > 0
                            /\ inflight'[j] = [inflight[j] EXCEPT !.left = inflight[j].left - 1]
    <3>1. SUFFICES ASSUME NEW j \in InFlight
                   PROVE  /\ inflight[j] \in Fetch
                          /\ inflight[j].left > 0
                          /\ inflight'[j] = [inflight[j] EXCEPT !.left = inflight[j].left - 1]
      OBVIOUS
    <3>2. j \in Cells /\ inflight[j] # None BY DEF InFlight
    <3>3. inflight' = [i \in Cells |-> IF inflight[i] = None THEN None
                        ELSE [inflight[i] EXCEPT !.left = inflight[i].left - 1]]
      BY <1>7 DEF Tick
    <3>4. inflight'[j] = [inflight[j] EXCEPT !.left = inflight[j].left - 1]
      BY <3>2, <3>3
    <3>5. inflight[j].left > 0 BY <1>7 DEF Tick
    <3>6. QED BY <1>0, <3>2, <3>4, <3>5
  <2>3. \A j \in InFlight : inflight'[j].left = inflight[j].left - 1 /\ inflight[j].left \in Nat
    BY <2>2, FetchAges
  <2>4. InFlight' = InFlight
    <3>1. \A j \in InFlight : inflight'[j] \in Fetch
      BY <2>2, FetchAges
    <3>2. \A j \in Cells \ InFlight : inflight'[j] = None
      BY <1>7 DEF Tick, InFlight
    <3>3. QED BY <3>1, <3>2, FetchIsNotNone DEF InFlight
  <2>5. CASE openLeft = None
    BY <2>1, <2>5, <1>0 DEF BreakerInv, SingleProbe
  <2>6. CASE openLeft = 0
    BY <2>1, <2>4, <2>6 DEF BreakerInv, SingleProbe
  <2>7. CASE openLeft # None /\ openLeft # 0
    <3>1. openLeft > 0 /\ openLeft \in Nat /\ openLeft' = openLeft - 1
      BY <1>0, <2>1, <2>7
    <3>2. ~ probing /\ \A j \in InFlight : inflight[j].left < openLeft
      BY <2>7, <3>1 DEF BreakerInv
    <3>3. \A j \in InFlight' : inflight'[j].left < openLeft'
      BY <2>3, <2>4, <3>1, <3>2
    <3>4. openLeft' = 0 => InFlight' = {}
      <4>1. SUFFICES ASSUME openLeft' = 0, NEW j \in InFlight PROVE FALSE
        BY <2>4
      <4>2. openLeft = 1 BY <3>1, <4>1
      <4>3. inflight[j].left < 1 /\ inflight[j].left > 0 /\ inflight[j].left \in Nat
        BY <2>2, <2>3, <3>2, <4>2
      <4>4. QED BY <4>3
    <3>5. ~ probing' BY <2>1, <3>2
    <3>6. openLeft' # None BY <3>1, <1>0
    <3>7. QED BY <3>3, <3>4, <3>5, <3>6 DEF BreakerInv, SingleProbe
  <2>8. QED BY <2>5, <2>6, <2>7
<1>8. CASE UNCHANGED vars
  BY <1>8, BreakerUnchanged DEF vars
<1>9. QED BY <1>1, <1>2, <1>3, <1>4, <1>5, <1>6, <1>7, <1>8 DEF Next

(* A half-open circuit lets one call at a time through, whatever was under *)
(* way when it opened, and is never left waiting for a probe that is not.  *)
THEOREM OneProbeAtATime == Spec => []SingleProbe
<1>1. Init => TypeOK /\ BreakerInv
  BY TypeInit, BreakerInit
<1>2. TypeOK /\ BreakerInv /\ [Next]_vars => (TypeOK /\ BreakerInv)'
  BY TypeStep, BreakerStep
<1>3. BreakerInv => SingleProbe
  BY DEF BreakerInv
<1>4. QED BY <1>1, <1>2, <1>3, PTL DEF Spec

-----------------------------------------------------------------------------
(* The callers *)

LEMMA CallersInit == Init => CallersInv
BY DEF Init, CallersInv, CallerInv, Copies

(* A step that leaves a caller's own state, the copies and its fetch alone *)
(* leaves its invariant alone.                                             *)
LEMMA OtherCaller ==
  ASSUME NEW d \in Callers, CallerInv(d), UNCHANGED cache,
         pc'[d] = pc[d], captured'[d] = captured[d], reply'[d] = reply[d],
         inflight[CellOf[d]] # None => inflight'[CellOf[d]] # None
  PROVE  CallerInv(d)'
BY DEF CallerInv, Copies

LEMMA AnswerKeeps ==
  ASSUME TypeOK, CallersInv, UNCHANGED <<cache, inflight>>,
         NEW c \in Callers, NEW age \in Age, NEW stale \in BOOLEAN, Answer(c, age, stale),
         IF stale THEN age <= StaleFor ELSE age < FreshFor,
         cache[CellOf[c]] # None => cache[CellOf[c]] <= age
  PROVE  CallersInv'
<1>1. ASSUME NEW d \in Callers, d # c PROVE CallerInv(d)'
  BY <1>1, OtherCaller DEF Answer, TypeOK, CallersInv
<1>2. /\ pc'[c] = "served" /\ captured'[c] = None
      /\ reply'[c] = [age |-> age, stale |-> stale]
  BY DEF Answer, TypeOK
<1>3. reply'[c].age = age /\ reply'[c].stale = stale
  BY <1>2
<1>4. CallerInv(c)'
  BY <1>2, <1>3 DEF CallerInv, Copies
<1>5. QED BY <1>1, <1>4 DEF CallersInv

LEMMA FallbackKeeps ==
  ASSUME TypeOK, CallersInv, UNCHANGED <<cache, inflight>>,
         NEW c \in Callers, NEW copy \in Age \cup {None}, Fallback(c, copy),
         cache[CellOf[c]] # None /\ copy # None => cache[CellOf[c]] <= copy
  PROVE  CallersInv'
<1>1. CASE Usable(copy) /\ Answer(c, copy, TRUE)
  <2>1. copy \in Age /\ copy # None /\ copy <= StaleFor
    BY <1>1 DEF Usable
  <2>2. QED BY <1>1, <2>1, AnswerKeeps
<1>2. CASE ~ Usable(copy) /\ pc' = [pc EXCEPT ![c] = "idle"]
           /\ captured' = [captured EXCEPT ![c] = None] /\ UNCHANGED reply
  <2>1. ASSUME NEW d \in Callers, d # c PROVE CallerInv(d)'
    BY <1>2, <2>1, OtherCaller DEF TypeOK, CallersInv
  <2>2. pc'[c] = "idle" /\ captured'[c] = None /\ reply'[c] = reply[c]
    BY <1>2 DEF TypeOK
  <2>3. CallerInv(c)'
    BY <2>2 DEF CallersInv, CallerInv, Copies
  <2>4. QED BY <2>1, <2>3 DEF CallersInv
<1>3. QED BY <1>1, <1>2 DEF Fallback

LEMMA WaitKeeps ==
  ASSUME TypeOK, CallersInv, UNCHANGED cache,
         NEW c \in Callers, Wait(c),
         inflight'[CellOf[c]] # None,
         \A k \in Cells : inflight[k] # None => inflight'[k] # None
  PROVE  CallersInv'
<1>0. \A d \in Callers : CellOf[d] \in Cells BY ConfigAssumption
<1>1. ASSUME NEW d \in Callers, d # c PROVE CallerInv(d)'
  BY <1>0, <1>1, OtherCaller DEF Wait, TypeOK, CallersInv
<1>2. pc'[c] = "waiting" /\ captured'[c] = cache[CellOf[c]] /\ reply'[c] = reply[c]
  BY DEF Wait, TypeOK
<1>3. cache[CellOf[c]] \in Age \cup {None}
  BY <1>0 DEF TypeOK
<1>4. cache[CellOf[c]] # None => cache[CellOf[c]] <= cache[CellOf[c]]
  BY <1>3, Constants DEF Age
<1>5. CallerInv(c)'
  BY <1>2, <1>4 DEF CallersInv, CallerInv, Copies
<1>6. QED BY <1>1, <1>5 DEF CallersInv

LEMMA CallersStep ==
  ASSUME TypeOK, CallersInv, [Next]_vars PROVE CallersInv'
<1>0. /\ \A c \in Callers : CellOf[c] \in Cells
      /\ cache \in [Cells -> Age \cup {None}] /\ captured \in [Callers -> Age \cup {None}]
      /\ inflight \in [Cells -> Fetch \cup {None}]
      /\ reply \in [Callers -> Answers \cup {None}]
  BY ConfigAssumption DEF TypeOK
<1>1. ASSUME NEW c \in Callers, GetHit(c) PROVE CallersInv'
  <2>1. PICK age \in Age : age = cache[CellOf[c]] /\ age < FreshFor
    BY <1>0, <1>1 DEF GetHit, IsFresh
  <2>2. Answer(c, age, FALSE) /\ UNCHANGED <<cache, inflight>>
    BY <1>1, <2>1 DEF GetHit
  <2>3. cache[CellOf[c]] # None => cache[CellOf[c]] <= age
    BY <2>1, Constants DEF Age
  <2>4. QED BY <2>1, <2>2, <2>3, AnswerKeeps
<1>2. ASSUME NEW c \in Callers, GetJoin(c) PROVE CallersInv'
  BY <1>2, WaitKeeps DEF GetJoin
<1>3. ASSUME NEW c \in Callers, GetFetch(c) PROVE CallersInv'
  <2>1. [left |-> FetchTimeout, attempt |-> 1] # None
    <3>1. [left |-> FetchTimeout, attempt |-> 1] \in Fetch BY Constants DEF Fetch
    <3>2. QED BY <3>1, FetchIsNotNone
  <2>2. /\ inflight'[CellOf[c]] # None
        /\ \A k \in Cells : inflight[k] # None => inflight'[k] # None
    BY <1>0, <1>3, <2>1 DEF GetFetch
  <2>3. Wait(c) /\ UNCHANGED cache BY <1>3 DEF GetFetch
  <2>4. QED BY <2>2, <2>3, WaitKeeps
<1>4. ASSUME NEW c \in Callers, GetRefused(c) PROVE CallersInv'
  <2>1. PICK copy \in Age \cup {None} : copy = cache[CellOf[c]]
    BY <1>0
  <2>2. Fallback(c, copy) /\ UNCHANGED <<cache, inflight>>
    BY <1>4, <2>1 DEF GetRefused
  <2>3. cache[CellOf[c]] # None /\ copy # None => cache[CellOf[c]] <= copy
    BY <2>1, Constants DEF Age
  <2>4. QED BY <2>2, <2>3, FallbackKeeps
<1>5. ASSUME NEW c \in Callers, Return(c) PROVE CallersInv'
  <2>0. UNCHANGED <<cache, inflight>> BY <1>5 DEF Return
  <2>1. CASE pc[c] = "fetched" /\ Answer(c, 0, FALSE)
    <3>1. cache[CellOf[c]] # None => cache[CellOf[c]] <= 0
      BY <2>1 DEF CallersInv, CallerInv, Copies
    <3>2. 0 \in Age /\ FALSE \in BOOLEAN /\ 0 < FreshFor
      BY Constants DEF Age
    <3>3. QED BY <2>0, <2>1, <3>1, <3>2, AnswerKeeps
  <2>2. CASE Fallback(c, captured[c])
    <3>1. PICK copy \in Age \cup {None} : copy = captured[c]
      BY <1>0
    <3>2. cache[CellOf[c]] # None /\ copy # None => cache[CellOf[c]] <= copy
      BY <3>1 DEF CallersInv, CallerInv, Copies
    <3>3. QED BY <2>0, <2>2, <3>1, <3>2, FallbackKeeps
  <2>3. QED BY <1>5, <2>1, <2>2 DEF Return
<1>6. ASSUME NEW c \in Callers, GiveUp(c) PROVE CallersInv'
  <2>1. ASSUME NEW d \in Callers, d # c PROVE CallerInv(d)'
    BY <1>6, <2>1, OtherCaller DEF GiveUp, TypeOK, CallersInv
  <2>2. /\ pc'[c] = "idle" /\ captured'[c] = None
        /\ UNCHANGED <<cache, reply>>
    BY <1>6 DEF GiveUp, TypeOK
  <2>3. CallerInv(c)'
    BY <2>2 DEF CallersInv, CallerInv, Copies
  <2>4. QED BY <2>1, <2>3 DEF CallersInv
<1>7. ASSUME NEW k \in Cells, Retry(k) PROVE CallersInv'
  <2>1. [inflight[k] EXCEPT !.attempt = inflight[k].attempt + 1] # None
    <3>1. inflight[k] \in Fetch BY <1>0, <1>7 DEF Retry
    <3>2. [inflight[k] EXCEPT !.attempt = inflight[k].attempt + 1] \in Fetch
      BY <1>7, <3>1, Constants DEF Retry, Fetch
    <3>3. QED BY <3>2, FetchIsNotNone
  <2>2. inflight' = [inflight EXCEPT ![k] =
                       [inflight[k] EXCEPT !.attempt = inflight[k].attempt + 1]]
    BY <1>7 DEF Retry
  <2>3. \A j \in Cells : inflight[j] # None => inflight'[j] # None
    BY <1>0, <2>1, <2>2
  <2>4. UNCHANGED <<cache, pc, captured, reply>> BY <1>7 DEF Retry, callerVars
  <2>5. QED BY <1>0, <2>3, <2>4, OtherCaller DEF CallersInv
<1>8. ASSUME NEW k \in Cells, FetchSucceeds(k) PROVE CallersInv'
  <2>1. /\ cache'[k] = 0 /\ \A j \in Cells \ {k} : cache'[j] \in {cache[j], None}
    BY <1>8, StoreKeepsOrDrops DEF FetchSucceeds
  <2>2. /\ inflight' = [inflight EXCEPT ![k] = None]
        /\ pc' = [c \in Callers |-> IF CellOf[c] = k /\ pc[c] = "waiting" THEN "fetched" ELSE pc[c]]
        /\ UNCHANGED <<captured, reply>>
    BY <1>8 DEF FetchSucceeds, Wake
  <2>3. SUFFICES ASSUME NEW c \in Callers PROVE CallerInv(c)'
    BY DEF CallersInv
  <2>4. CallerInv(c) /\ CellOf[c] \in Cells
    BY <1>0 DEF CallersInv
  <2>5. /\ captured[c] # None => captured[c] \in Nat
        /\ reply[c] # None => reply[c].age \in Nat
    BY <1>0, Constants DEF Age, Answers
  <2>6. CASE CellOf[c] = k
    <3>1. pc'[c] # "waiting" /\ cache'[CellOf[c]] = 0
      BY <2>1, <2>2, <2>6
    <3>2. pc'[c] = "served" => pc[c] = "served"
      BY <2>2
    <3>3. QED BY <2>2, <2>4, <2>5, <3>1, <3>2 DEF CallerInv, Copies
  <2>7. CASE CellOf[c] # k
    <3>1. pc'[c] = pc[c] /\ inflight'[CellOf[c]] = inflight[CellOf[c]]
      BY <1>0, <2>2, <2>7
    <3>2. cache'[CellOf[c]] = cache[CellOf[c]] \/ cache'[CellOf[c]] = None
      BY <2>1, <2>4, <2>7
    <3>3. QED BY <2>2, <2>4, <3>1, <3>2 DEF CallerInv, Copies
  <2>8. QED BY <2>6, <2>7
<1>9. ASSUME NEW k \in Cells, FetchFails(k) PROVE CallersInv'
  <2>1. /\ inflight' = [inflight EXCEPT ![k] = None]
        /\ pc' = [c \in Callers |-> IF CellOf[c] = k /\ pc[c] = "waiting" THEN "failed" ELSE pc[c]]
        /\ UNCHANGED <<captured, reply, cache>>
    BY <1>9 DEF FetchFails, Wake
  <2>2. SUFFICES ASSUME NEW c \in Callers PROVE CallerInv(c)'
    BY DEF CallersInv
  <2>3. CallerInv(c) BY DEF CallersInv
  <2>4. /\ pc'[c] = pc[c] \/ pc'[c] = "failed"
        /\ pc'[c] = "waiting" => inflight'[CellOf[c]] = inflight[CellOf[c]]
    BY <1>0, <2>1
  <2>5. QED BY <2>1, <2>3, <2>4 DEF CallerInv, Copies
<1>10. CASE Tick
  <2>1. SUFFICES ASSUME NEW c \in Callers PROVE CallerInv(c)'
    BY DEF CallersInv
  <2> DEFINE k == CellOf[c]
  <2>2. CallerInv(c) /\ k \in Cells
    BY <1>0 DEF CallersInv
  <2>3. pc'[c] # "served" /\ pc'[c] # "fetched" /\ (pc'[c] = "waiting" => pc[c] = "waiting")
    BY <1>10 DEF Tick, Woken
  <2>4. inflight[k] # None => inflight'[k] # None
    <3>1. SUFFICES ASSUME inflight[k] # None PROVE inflight'[k] # None
      OBVIOUS
    <3>2. inflight[k] \in Fetch /\ inflight[k].left > 0
      BY <1>0, <1>10, <2>2, <3>1 DEF Tick, InFlight
    <3>3. inflight' = [i \in Cells |-> IF inflight[i] = None THEN None
                        ELSE [inflight[i] EXCEPT !.left = inflight[i].left - 1]]
      BY <1>10 DEF Tick
    <3>4. inflight'[k] = [inflight[k] EXCEPT !.left = inflight[k].left - 1]
      BY <2>2, <3>1, <3>3
    <3>5. QED BY <3>2, <3>4, FetchAges, FetchIsNotNone
  <2>5. cache'[k] = Older(cache[k]) /\ captured'[c] = Older(captured[c])
    BY <1>10, <2>2 DEF Tick
  <2>6. /\ reply[c] = None => reply'[c] = None
        /\ reply[c] # None => reply[c].age \in Age /\ reply'[c].age = Older(reply[c].age)
    <3>1. CASE reply[c] = None
      BY <1>10, <3>1 DEF Tick
    <3>2. CASE reply[c] # None
      <4>1. reply'[c] = [reply[c] EXCEPT !.age = Older(reply[c].age)]
        BY <1>10, <3>2 DEF Tick
      <4>2. reply[c] \in Answers BY <1>0, <3>2
      <4>3. QED BY <3>2, <4>1, <4>2 DEF Answers
    <3>3. QED BY <3>1, <3>2
  <2>7. cache[k] \in Age \cup {None} /\ captured[c] \in Age \cup {None}
    BY <1>0, <2>2
  <2>8. Copies(c)'
    <3>1. cache'[k] # None /\ captured'[c] # None => cache'[k] <= captured'[c]
      BY <2>2, <2>5, <2>7, OlderIsMonotone DEF CallerInv, Copies
    <3>2. reply'[c] # None /\ cache'[k] # None => cache'[k] <= reply'[c].age
      BY <2>2, <2>5, <2>6, <2>7, OlderIsMonotone DEF CallerInv, Copies
    <3>3. reply'[c] # None /\ captured'[c] # None => captured'[c] <= reply'[c].age
      BY <2>2, <2>5, <2>6, <2>7, OlderIsMonotone DEF CallerInv, Copies
    <3>4. QED BY <2>3, <3>1, <3>2, <3>3 DEF Copies
  <2>9. QED BY <2>2, <2>3, <2>4, <2>8 DEF CallerInv
<1>11. CASE UNCHANGED vars
  BY <1>11 DEF vars, CallersInv, CallerInv, Copies
<1>12. QED
  BY <1>1, <1>2, <1>3, <1>4, <1>5, <1>6, <1>7, <1>8, <1>9, <1>10, <1>11 DEF Next

(* Lookups that wait are woken, because the result that ends their fetch   *)
(* finds them all.                                                         *)
THEOREM NoLookupIsLost == Spec => []NoLostWaiter
<1>1. Init => TypeOK /\ CallersInv
  BY TypeInit, CallersInit
<1>2. TypeOK /\ CallersInv /\ [Next]_vars => (TypeOK /\ CallersInv)'
  BY TypeStep, CallersStep
<1>3. CallersInv => NoLostWaiter
  BY DEF CallersInv, CallerInv, NoLostWaiter
<1>4. QED BY <1>1, <1>2, <1>3, PTL DEF Spec

(* Every answer is fresh, or marked stale and within the stale window.     *)
THEOREM AnswersAreInTime == Spec => []AnswersInTime
<1>1. Init => TypeOK /\ CallersInv
  BY TypeInit, CallersInit
<1>2. TypeOK /\ CallersInv /\ [Next]_vars => (TypeOK /\ CallersInv)'
  BY TypeStep, CallersStep
<1>3. CallersInv => AnswersInTime
  BY DEF CallersInv, CallerInv, AnswersInTime
<1>4. QED BY <1>1, <1>2, <1>3, PTL DEF Spec

-----------------------------------------------------------------------------
(* Answers never go back *)

Forward == \A c \in Callers : pc'[c] = "served" /\ reply[c] # None => reply'[c].age <= reply[c].age

LEMMA SameReplies ==
  ASSUME TypeOK, UNCHANGED reply PROVE Forward
<1>1. \A c \in Callers : reply[c] # None => reply[c].age \in Nat
  BY Constants DEF TypeOK, Answers, Age
<1>2. QED BY <1>1 DEF Forward

LEMMA AnswerForward ==
  ASSUME TypeOK, NEW c \in Callers, NEW age \in Age, NEW stale \in BOOLEAN, Answer(c, age, stale),
         reply[c] # None => age <= reply[c].age
  PROVE  Forward
<1>1. \A d \in Callers : reply[d] # None => reply[d].age \in Nat
  BY Constants DEF TypeOK, Answers, Age
<1>2. reply'[c].age = age /\ \A d \in Callers \ {c} : reply'[d] = reply[d]
  BY DEF Answer, TypeOK
<1>3. QED BY <1>1, <1>2 DEF Forward

LEMMA FallbackForward ==
  ASSUME TypeOK, NEW c \in Callers, NEW copy \in Age \cup {None}, Fallback(c, copy),
         reply[c] # None /\ copy # None => copy <= reply[c].age
  PROVE  Forward
<1>1. CASE Usable(copy) /\ Answer(c, copy, TRUE)
  <2>1. copy \in Age /\ copy # None BY <1>1 DEF Usable
  <2>2. QED BY <1>1, <2>1, AnswerForward
<1>2. CASE UNCHANGED reply
  BY <1>2, SameReplies
<1>3. QED BY <1>1, <1>2 DEF Fallback

LEMMA ForwardStep ==
  ASSUME TypeOK, CallersInv, Next PROVE Forward
<1>0. /\ \A c \in Callers : CellOf[c] \in Cells
      /\ cache \in [Cells -> Age \cup {None}] /\ captured \in [Callers -> Age \cup {None}]
  BY ConfigAssumption DEF TypeOK
<1>1. ASSUME NEW c \in Callers, GetHit(c) PROVE Forward
  <2>1. PICK age \in Age : age = cache[CellOf[c]] /\ age # None
    BY <1>0, <1>1 DEF GetHit, IsFresh
  <2>2. Answer(c, age, FALSE) BY <1>1, <2>1 DEF GetHit
  <2>3. reply[c] # None => age <= reply[c].age
    BY <2>1 DEF CallersInv, CallerInv, Copies
  <2>4. QED BY <2>2, <2>3, AnswerForward
<1>2. ASSUME NEW c \in Callers, GetRefused(c) PROVE Forward
  <2>1. PICK copy \in Age \cup {None} : copy = cache[CellOf[c]]
    BY <1>0
  <2>2. Fallback(c, copy) BY <1>2, <2>1 DEF GetRefused
  <2>3. reply[c] # None /\ copy # None => copy <= reply[c].age
    BY <2>1 DEF CallersInv, CallerInv, Copies
  <2>4. QED BY <2>2, <2>3, FallbackForward
<1>3. ASSUME NEW c \in Callers, Return(c) PROVE Forward
  <2>1. CASE Answer(c, 0, FALSE)
    <3>1. 0 \in Age /\ FALSE \in BOOLEAN BY Constants DEF Age
    <3>2. reply[c] # None => 0 <= reply[c].age
      BY Constants DEF TypeOK, Answers, Age
    <3>3. QED BY <2>1, <3>1, <3>2, AnswerForward
  <2>2. CASE Fallback(c, captured[c])
    <3>1. PICK copy \in Age \cup {None} : copy = captured[c]
      BY <1>0
    <3>2. reply[c] # None /\ copy # None => copy <= reply[c].age
      BY <3>1 DEF CallersInv, CallerInv, Copies
    <3>3. QED BY <2>2, <3>1, <3>2, FallbackForward
  <2>3. QED BY <1>3, <2>1, <2>2 DEF Return
<1>4. ASSUME NEW c \in Callers, GetJoin(c) \/ GetFetch(c) \/ GiveUp(c) PROVE Forward
  BY <1>4, SameReplies DEF GetJoin, GetFetch, GiveUp, Wait
<1>5. ASSUME NEW k \in Cells, Retry(k) \/ FetchSucceeds(k) \/ FetchFails(k) PROVE Forward
  BY <1>5, SameReplies DEF Retry, FetchSucceeds, FetchFails, Wake, callerVars
<1>6. CASE Tick
  BY <1>6 DEF Tick, Forward
<1>7. QED BY <1>1, <1>2, <1>3, <1>4, <1>5, <1>6 DEF Next

(* No caller gets older weather than it already had.                       *)
THEOREM AnswersNeverGoBack == Spec => MonotonicAnswers
<1>1. Init => TypeOK /\ CallersInv
  BY TypeInit, CallersInit
<1>2. TypeOK /\ CallersInv /\ [Next]_vars => (TypeOK /\ CallersInv)'
  BY TypeStep, CallersStep
<1>3. TypeOK /\ CallersInv /\ [Next]_vars => [Forward]_vars
  BY ForwardStep
<1>4. [Forward]_vars => [\A c \in Callers : pc'[c] = "served" /\ reply[c] # None =>
                             reply'[c].age <= reply[c].age]_vars
  BY DEF Forward
<1>5. QED BY <1>1, <1>2, <1>3, <1>4, PTL DEF Spec, MonotonicAnswers

-----------------------------------------------------------------------------
(* The budget.  A fetch pays with a token for every attempt it may make, so *)
(* that requests sent and attempts that are left move together: what was   *)
(* sent within some ticks, what may still be sent and what the bucket could *)
(* pay for never exceed what it held and got since the oldest of the        *)
(* fetches that could send in those ticks.                                  *)

Live(f, d) == {k \in Cells : f[k] # None /\ f[k].left >= FetchTimeout - d}

Retries(f) ==
  {p \in Cells \X (1 .. Attempts) :
     f[p[1]] # None /\ f[p[1]].left > 0 /\ p[2] > f[p[1]].attempt}

SentIn(r, j) == UNION {{i} \X (1 .. r[i]) : i \in 1 .. j}

Budget(d) == Full + MaxRequestsPerMinute * d

FetchesPaid ==
  \A d \in 0 .. FetchTimeout - 1 :
    Minute * Cardinality(Live(inflight, d)) + tokens <= Budget(d)

RequestsPaid ==
  \A j \in 1 .. Minute :
    Minute * (Cardinality(SentIn(requests, j)) + Cardinality(Retries(inflight))) + Attempts * tokens
      <= Attempts * Budget(j + FetchTimeout - 2)

BudgetInv == FetchesPaid /\ RequestsPaid

(* Everything that is counted is finite.                                    *)
LEMMA SentCounted ==
  ASSUME NEW r \in [1 .. Minute -> Nat], NEW j \in 0 .. Minute
  PROVE  IsFiniteSet(SentIn(r, j)) /\ Cardinality(SentIn(r, j)) \in Nat
<1> DEFINE of == [i \in 1 .. j |-> {i} \X (1 .. r[i])]
           ticks == {{i} \X (1 .. r[i]) : i \in 1 .. j}
<1>1. IsFiniteSet(1 .. j)
  <2>1. j \in Int /\ 1 \in Int BY Constants
  <2>2. QED BY <2>1, FS_Interval
<1>2. of \in Surjection(1 .. j, ticks) BY DEF Surjection
<1>3. IsFiniteSet(ticks) BY <1>1, <1>2, FS_Surjection
<1>4. \A T \in ticks : IsFiniteSet(T)
  <2>1. ASSUME NEW i \in 1 .. j PROVE IsFiniteSet({i} \X (1 .. r[i]))
    <3>1. r[i] \in Int /\ 1 \in Int BY Constants
    <3>2. IsFiniteSet(1 .. r[i]) BY <3>1, FS_Interval
    <3>3. IsFiniteSet({i}) BY FS_Singleton
    <3>4. QED BY <3>2, <3>3, FS_Product
  <2>2. QED BY <2>1
<1>5. IsFiniteSet(SentIn(r, j)) BY <1>3, <1>4, FS_UNION DEF SentIn
<1>6. QED BY <1>5, FS_CardinalityType

LEMMA FetchesCounted ==
  ASSUME NEW f
  PROVE  /\ \A d : IsFiniteSet(Live(f, d)) /\ Cardinality(Live(f, d)) \in Nat
         /\ IsFiniteSet(Retries(f)) /\ Cardinality(Retries(f)) \in Nat
<1>1. IsFiniteSet(Cells \X (1 .. Attempts))
  <2>1. Attempts \in Int /\ 1 \in Int BY Constants
  <2>2. IsFiniteSet(1 .. Attempts) BY <2>1, FS_Interval
  <2>3. QED BY <2>2, ConfigAssumption, FS_Product
<1>2. Retries(f) \in SUBSET (Cells \X (1 .. Attempts)) BY DEF Retries
<1>3. \A d : Live(f, d) \in SUBSET Cells BY DEF Live
<1>4. QED BY <1>1, <1>2, <1>3, ConfigAssumption, FS_Subset, FS_CardinalityType

(* A request more is one more in every span of ticks.                       *)
LEMMA SentMore ==
  ASSUME NEW r \in [1 .. Minute -> Nat], NEW q, q = [r EXCEPT ![1] = @ + 1],
         NEW j \in 1 .. Minute
  PROVE  Cardinality(SentIn(q, j)) = Cardinality(SentIn(r, j)) + 1
<1>1. q \in [1 .. Minute -> Nat] /\ q[1] = r[1] + 1 /\ r[1] \in Nat
      /\ \A i \in 2 .. Minute : q[i] = r[i]
  BY Constants
<1>2. 1 .. q[1] = (1 .. r[1]) \cup {r[1] + 1} BY <1>1
<1>3. SentIn(q, j) = SentIn(r, j) \cup {<<1, r[1] + 1>>}
  <2>1. ASSUME NEW i \in 1 .. j PROVE {i} \X (1 .. q[i]) =
               ({i} \X (1 .. r[i])) \cup (IF i = 1 THEN {<<1, r[1] + 1>>} ELSE {})
    <3>1. CASE i = 1 BY <3>1, <1>2
    <3>2. CASE i # 1
      <4>1. i \in 2 .. Minute BY <3>2, Constants
      <4>2. QED BY <4>1, <3>2, <1>1
    <3>3. QED BY <3>1, <3>2
  <2>2. 1 \in 1 .. j OBVIOUS
  <2>3. QED BY <2>1, <2>2 DEF SentIn
<1>4. <<1, r[1] + 1>> \notin SentIn(r, j)
  <2>1. ASSUME NEW i \in 1 .. j, <<1, r[1] + 1>> \in {i} \X (1 .. r[i]) PROVE FALSE
    BY <2>1, <1>1
  <2>2. QED BY <2>1 DEF SentIn
<1>5. j \in 0 .. Minute OBVIOUS
<1>6. QED BY <1>3, <1>4, <1>5, SentCounted, FS_AddElement

(* A tick later, what was sent in the last j ticks was sent in the last     *)
(* j - 1 before it.                                                         *)
LEMMA SentAges ==
  ASSUME NEW r \in [1 .. Minute -> Nat], NEW q,
         q = [i \in 1 .. Minute |-> IF i = 1 THEN 0 ELSE r[i - 1]],
         NEW j \in 1 .. Minute
  PROVE  Cardinality(SentIn(q, j)) <= Cardinality(SentIn(r, j - 1))
<1> DEFINE back == [p \in SentIn(q, j) |-> <<p[1] - 1, p[2]>>]
<1>1. ASSUME NEW p \in SentIn(q, j)
      PROVE  p[1] \in 2 .. j /\ p[2] \in 1 .. r[p[1] - 1] /\ p = <<p[1], p[2]>>
  <2>1. PICK i \in 1 .. j : p \in {i} \X (1 .. q[i]) BY DEF SentIn
  <2>2. p[1] = i /\ p[2] \in 1 .. q[i] /\ p = <<p[1], p[2]>> BY <2>1
  <2>3. i # 1 BY <2>2, Constants
  <2>4. q[i] = r[i - 1] BY <2>3, Constants
  <2>5. QED BY <2>2, <2>3, <2>4
<1>2. ASSUME NEW p \in SentIn(q, j) PROVE back[p] \in SentIn(r, j - 1)
  <2>1. p[1] - 1 \in 1 .. j - 1 /\ p[2] \in 1 .. r[p[1] - 1] BY <1>1
  <2>2. <<p[1] - 1, p[2]>> \in {p[1] - 1} \X (1 .. r[p[1] - 1]) BY <2>1
  <2>3. QED BY <2>1, <2>2 DEF SentIn
<1>3. ASSUME NEW p \in SentIn(q, j), NEW s \in SentIn(q, j), back[p] = back[s] PROVE p = s
  <2>1. p[1] - 1 = s[1] - 1 /\ p[2] = s[2] BY <1>3
  <2>2. p[1] \in Int /\ s[1] \in Int BY <1>1
  <2>3. p[1] = s[1] BY <2>1, <2>2
  <2>4. QED BY <2>1, <2>3, <1>1
<1>4. back \in Injection(SentIn(q, j), SentIn(r, j - 1)) BY <1>2, <1>3 DEF Injection, IsInjective
<1>5. IsFiniteSet(SentIn(r, j - 1))
  <2>1. j - 1 \in 0 .. Minute BY Constants
  <2>2. QED BY <2>1, SentCounted
<1>6. QED BY <1>4, <1>5, FS_Injection

(* Sets of attempts, one by one.                                            *)
LEMMA PairsIncluded ==
  ASSUME NEW S \in SUBSET (Cells \X (1 .. Attempts)), NEW T,
         \A j \in Cells : \A a \in 1 .. Attempts : <<j, a>> \in S => <<j, a>> \in T
  PROVE  S \subseteq T
<1>1. ASSUME NEW p \in S PROVE p \in T
  <2>1. p[1] \in Cells /\ p[2] \in 1 .. Attempts /\ p = <<p[1], p[2]>> OBVIOUS
  <2>2. QED BY <2>1
<1>2. QED BY <1>1

(* A fetch that starts has all its attempts but the first before it.        *)
LEMMA FetchStarts ==
  ASSUME NEW f \in [Cells -> Fetch \cup {None}], NEW k \in Cells, f[k] = None,
         NEW g, g[k] = [left |-> FetchTimeout, attempt |-> 1],
         \A j \in Cells : j # k => g[j] = f[j]
  PROVE  /\ \A d \in Nat : Cardinality(Live(g, d)) = Cardinality(Live(f, d)) + 1
         /\ Cardinality(Retries(g)) = Cardinality(Retries(f)) + (Attempts - 1)
<1>1. /\ g[k] = [left |-> FetchTimeout, attempt |-> 1] /\ g[k] # None
      /\ \A j \in Cells : j # k => g[j] = f[j]
  <2>1. [left |-> FetchTimeout, attempt |-> 1] \in Fetch BY Constants DEF Fetch
  <2>2. QED BY <2>1, FetchIsNotNone
<1>2. ASSUME NEW d \in Nat PROVE Cardinality(Live(g, d)) = Cardinality(Live(f, d)) + 1
  <2>1. k \in Live(g, d) BY <1>1, Constants DEF Live
  <2>2. Live(g, d) = Live(f, d) \cup {k} BY <1>1, <2>1 DEF Live
  <2>3. k \notin Live(f, d) BY DEF Live
  <2>4. QED BY <2>2, <2>3, FetchesCounted, FS_AddElement
<1>3. Cardinality(Retries(g)) = Cardinality(Retries(f)) + (Attempts - 1)
  <2> DEFINE own == {k} \X (2 .. Attempts)
  <2>1. Retries(g) = Retries(f) \cup own
    <3>1. ASSUME NEW j \in Cells, NEW a \in 1 .. Attempts
          PROVE  <<j, a>> \in Retries(g) <=> <<j, a>> \in Retries(f) \/ <<j, a>> \in own
      <4>1. CASE j = k
        <5>1. <<k, a>> \in Retries(g) <=> a > 1 BY <1>1, Constants DEF Retries
        <5>2. <<k, a>> \notin Retries(f) BY DEF Retries
        <5>3. <<k, a>> \in own <=> a > 1 BY Constants
        <5>4. QED BY <4>1, <5>1, <5>2, <5>3
      <4>2. CASE j # k
        <5>1. <<j, a>> \in Retries(g) <=> <<j, a>> \in Retries(f) BY <4>2, <1>1 DEF Retries
        <5>2. <<j, a>> \notin own BY <4>2
        <5>3. QED BY <5>1, <5>2
      <4>3. QED BY <4>1, <4>2
    <3>2. own \subseteq Cells \X (1 .. Attempts) BY Constants
    <3>3. Retries(f) \subseteq Cells \X (1 .. Attempts) /\ Retries(g) \subseteq Cells \X (1 .. Attempts)
      BY DEF Retries
    <3> HIDE DEF own
    <3>4. Retries(f) \cup own \in SUBSET (Cells \X (1 .. Attempts)) BY <3>2, <3>3
    <3>5. Retries(g) \subseteq Retries(f) \cup own BY <3>1, <3>3, PairsIncluded
    <3>6. Retries(f) \cup own \subseteq Retries(g) BY <3>1, <3>4, PairsIncluded
    <3>7. QED BY <3>5, <3>6
  <2>2. Retries(f) \cap own = {} BY DEF Retries
  <2>3. IsFiniteSet(own) /\ Cardinality(own) = Attempts - 1
    <3>1. 2 \in Int /\ Attempts \in Int /\ Attempts >= 1 BY Constants
    <3>2. IsFiniteSet(2 .. Attempts) /\ Cardinality(2 .. Attempts) = Attempts - 1
      BY <3>1, FS_Interval
    <3>3. IsFiniteSet({k}) /\ Cardinality({k}) = 1 BY FS_Singleton
    <3>4. IsFiniteSet(own) /\ Cardinality(own) = Cardinality({k}) * Cardinality(2 .. Attempts)
      BY <3>2, <3>3, FS_Product
    <3> HIDE DEF own
    <3>5. QED BY <3>1, <3>2, <3>3, <3>4
  <2> HIDE DEF own
  <2>4. Cardinality({}) = 0 BY FS_EmptySet
  <2>5. Cardinality(Retries(f) \cup own) =
          Cardinality(Retries(f)) + Cardinality(own) - Cardinality(Retries(f) \cap own)
    BY <2>3, FetchesCounted, FS_Union
  <2>6. Cardinality(Retries(f)) \in Nat BY FetchesCounted
  <2>7. Cardinality(Retries(g)) = Cardinality(Retries(f)) + Cardinality(own) - Cardinality({})
    BY <2>1, <2>2, <2>5
  <2>8. Attempts - 1 \in Nat BY Constants
  <2>9. QED BY <2>3, <2>4, <2>6, <2>7, <2>8
<1>4. QED BY <1>2, <1>3

(* An attempt more is one less that is left.                                *)
LEMMA FetchRetries ==
  ASSUME NEW f \in [Cells -> Fetch \cup {None}], NEW k \in Cells, f[k] # None,
         f[k].left > 0, f[k].attempt < Attempts,
         NEW g, g[k] = [left |-> f[k].left, attempt |-> f[k].attempt + 1],
         \A j \in Cells : j # k => g[j] = f[j]
  PROVE  /\ \A d \in Nat : Live(g, d) = Live(f, d)
         /\ Cardinality(Retries(f)) = Cardinality(Retries(g)) + 1
<1>0. f[k] \in Fetch OBVIOUS
<1>1. /\ g[k] = [left |-> f[k].left, attempt |-> f[k].attempt + 1] /\ g[k] # None
      /\ \A j \in Cells : j # k => g[j] = f[j]
      /\ f[k].attempt + 1 \in 1 .. Attempts
  <2>1. f[k].attempt + 1 \in 1 .. Attempts BY <1>0, Constants DEF Fetch
  <2>2. [left |-> f[k].left, attempt |-> f[k].attempt + 1] \in Fetch BY <1>0, <2>1 DEF Fetch
  <2>3. QED BY <2>1, <2>2, FetchIsNotNone
<1>2. \A d \in Nat : Live(g, d) = Live(f, d) BY <1>1 DEF Live
<1> DEFINE this == <<k, f[k].attempt + 1>>
<1>3. Retries(g) = Retries(f) \ {this}
  <2>1. ASSUME NEW j \in Cells, NEW a \in 1 .. Attempts
        PROVE  <<j, a>> \in Retries(g) <=> <<j, a>> \in Retries(f) /\ <<j, a>> # this
    <3>1. CASE j = k
      <4>1. <<k, a>> \in Retries(g) <=> a > f[k].attempt + 1 BY <1>1 DEF Retries
      <4>2. <<k, a>> \in Retries(f) <=> a > f[k].attempt BY DEF Retries
      <4>3. f[k].attempt \in Int BY <1>0, Constants DEF Fetch
      <4>4. QED BY <3>1, <4>1, <4>2, <4>3
    <3>2. CASE j # k BY <3>2, <1>1 DEF Retries
    <3>3. QED BY <3>1, <3>2
  <2>2. Retries(f) \subseteq Cells \X (1 .. Attempts) /\ Retries(g) \subseteq Cells \X (1 .. Attempts)
    BY DEF Retries
  <2> HIDE DEF this
  <2>3. Retries(g) \subseteq Retries(f) \ {this} BY <2>1, <2>2, PairsIncluded
  <2>4. Retries(f) \ {this} \in SUBSET (Cells \X (1 .. Attempts)) BY <2>2
  <2>5. Retries(f) \ {this} \subseteq Retries(g) BY <2>1, <2>4, PairsIncluded
  <2>6. QED BY <2>3, <2>5
<1>4. this \in Retries(f)
  <2>1. f[k].attempt + 1 > f[k].attempt BY <1>0, Constants DEF Fetch
  <2>2. QED BY <1>1, <2>1 DEF Retries
<1> HIDE DEF this
<1>5. Cardinality(Retries(g)) = Cardinality(Retries(f)) - 1
  BY <1>3, <1>4, FetchesCounted, FS_RemoveElement
<1>6. Cardinality(Retries(f)) \in Nat BY FetchesCounted
<1>7. QED BY <1>2, <1>5, <1>6

LEMMA FetchEnds ==
  ASSUME NEW f \in [Cells -> Fetch \cup {None}], NEW k \in Cells,
         NEW g, g = [f EXCEPT ![k] = None]
  PROVE  /\ \A d \in Nat : Cardinality(Live(g, d)) <= Cardinality(Live(f, d))
         /\ Cardinality(Retries(g)) <= Cardinality(Retries(f))
<1>1. g[k] = None /\ \A j \in Cells : j # k => g[j] = f[j] OBVIOUS
<1>2. \A d \in Nat : Live(g, d) \in SUBSET Live(f, d) BY <1>1 DEF Live
<1>3. Retries(g) \in SUBSET Retries(f)
  <2>1. ASSUME NEW j \in Cells, NEW a \in 1 .. Attempts, <<j, a>> \in Retries(g)
        PROVE  <<j, a>> \in Retries(f)
    BY <2>1, <1>1 DEF Retries
  <2>2. Retries(g) \in SUBSET (Cells \X (1 .. Attempts)) BY DEF Retries
  <2>3. QED BY <2>1, <2>2, PairsIncluded
<1>4. QED BY <1>2, <1>3, FetchesCounted, FS_Subset

(* A tick later, those of the last d ticks were those of the last d - 1;    *)
(* who is out of time tries nothing more.                                   *)
LEMMA FetchesAge ==
  ASSUME NEW f \in [Cells -> Fetch \cup {None}],
         \A k \in Cells : f[k] # None => f[k].left > 0,
         NEW g, g = [k \in Cells |-> IF f[k] = None THEN None ELSE [f[k] EXCEPT !.left = @ - 1]]
  PROVE  /\ Cardinality(Live(g, 0)) = 0
         /\ \A d \in Nat \ {0} : Cardinality(Live(g, d)) <= Cardinality(Live(f, d - 1))
         /\ Cardinality(Retries(g)) <= Cardinality(Retries(f))
         /\ Cardinality(Retries(g)) <= Cardinality(Live(g, FetchTimeout - 1)) * Attempts
<1>1. ASSUME NEW k \in Cells, g[k] # None
      PROVE  /\ f[k] # None /\ f[k].left \in 1 .. FetchTimeout
             /\ g[k].left = f[k].left - 1 /\ g[k].attempt = f[k].attempt
  <2>1. f[k] \in Fetch /\ g[k] = [f[k] EXCEPT !.left = @ - 1] BY <1>1
  <2>2. QED BY <2>1, Constants DEF Fetch
<1>2. Live(g, 0) = {} BY <1>1, Constants DEF Live
<1>3. \A d \in Nat \ {0} : Live(g, d) \in SUBSET Live(f, d - 1) BY <1>1, Constants DEF Live
<1>4. Retries(g) \in SUBSET (Cells \X (1 .. Attempts)) BY DEF Retries
<1>5. Retries(g) \in SUBSET Retries(f)
  <2>1. ASSUME NEW j \in Cells, NEW a \in 1 .. Attempts, <<j, a>> \in Retries(g)
        PROVE  <<j, a>> \in Retries(f)
    BY <2>1, <1>1 DEF Retries
  <2>2. QED BY <2>1, <1>4, PairsIncluded
<1>6. Retries(g) \in SUBSET (Live(g, FetchTimeout - 1) \X (1 .. Attempts))
  <2>1. ASSUME NEW j \in Cells, NEW a \in 1 .. Attempts, <<j, a>> \in Retries(g)
        PROVE  j \in Live(g, FetchTimeout - 1)
    <3>1. g[j] # None /\ g[j].left > 0 BY <2>1 DEF Retries
    <3>2. g[j].left \in Int BY <3>1, <1>1
    <3>3. QED BY <3>1, <3>2, Constants DEF Live
  <2>2. ASSUME NEW j \in Cells, NEW a \in 1 .. Attempts, <<j, a>> \in Retries(g)
        PROVE  <<j, a>> \in Live(g, FetchTimeout - 1) \X (1 .. Attempts)
    BY <2>1, <2>2
  <2>3. QED BY <2>2, <1>4, PairsIncluded
<1>7. /\ IsFiniteSet(Live(g, FetchTimeout - 1) \X (1 .. Attempts))
      /\ Cardinality(Live(g, FetchTimeout - 1) \X (1 .. Attempts)) =
           Cardinality(Live(g, FetchTimeout - 1)) * Attempts
  <2>1. 1 \in Int /\ Attempts \in Int /\ Attempts >= 1 BY Constants
  <2>2. IsFiniteSet(1 .. Attempts) /\ Cardinality(1 .. Attempts) = Attempts
    BY <2>1, FS_Interval
  <2>3. QED BY <2>2, FetchesCounted, FS_Product
<1>8. QED BY <1>2, <1>3, <1>5, <1>6, <1>7, FetchesCounted, FS_Subset, FS_EmptySet

(* Sums and products of the budget, for whatever counts.                    *)
LEMMA Paid ==
  ASSUME NEW n \in Nat, NEW m \in Nat, NEW t \in Nat, NEW b \in Int,
         Minute * n + t <= b, m <= n
  PROVE  Minute * m + t <= b
<1>1. Minute * m <= Minute * n BY Constants
<1>2. Minute * m \in Int /\ Minute * n \in Int BY Constants
<1>3. QED BY <1>1, <1>2

(* A fetch started: a token for Minute, Attempts times.                     *)
LEMMA PaidByToken ==
  ASSUME NEW n \in Nat, NEW t \in Nat, NEW a \in Nat, NEW b \in Int,
         Minute * n + a * t <= b
  PROVE  Minute * (n + a) + a * (t - Minute) <= b
<1>1. Minute * (n + a) + a * (t - Minute) = Minute * n + a * t BY Constants
<1>2. QED BY <1>1

(* All attempts of each fetch.                                              *)
LEMMA PaidByFetches ==
  ASSUME NEW n \in Nat, NEW t \in Nat, NEW b \in Int, Minute * n + t <= b
  PROVE  Minute * (n * Attempts) + Attempts * t <= Attempts * b
<1>1. PICK a \in Nat : a = Attempts BY Constants
<1>2. PICK x \in Int : x = Minute * n + t BY Constants
<1>3. x <= b BY <1>2
<1>4. a * x <= a * b BY <1>3
<1>5. a * x = Minute * (n * a) + a * t BY <1>2, Constants
<1>6. QED BY <1>1, <1>4, <1>5

LEMMA BudgetGrows ==
  ASSUME NEW d \in Int
  PROVE  Budget(d) \in Int /\ Budget(d + 1) = Budget(d) + MaxRequestsPerMinute
BY Constants DEF Budget

(* Attempts times what one more tick brings.                                *)
LEMMA PaidByTick ==
  ASSUME NEW n \in Nat, NEW m \in Nat, NEW t \in Nat, NEW u \in Nat, NEW d \in Int,
         Minute * n + Attempts * t <= Attempts * Budget(d),
         m <= n, u <= t + MaxRequestsPerMinute
  PROVE  Minute * m + Attempts * u <= Attempts * Budget(d + 1)
<1>1. PICK b \in Int : b = Budget(d) BY BudgetGrows
<1>2. Attempts * u <= Attempts * (t + MaxRequestsPerMinute) BY Constants
<1>3. /\ Attempts * (t + MaxRequestsPerMinute) = Attempts * t + Attempts * MaxRequestsPerMinute
      /\ Attempts * (b + MaxRequestsPerMinute) = Attempts * b + Attempts * MaxRequestsPerMinute
  BY Constants
<1>4. Minute * m <= Minute * n BY Constants
<1>5. /\ Minute * m \in Int /\ Minute * n \in Int /\ Attempts * u \in Int /\ Attempts * t \in Int
      /\ Attempts * b \in Int /\ Attempts * MaxRequestsPerMinute \in Int
  BY Constants
<1>6. Budget(d + 1) = b + MaxRequestsPerMinute BY <1>1, BudgetGrows
<1>7. Minute * n + Attempts * t <= Attempts * b BY <1>1
<1> HIDE DEF Budget
<1>8. Minute * m + Attempts * u <= Attempts * (b + MaxRequestsPerMinute)
  BY <1>2, <1>3, <1>4, <1>5, <1>7
<1>9. QED BY <1>6, <1>8

-----------------------------------------------------------------------------
LEMMA BudgetInit == Init => BudgetInv
<1> SUFFICES ASSUME Init PROVE BudgetInv OBVIOUS
<1>1. \A d \in Nat : Live(inflight, d) = {} BY DEF Init, Live
<1>2. Retries(inflight) = {} BY DEF Init, Retries
<1>3. ASSUME NEW j \in 1 .. Minute PROVE SentIn(requests, j) = {}
  <2>1. ASSUME NEW i \in 1 .. j PROVE {i} \X (1 .. requests[i]) = {}
    <3>1. requests[i] = 0 BY Constants DEF Init
    <3>2. QED BY <3>1
  <2>2. QED BY <2>1 DEF SentIn
<1>4. Cardinality({}) = 0 BY FS_EmptySet
<1>5. tokens = Full BY DEF Init
<1>6. ASSUME NEW d \in Nat PROVE Budget(d) \in Int /\ Full <= Budget(d)
  BY Constants DEF Budget
<1>7. FetchesPaid
  <2>1. ASSUME NEW d \in 0 .. FetchTimeout - 1
        PROVE  Minute * Cardinality(Live(inflight, d)) + tokens <= Budget(d)
    <3>1. d \in Nat BY Constants
    <3>2. Cardinality(Live(inflight, d)) = 0 BY <1>1, <1>4, <3>1
    <3>3. QED BY <1>5, <1>6, <3>1, <3>2, Constants
  <2>2. QED BY <2>1 DEF FetchesPaid
<1>8. RequestsPaid
  <2>1. ASSUME NEW j \in 1 .. Minute
        PROVE  Minute * (Cardinality(SentIn(requests, j)) + Cardinality(Retries(inflight)))
                 + Attempts * tokens <= Attempts * Budget(j + FetchTimeout - 2)
    <3>1. j + FetchTimeout - 2 \in Nat BY Constants
    <3>2. PICK b \in Int : b = Budget(j + FetchTimeout - 2) /\ Full <= b BY <1>6, <3>1
    <3>3. Cardinality(SentIn(requests, j)) = 0 /\ Cardinality(Retries(inflight)) = 0
      BY <1>2, <1>3, <1>4
    <3>4. Minute * (0 + 0) + Attempts * Full <= Attempts * b BY <3>2, Constants
    <3>5. QED BY <1>5, <3>2, <3>3, <3>4
  <2>2. QED BY <2>1 DEF RequestsPaid
<1>9. QED BY <1>7, <1>8 DEF BudgetInv

LEMMA BudgetSame ==
  ASSUME BudgetInv, UNCHANGED <<inflight, tokens, requests>> PROVE BudgetInv'
BY DEF BudgetInv, FetchesPaid, RequestsPaid

LEMMA BudgetStart ==
  ASSUME TypeOK, TypeOK', BudgetInv, NEW c \in Callers, GetFetch(c) PROVE BudgetInv'
<1> DEFINE k == CellOf[c]
<1>0. /\ k \in Cells /\ inflight \in [Cells -> Fetch \cup {None}]
      /\ inflight' \in [Cells -> Fetch \cup {None}] /\ requests \in [1 .. Minute -> Nat]
      /\ tokens \in Nat /\ tokens' = tokens - Minute /\ tokens' \in Nat
  BY ConfigAssumption, Constants DEF TypeOK, GetFetch
<1>1. /\ inflight[k] = None /\ inflight'[k] = [left |-> FetchTimeout, attempt |-> 1]
      /\ \A j \in Cells : j # k => inflight'[j] = inflight[j]
  BY <1>0 DEF GetFetch
<1>2. requests' = [requests EXCEPT ![1] = @ + 1] BY DEF GetFetch, SendRequest
<1> HIDE DEF k
<1>3. /\ \A d \in Nat : Cardinality(Live(inflight', d)) = Cardinality(Live(inflight, d)) + 1
      /\ Cardinality(Retries(inflight')) = Cardinality(Retries(inflight)) + (Attempts - 1)
  BY <1>0, <1>1, FetchStarts
<1>4. FetchesPaid'
  <2>1. ASSUME NEW d \in 0 .. FetchTimeout - 1
        PROVE  Minute * Cardinality(Live(inflight', d)) + tokens' <= Budget(d)
    <3>1. PICK n \in Nat : n = Cardinality(Live(inflight, d)) BY FetchesCounted
    <3>2. Cardinality(Live(inflight', d)) = n + 1 BY <1>3, <3>1, Constants
    <3>3. PICK b \in Int : b = Budget(d) BY BudgetGrows
    <3>4. Minute * n + tokens <= b BY <3>1, <3>3 DEF BudgetInv, FetchesPaid
    <3>5. Minute * (n + 1) + (tokens - Minute) = Minute * n + tokens BY <1>0, Constants
    <3>6. QED BY <1>0, <3>2, <3>3, <3>4, <3>5
  <2>2. QED BY <2>1 DEF FetchesPaid
<1>5. RequestsPaid'
  <2>1. ASSUME NEW j \in 1 .. Minute
        PROVE  Minute * (Cardinality(SentIn(requests', j)) + Cardinality(Retries(inflight')))
                 + Attempts * tokens' <= Attempts * Budget(j + FetchTimeout - 2)
    <3>1. j \in 0 .. Minute BY Constants
    <3>2. PICK s \in Nat : s = Cardinality(SentIn(requests, j)) BY <1>0, <3>1, SentCounted
    <3>3. PICK r \in Nat : r = Cardinality(Retries(inflight)) BY FetchesCounted
    <3>4. Cardinality(SentIn(requests', j)) = s + 1 BY <1>0, <1>2, <3>2, SentMore
    <3>5. j + FetchTimeout - 2 \in Int BY Constants
    <3>6. PICK b \in Int : b = Attempts * Budget(j + FetchTimeout - 2)
      <4>1. Budget(j + FetchTimeout - 2) \in Int BY <3>5, BudgetGrows
      <4>2. QED BY <4>1, Constants
    <3>7. Minute * (s + r) + Attempts * tokens <= b
      BY <3>2, <3>3, <3>6 DEF BudgetInv, RequestsPaid
    <3>8. Attempts \in Nat /\ s + r \in Nat BY Constants
    <3>9. Minute * (s + r + Attempts) + Attempts * (tokens - Minute) <= b
      BY <1>0, <3>7, <3>8, PaidByToken
    <3>10. (s + 1) + (r + (Attempts - 1)) = s + r + Attempts BY <3>8
    <3>11. QED BY <1>0, <1>3, <3>3, <3>4, <3>6, <3>9, <3>10
  <2>2. QED BY <2>1 DEF RequestsPaid
<1>6. QED BY <1>4, <1>5 DEF BudgetInv

LEMMA BudgetRetry ==
  ASSUME TypeOK, TypeOK', BudgetInv, NEW k \in Cells, Retry(k) PROVE BudgetInv'
<1>0. /\ inflight \in [Cells -> Fetch \cup {None}] /\ inflight' \in [Cells -> Fetch \cup {None}]
      /\ requests \in [1 .. Minute -> Nat] /\ tokens \in Nat /\ tokens' = tokens
  BY Constants DEF TypeOK, Retry
<1>1. /\ inflight[k] # None /\ inflight[k].left > 0 /\ inflight[k].attempt < Attempts
      /\ inflight'[k] = [left |-> inflight[k].left, attempt |-> inflight[k].attempt + 1]
      /\ \A j \in Cells : j # k => inflight'[j] = inflight[j]
  <2>1. inflight[k] # None /\ inflight[k].left > 0 /\ inflight[k].attempt < Attempts
    BY DEF Retry
  <2>2. inflight[k] \in Fetch BY <1>0, <2>1
  <2>3. inflight' = [inflight EXCEPT ![k] = [inflight[k] EXCEPT !.attempt = inflight[k].attempt + 1]]
    BY DEF Retry
  <2>4. [inflight[k] EXCEPT !.attempt = inflight[k].attempt + 1]
          = [left |-> inflight[k].left, attempt |-> inflight[k].attempt + 1]
    BY <2>2 DEF Fetch
  <2>5. QED BY <1>0, <2>1, <2>3, <2>4
<1>2. requests' = [requests EXCEPT ![1] = @ + 1] BY DEF Retry, SendRequest
<1>3. /\ \A d \in Nat : Live(inflight', d) = Live(inflight, d)
      /\ Cardinality(Retries(inflight)) = Cardinality(Retries(inflight')) + 1
  BY <1>0, <1>1, FetchRetries
<1>4. FetchesPaid'
  <2>1. ASSUME NEW d \in 0 .. FetchTimeout - 1
        PROVE  Minute * Cardinality(Live(inflight', d)) + tokens' <= Budget(d)
    <3>1. Live(inflight', d) = Live(inflight, d) BY <1>3, Constants
    <3>2. Minute * Cardinality(Live(inflight, d)) + tokens <= Budget(d)
      BY DEF BudgetInv, FetchesPaid
    <3>3. QED BY <1>0, <3>1, <3>2
  <2>2. QED BY <2>1 DEF FetchesPaid
<1>5. RequestsPaid'
  <2>1. ASSUME NEW j \in 1 .. Minute
        PROVE  Minute * (Cardinality(SentIn(requests', j)) + Cardinality(Retries(inflight')))
                 + Attempts * tokens' <= Attempts * Budget(j + FetchTimeout - 2)
    <3>1. j \in 0 .. Minute BY Constants
    <3>2. PICK s \in Nat : s = Cardinality(SentIn(requests, j)) BY <1>0, <3>1, SentCounted
    <3>3. PICK r \in Nat : r = Cardinality(Retries(inflight')) BY FetchesCounted
    <3>4. Cardinality(SentIn(requests', j)) = s + 1 BY <1>0, <1>2, <3>2, SentMore
    <3>5. Cardinality(Retries(inflight)) = r + 1 BY <1>3, <3>3
    <3>6. Minute * (s + (r + 1)) + Attempts * tokens <= Attempts * Budget(j + FetchTimeout - 2)
      BY <3>2, <3>5 DEF BudgetInv, RequestsPaid
    <3>7. s + (r + 1) = (s + 1) + r OBVIOUS
    <3>8. QED BY <1>0, <3>3, <3>4, <3>6, <3>7
  <2>2. QED BY <2>1 DEF RequestsPaid
<1>6. QED BY <1>4, <1>5 DEF BudgetInv

LEMMA BudgetEnd ==
  ASSUME TypeOK, BudgetInv, NEW k \in Cells, FetchSucceeds(k) \/ FetchFails(k) PROVE BudgetInv'
<1>0. /\ inflight \in [Cells -> Fetch \cup {None}] /\ requests \in [1 .. Minute -> Nat]
      /\ tokens \in Nat /\ UNCHANGED <<tokens, requests>>
      /\ inflight' = [inflight EXCEPT ![k] = None]
  BY Constants DEF TypeOK, FetchSucceeds, FetchFails, Wake
<1>1. /\ \A d \in Nat : Cardinality(Live(inflight', d)) <= Cardinality(Live(inflight, d))
      /\ Cardinality(Retries(inflight')) <= Cardinality(Retries(inflight))
  BY <1>0, FetchEnds
<1>2. FetchesPaid'
  <2>1. ASSUME NEW d \in 0 .. FetchTimeout - 1
        PROVE  Minute * Cardinality(Live(inflight', d)) + tokens' <= Budget(d)
    <3>1. PICK n \in Nat : n = Cardinality(Live(inflight, d)) BY FetchesCounted
    <3>2. PICK m \in Nat : m = Cardinality(Live(inflight', d)) BY FetchesCounted
    <3>3. m <= n BY <1>1, <3>1, <3>2, Constants
    <3>4. PICK b \in Int : b = Budget(d) BY BudgetGrows
    <3>5. Minute * n + tokens <= b BY <3>1, <3>4 DEF BudgetInv, FetchesPaid
    <3>6. Minute * m + tokens <= b BY <1>0, <3>3, <3>5, Paid
    <3>7. QED BY <1>0, <3>2, <3>4, <3>6
  <2>2. QED BY <2>1 DEF FetchesPaid
<1>3. RequestsPaid'
  <2>1. ASSUME NEW j \in 1 .. Minute
        PROVE  Minute * (Cardinality(SentIn(requests', j)) + Cardinality(Retries(inflight')))
                 + Attempts * tokens' <= Attempts * Budget(j + FetchTimeout - 2)
    <3>1. j \in 0 .. Minute BY Constants
    <3>2. PICK s \in Nat : s = Cardinality(SentIn(requests, j)) BY <1>0, <3>1, SentCounted
    <3>3. PICK r \in Nat : r = Cardinality(Retries(inflight)) BY FetchesCounted
    <3>4. PICK q \in Nat : q = Cardinality(Retries(inflight')) BY FetchesCounted
    <3>5. s + q \in Nat /\ s + r \in Nat /\ s + q <= s + r BY <1>1, <3>3, <3>4
    <3>6. PICK b \in Int : b = Attempts * Budget(j + FetchTimeout - 2)
      <4>1. j + FetchTimeout - 2 \in Int BY Constants
      <4>2. Budget(j + FetchTimeout - 2) \in Int BY <4>1, BudgetGrows
      <4>3. QED BY <4>2, Constants
    <3>7. PICK t \in Nat : t = Attempts * tokens BY <1>0, Constants
    <3>8. Minute * (s + r) + t <= b BY <3>2, <3>3, <3>6, <3>7 DEF BudgetInv, RequestsPaid
    <3>9. Minute * (s + q) + t <= b BY <3>5, <3>8, Paid
    <3>10. QED BY <1>0, <3>2, <3>4, <3>6, <3>7, <3>9
  <2>2. QED BY <2>1 DEF RequestsPaid
<1>4. QED BY <1>2, <1>3 DEF BudgetInv

LEMMA BudgetTick ==
  ASSUME TypeOK, TypeOK', BudgetInv, Tick PROVE BudgetInv'
<1>0. /\ inflight \in [Cells -> Fetch \cup {None}] /\ requests \in [1 .. Minute -> Nat]
      /\ tokens \in Nat /\ tokens' \in Nat
      /\ tokens' <= tokens + MaxRequestsPerMinute /\ tokens' <= Full
  <2>1. inflight \in [Cells -> Fetch \cup {None}] /\ requests \in [1 .. Minute -> Nat]
    BY DEF TypeOK
  <2>2. tokens \in 0 .. Full /\ tokens' \in 0 .. Full BY DEF TypeOK
  <2>3. tokens' = IF tokens + MaxRequestsPerMinute < Full THEN tokens + MaxRequestsPerMinute ELSE Full
    BY DEF Tick, Refilled
  <2>4. Full \in Nat /\ MaxRequestsPerMinute \in Nat BY Constants
  <2>5. QED BY <2>1, <2>2, <2>3, <2>4
<1>1. \A k \in Cells : inflight[k] # None => inflight[k].left > 0 BY DEF Tick, InFlight
<1>2. /\ inflight' = [k \in Cells |-> IF inflight[k] = None THEN None
                                      ELSE [inflight[k] EXCEPT !.left = @ - 1]]
      /\ requests' = [i \in 1 .. Minute |-> IF i = 1 THEN 0 ELSE requests[i - 1]]
  BY DEF Tick
<1>3. /\ Cardinality(Live(inflight', 0)) = 0
      /\ \A d \in Nat \ {0} : Cardinality(Live(inflight', d)) <= Cardinality(Live(inflight, d - 1))
      /\ Cardinality(Retries(inflight')) <= Cardinality(Retries(inflight))
      /\ Cardinality(Retries(inflight')) <= Cardinality(Live(inflight', FetchTimeout - 1)) * Attempts
  BY <1>0, <1>1, <1>2, FetchesAge
<1>4. ASSUME NEW d \in 0 .. FetchTimeout - 1
      PROVE  Minute * Cardinality(Live(inflight', d)) + tokens' <= Budget(d)
  <2>1. CASE d = 0
    <3>1. Budget(0) = Full BY Constants DEF Budget
    <3>2. QED BY <1>0, <1>3, <2>1, <3>1, Constants
  <2>2. CASE d # 0
    <3>1. d \in Nat \ {0} /\ d - 1 \in 0 .. FetchTimeout - 1 BY <2>2, Constants
    <3>2. PICK n \in Nat : n = Cardinality(Live(inflight, d - 1)) BY FetchesCounted
    <3>3. PICK m \in Nat : m = Cardinality(Live(inflight', d)) BY FetchesCounted
    <3>4. m <= n BY <1>3, <3>1, <3>2, <3>3
    <3>5. PICK b \in Int : b = Budget(d - 1) BY BudgetGrows
    <3>6. Budget(d) = b + MaxRequestsPerMinute
      <4>1. d - 1 \in Int /\ (d - 1) + 1 = d BY Constants
      <4>2. QED BY <4>1, <3>5, BudgetGrows
    <3>7. Minute * n + tokens <= b BY <3>1, <3>2, <3>5 DEF BudgetInv, FetchesPaid
    <3>8. Minute * m + tokens <= b BY <1>0, <3>4, <3>7, Paid
    <3>9. PICK x \in Int : x = Minute * m BY Constants
    <3>10. MaxRequestsPerMinute \in Nat BY Constants
    <3>11. x + tokens' <= b + MaxRequestsPerMinute BY <1>0, <3>8, <3>9, <3>10
    <3>12. QED BY <3>3, <3>6, <3>9, <3>11
  <2>3. QED BY <2>1, <2>2
<1>5. ASSUME NEW j \in 1 .. Minute
      PROVE  Minute * (Cardinality(SentIn(requests', j)) + Cardinality(Retries(inflight')))
               + Attempts * tokens' <= Attempts * Budget(j + FetchTimeout - 2)
  <2>0. j \in 0 .. Minute /\ j - 1 \in 0 .. Minute BY Constants
  <2>1. PICK s \in Nat : s = Cardinality(SentIn(requests, j - 1)) BY <1>0, <2>0, SentCounted
  <2>2. PICK z \in Nat : z = Cardinality(SentIn(requests', j))
    BY <2>0, SentCounted DEF TypeOK
  <2>3. z <= s BY <1>0, <1>2, <2>1, <2>2, SentAges
  <2>4. PICK r \in Nat : r = Cardinality(Retries(inflight)) BY FetchesCounted
  <2>5. PICK q \in Nat : q = Cardinality(Retries(inflight')) BY FetchesCounted
  <2>6. q <= r BY <1>3, <2>4, <2>5
  <2>7. CASE j = 1
    <3>1. z = 0
      <4>1. SentIn(requests, 0) = {} BY DEF SentIn
      <4>2. QED BY <4>1, <2>1, <2>2, <2>3, <2>7, FS_EmptySet
    <3>2. PICK n \in Nat : n = Cardinality(Live(inflight', FetchTimeout - 1)) BY FetchesCounted
    <3>3. q <= n * Attempts BY <1>3, <2>5, <3>2
    <3>4. PICK b \in Int : b = Budget(FetchTimeout - 1)
      <4>1. FetchTimeout - 1 \in Int BY Constants
      <4>2. QED BY <4>1, BudgetGrows
    <3>5. Minute * n + tokens' <= b
      <4>1. FetchTimeout - 1 \in 0 .. FetchTimeout - 1 BY Constants
      <4>2. QED BY <1>4, <3>2, <3>4, <4>1
    <3>6. Minute * (n * Attempts) + Attempts * tokens' <= Attempts * b
      BY <1>0, <3>5, PaidByFetches
    <3>7. n * Attempts \in Nat /\ Attempts * tokens' \in Nat /\ Attempts * b \in Int
      <4>1. PICK t \in Nat : t = tokens' BY <1>0
      <4>2. n * Attempts \in Nat /\ Attempts * t \in Nat /\ Attempts * b \in Int BY Constants
      <4>3. QED BY <4>1, <4>2
    <3>8. Minute * q + Attempts * tokens' <= Attempts * b
      <4>1. PICK t \in Nat : t = Attempts * tokens' BY <3>7
      <4>2. PICK e \in Int : e = Attempts * b BY <3>7
      <4>3. PICK p \in Nat : p = n * Attempts BY <3>7
      <4>4. Minute * p + t <= e BY <3>6, <4>1, <4>2, <4>3
      <4>5. Minute * q + t <= e BY <3>3, <4>3, <4>4, Paid
      <4>6. QED BY <4>1, <4>2, <4>5
    <3>9. z + q = q /\ j + FetchTimeout - 2 = FetchTimeout - 1 BY <2>7, <3>1, Constants
    <3>10. QED BY <2>2, <2>5, <3>4, <3>8, <3>9
  <2>8. CASE j # 1
    <3>1. j - 1 \in 1 .. Minute BY <2>8, Constants
    <3>2. PICK d \in Int : d = (j - 1) + FetchTimeout - 2 BY Constants
    <3>3. j + FetchTimeout - 2 = d + 1 BY <3>2, Constants
    <3>4. Minute * (s + r) + Attempts * tokens <= Attempts * Budget(d)
      BY <2>1, <2>4, <3>1, <3>2 DEF BudgetInv, RequestsPaid
    <3>5. z + q \in Nat /\ s + r \in Nat /\ z + q <= s + r BY <2>3, <2>6
    <3>6. Minute * (z + q) + Attempts * tokens' <= Attempts * Budget(d + 1)
      BY <1>0, <3>4, <3>5, PaidByTick
    <3>7. QED BY <2>2, <2>5, <3>3, <3>6
  <2>9. QED BY <2>7, <2>8
<1>6. QED BY <1>4, <1>5 DEF BudgetInv, FetchesPaid, RequestsPaid

LEMMA BudgetStep ==
  ASSUME TypeOK, TypeOK', BudgetInv, [Next]_vars PROVE BudgetInv'
<1>1. ASSUME NEW c \in Callers, GetFetch(c) PROVE BudgetInv' BY <1>1, BudgetStart
<1>2. ASSUME NEW c \in Callers,
             GetHit(c) \/ GetJoin(c) \/ GetRefused(c) \/ Return(c) \/ GiveUp(c)
      PROVE  BudgetInv'
  BY <1>2, BudgetSame DEF GetHit, GetJoin, GetRefused, Return, GiveUp
<1>3. ASSUME NEW k \in Cells, Retry(k) PROVE BudgetInv' BY <1>3, BudgetRetry
<1>4. ASSUME NEW k \in Cells, FetchSucceeds(k) \/ FetchFails(k) PROVE BudgetInv'
  BY <1>4, BudgetEnd
<1>5. CASE Tick BY <1>5, BudgetTick
<1>6. CASE UNCHANGED vars BY <1>6, BudgetSame DEF vars
<1>7. QED BY <1>1, <1>2, <1>3, <1>4, <1>5, <1>6 DEF Next

(* However callers, retries and the provider's answers interleave, what is  *)
(* sent within a minute is bounded by the budget, the retries and how long  *)
(* a fetch may take (weather.go takeTokenLocked, openmeteo.go).             *)
THEOREM RequestsAlwaysBounded == Spec => []RequestsBounded
<1>1. Init => TypeOK /\ BudgetInv BY TypeInit, BudgetInit
<1>2. TypeOK /\ BudgetInv /\ [Next]_vars => (TypeOK /\ BudgetInv)'
  BY TypeStep, BudgetStep
<1>3. TypeOK /\ BudgetInv => RequestsBounded
  <2> SUFFICES ASSUME TypeOK, BudgetInv PROVE RequestsBounded OBVIOUS
  <2>0. requests \in [1 .. Minute -> Nat] /\ tokens \in Nat BY Constants DEF TypeOK
  <2>1. Minute \in 1 .. Minute /\ Minute \in 0 .. Minute BY Constants
  <2>2. Sent = SentIn(requests, Minute) BY DEF Sent, SentIn
  <2>3. PICK s \in Nat : s = Cardinality(Sent) BY <2>0, <2>1, <2>2, SentCounted
  <2>4. PICK r \in Nat : r = Cardinality(Retries(inflight)) BY FetchesCounted
  <2>5. Minute * (s + r) + Attempts * tokens <= Attempts * Budget(Minute + FetchTimeout - 2)
    BY <2>1, <2>2, <2>3, <2>4 DEF BudgetInv, RequestsPaid
  <2>6. /\ s * Minute <= Minute * (s + r) /\ 0 <= Attempts * tokens
        /\ s * Minute \in Int /\ Minute * (s + r) \in Int /\ Attempts * tokens \in Int
    BY <2>0, Constants
  <2>7. Attempts * Budget(Minute + FetchTimeout - 2)
          = Attempts * MaxRequestsPerMinute * (Minute + Minute + FetchTimeout - 2)
    BY Constants DEF Budget, Full
  <2>8. Attempts * Budget(Minute + FetchTimeout - 2) \in Int BY Constants DEF Budget
  <2>9. s * Minute <= Attempts * Budget(Minute + FetchTimeout - 2)
    BY <2>5, <2>6, <2>8
  <2>10. QED BY <2>3, <2>7, <2>9 DEF RequestsBounded
<1>4. QED BY <1>1, <1>2, <1>3, PTL DEF Spec
====
