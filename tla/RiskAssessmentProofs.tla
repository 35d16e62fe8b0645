------------------------ MODULE RiskAssessmentProofs ------------------------
(***************************************************************************)
(* How old the river's discharge may be that a risk request is answered     *)
(* with, for any number of requests, any limits and whatever is scored;     *)
(* that an answer of more than low confidence has the score of the complete *)
(* data but for the age of its soil moisture and of its river, for every    *)
(* weather, ground and river and every part of them told; and that scoring  *)
(* a device's weather never panics.                                         *)
(***************************************************************************)
EXTENDS RiskAssessment, SequenceTheorems, WellFoundedInduction, TLAPS

LEMMA Constants ==
  RiverFreshFor \in Nat /\ RiverStaleFor \in Nat /\ RiverFreshFor =< RiverStaleFor
BY AssessmentAssumption

LEMMA OlderRiver ==
  \A age \in Nat : age # None => Older("river", age) \in Nat /\ Older("river", age) =< age + 1
<1> SUFFICES ASSUME NEW age \in Nat, age # None
             PROVE  Older("river", age) \in Nat /\ Older("river", age) =< age + 1
  OBVIOUS
<1>1. MaxAge \in Nat /\ age + 1 \in Nat BY Constants DEF MaxAge
<1>2. \E x \in {age + 1, MaxAge} : \A y \in {age + 1, MaxAge} : x =< y BY <1>1
<1>3. /\ Min({age + 1, MaxAge}) \in {age + 1, MaxAge}
      /\ \A y \in {age + 1, MaxAge} : Min({age + 1, MaxAge}) =< y
  BY <1>2 DEF Min
<1>4. Older("river", age) = Min({age + 1, MaxAge}) BY DEF Older
<1>5. QED BY <1>1, <1>3, <1>4

-----------------------------------------------------------------------------
(* What is kept of the river: a lookup answers, or would fall back to, a     *)
(* discharge that was young enough when it was looked up, and at most one    *)
(* Tick passes until the request is over.                                    *)
River == "river"

EntryFields == {"age", "retryIn"}
LookFields == {"pc", "entry", "age"}

EntryOK(e) == EntryFields \subseteq DOMAIN e /\ e.age \in Nat \cup {None}

CacheTypes == DOMAIN cache = Kind /\ (cache[River] # None => EntryOK(cache[River]))

Shaped(lk) ==
  /\ DOMAIN lk = Request
  /\ \A q \in Request : /\ DOMAIN lk[q] = Kind
                        /\ \A k \in Kind : LookFields \subseteq DOMAIN lk[q][k]

LookTypes == Shaped(look) /\ \A q \in Request : look[q][River].age \in Nat \cup {None}

(* A lookup that will note a failure in an entry has that entry.            *)
CurrentInv == \A q \in Request : look[q][River].entry = "current" => EntryOK(cache[River])

Resting(q) == pc[q] = "idle" => \A k \in Kind : look[q][k].pc = "start"

AgeOf(q) == look[q][River].age

(* What was answered with is one of the ages a discharge has.               *)
AnswerInv == answer # None => answer \in Answers

AgeInv ==
  \A q \in Request :
    /\ pc[q] = "idle" => AgeOf(q) = None
    /\ AgeOf(q) # None => AgeOf(q) =< RiverStaleFor + 1
    /\ AgeOf(q) # None /\ q \notin waited => AgeOf(q) =< RiverStaleFor

RequestTypes == DOMAIN pc = Request /\ \A q \in waited : q \in Request /\ pc[q] # "idle"

Inv ==
  /\ CacheTypes /\ LookTypes /\ RequestTypes
  /\ CurrentInv /\ AgeInv /\ (\A q \in Request : Resting(q))
  /\ AnswerInv /\ RiverInTime

LEMMA InitInv == Init => Inv
<1> SUFFICES ASSUME Init PROVE Inv OBVIOUS
<1>1. \A q \in Request : look[q] = [k \in Kind |-> NoLookup] BY DEF Init
<1>2. CacheTypes BY DEF Init, CacheTypes, Kind, River
<1>3. Shaped(look) BY <1>1 DEF Init, Shaped, LookFields, NoLookup
<1>4. \A q \in Request : \A k \in Kind :
        look[q][k].age = None /\ look[q][k].entry = "none" /\ look[q][k].pc = "start"
  BY <1>1 DEF NoLookup
<1>5. LookTypes /\ CurrentInv /\ AgeInv /\ \A q \in Request : Resting(q)
  BY <1>3, <1>4 DEF LookTypes, CurrentInv, AgeInv, AgeOf, Resting, Kind, River
<1>6. RequestTypes /\ AnswerInv /\ RiverInTime BY DEF Init, RequestTypes, AnswerInv, RiverInTime
<1>7. QED BY <1>2, <1>5, <1>6 DEF Inv

(* The lookups of others after an entry was replaced or dropped.            *)
LEMMA OrphanedKeeps ==
  ASSUME NEW lk, NEW k \in Kind, Shaped(lk)
  PROVE  /\ Shaped(Orphaned(lk, k))
         /\ \A r \in Request : \A j \in Kind :
              /\ Orphaned(lk, k)[r][j].age = lk[r][j].age
              /\ Orphaned(lk, k)[r][j].pc = lk[r][j].pc
              /\ j = k => Orphaned(lk, k)[r][j].entry # "current"
              /\ j # k => Orphaned(lk, k)[r][j].entry = lk[r][j].entry
<1> DEFINE new == Orphaned(lk, k)
<1>1. ASSUME NEW r \in Request
      PROVE  /\ DOMAIN new[r] = Kind
             /\ \A j \in Kind : j # k => new[r][j] = lk[r][j]
             /\ \/ new[r][k] = [lk[r][k] EXCEPT !.entry = "orphan"]
                \/ new[r][k] = lk[r][k] /\ lk[r][k].entry # "current"
  BY <1>1 DEF Orphaned, Shaped
<1> HIDE DEF new
<1>2. ASSUME NEW r \in Request, NEW j \in Kind
      PROVE  /\ LookFields \subseteq DOMAIN new[r][j]
             /\ new[r][j].age = lk[r][j].age /\ new[r][j].pc = lk[r][j].pc
             /\ j = k => new[r][j].entry # "current"
             /\ j # k => new[r][j].entry = lk[r][j].entry
  <2>1. LookFields \subseteq DOMAIN lk[r][j] BY DEF Shaped
  <2>2. CASE new[r][j] = lk[r][j] /\ (j = k => lk[r][j].entry # "current")
    BY <2>1, <2>2
  <2>3. CASE j = k /\ new[r][j] = [lk[r][j] EXCEPT !.entry = "orphan"]
    BY <2>1, <2>3 DEF LookFields
  <2>4. QED BY <1>1, <2>2, <2>3
<1>3. DOMAIN new = Request BY DEF Orphaned, new
<1>4. QED BY <1>1, <1>2, <1>3 DEF Shaped, new

(* One lookup of one request changes.                                       *)
LEMMA Changed ==
  ASSUME Inv, NEW q \in Request, NEW k \in Kind, NEW l, LookFields \subseteq DOMAIN l
  PROVE  LET lk == [look EXCEPT ![q][k] = l]
         IN  /\ Shaped(lk) /\ lk[q][k] = l
             /\ \A r \in Request : r # q => lk[r] = look[r]
             /\ \A j \in Kind : j # k => lk[q][j] = look[q][j]
BY DEF Inv, LookTypes, Shaped

(* A step within the lookups of one request that leaves it with a discharge  *)
(* in time, and nothing to the others.                                       *)
LEMMA AgesKept ==
  ASSUME Inv, UNCHANGED <<pc, waited>>, NEW q \in Request, pc[q] # "idle",
         Shaped(look)', CacheTypes', CurrentInv', answer' = None,
         \A r \in Request : r # q => AgeOf(r)' = AgeOf(r) /\ \A k \in Kind : look'[r][k].pc = look[r][k].pc,
         \/ AgeOf(q)' = AgeOf(q) \/ AgeOf(q)' = None
         \/ AgeOf(q)' \in Nat /\ AgeOf(q)' =< RiverStaleFor
  PROVE  Inv'
<1>1. RequestTypes' BY DEF Inv, RequestTypes
<1>2. LookTypes' BY DEF Inv, LookTypes, AgeOf
<1>3. ASSUME NEW r \in Request
      PROVE  /\ pc'[r] = "idle" => AgeOf(r)' = None
             /\ AgeOf(r)' # None => AgeOf(r)' =< RiverStaleFor + 1
             /\ AgeOf(r)' # None /\ r \notin waited' => AgeOf(r)' =< RiverStaleFor
  <2>1. CASE AgeOf(r)' = AgeOf(r) BY <2>1 DEF Inv, AgeInv
  <2>2. CASE AgeOf(r)' # AgeOf(r) BY <2>2, Constants
  <2>3. QED BY <2>1, <2>2
<1>4. AgeInv' BY <1>3 DEF AgeInv
<1>5. \A r \in Request : Resting(r)' BY DEF Inv, Resting
<1>6. AnswerInv' /\ RiverInTime' BY DEF AnswerInv, RiverInTime
<1>7. QED BY <1>1, <1>2, <1>4, <1>5, <1>6 DEF Inv

LEMMA CachedInTime ==
  ASSUME Inv
  PROVE  /\ Cached(River) \in Nat \cup {None}
         /\ Cached(River) # None => Cached(River) =< RiverStaleFor
BY DEF Inv, CacheTypes, EntryOK, Cached, HasValue

LEMMA FoundKeeps ==
  ASSUME Inv, NEW q \in Request, NEW k \in Kind, Found(q, k)
  PROVE  Inv'
<1>1. UNCHANGED <<cache, pc, waited>> /\ answer' = None /\ pc[q] # "idle" BY DEF Found
<1>2. PICK age \in {cache[k].age, Cached(k)} :
        /\ look' = [look EXCEPT ![q][k] = Answered(age)]
        /\ (Hit(k) /\ age = cache[k].age) \/ age = Cached(k)
  BY DEF Found
<1>3. k = River => age \in Nat \cup {None} /\ (age # None => age =< RiverStaleFor)
  BY <1>2, CachedInTime, Constants
  DEF Hit, HasValue, Fresh, Inv, CacheTypes, EntryOK, River
<1>4. /\ Answered(age).age = age /\ Answered(age).entry = "none"
      /\ LookFields \subseteq DOMAIN Answered(age)
  BY DEF Answered, LookFields
<1>5. /\ Shaped(look') /\ look'[q][k] = Answered(age)
      /\ \A r \in Request : r # q => look'[r] = look[r]
      /\ \A j \in Kind : j # k => look'[q][j] = look[q][j]
  BY <1>2, <1>4 DEF Inv, LookTypes, Shaped
<1>6. Shaped(look)' /\ CacheTypes' BY <1>1, <1>5 DEF Inv, CacheTypes, Shaped
<1>7. CurrentInv' BY <1>1, <1>4, <1>5 DEF Inv, CurrentInv, Kind, River
<1>8. QED BY <1>1, <1>3, <1>4, <1>5, <1>6, <1>7, AgesKept DEF AgeOf, Kind, River

LEMMA StartKeeps ==
  ASSUME Inv, NEW q \in Request, NEW k \in Kind, StartFetch(q, k)
  PROVE  Inv'
<1> DEFINE new == [pc |-> "fetching", entry |-> IF cache[k] = None THEN "none" ELSE "current",
                   age |-> Cached(k)]
<1>1. UNCHANGED <<cache, pc, waited>> /\ answer' = None /\ pc[q] # "idle" BY DEF StartFetch
<1>2. look' = [look EXCEPT ![q][k] = new] BY DEF StartFetch
<1>3. /\ new.age = Cached(k) /\ LookFields \subseteq DOMAIN new
      /\ new.entry = "current" => cache[k] # None
  BY DEF LookFields
<1> HIDE DEF new
<1>4. /\ Shaped(look') /\ look'[q][k] = new
      /\ \A r \in Request : r # q => look'[r] = look[r]
      /\ \A j \in Kind : j # k => look'[q][j] = look[q][j]
  BY <1>2, <1>3 DEF Inv, LookTypes, Shaped
<1>5. Shaped(look)' /\ CacheTypes' BY <1>1, <1>4 DEF Inv, CacheTypes, Shaped
<1>6. CurrentInv' BY <1>1, <1>3, <1>4 DEF Inv, CurrentInv, CacheTypes, Kind, River
<1>7. QED BY <1>1, <1>3, <1>4, <1>5, <1>6, CachedInTime, AgesKept DEF AgeOf, Kind, River

LEMMA SucceedKeeps ==
  ASSUME Inv, NEW q \in Request, NEW k \in Kind, FetchSucceeds(q, k)
  PROVE  Inv'
<1> DEFINE lk == [look EXCEPT ![q][k] = Answered(0)]
<1>1. /\ UNCHANGED <<pc, waited>> /\ answer' = None /\ look' = Orphaned(lk, k)
      /\ cache' = [cache EXCEPT ![k] = [age |-> 0, retryIn |-> 0]]
      /\ pc[q] # "idle"
  BY DEF FetchSucceeds, Inv, Resting
<1>2. Answered(0).age = 0 /\ LookFields \subseteq DOMAIN Answered(0) BY DEF Answered, LookFields
<1>3. /\ Shaped(lk) /\ lk[q][k] = Answered(0)
      /\ \A r \in Request : r # q => lk[r] = look[r]
      /\ \A j \in Kind : j # k => lk[q][j] = look[q][j]
  BY <1>2, Changed
<1> HIDE DEF lk
<1>4. /\ Shaped(look')
      /\ \A r \in Request : \A j \in Kind :
           /\ look'[r][j].age = lk[r][j].age /\ look'[r][j].pc = lk[r][j].pc
           /\ j = k => look'[r][j].entry # "current"
           /\ j # k => look'[r][j].entry = lk[r][j].entry
  BY <1>1, <1>3, OrphanedKeeps
<1>5. /\ DOMAIN cache' = Kind /\ \A j \in Kind : j # k => cache'[j] = cache[j]
      /\ EntryOK(cache'[k])
  BY <1>1 DEF Inv, CacheTypes, EntryOK, EntryFields
<1>6. Shaped(look)' /\ CacheTypes' BY <1>4, <1>5 DEF Inv, CacheTypes, Shaped, Kind, River
<1>7. CurrentInv' BY <1>3, <1>4, <1>5 DEF Inv, CurrentInv, Kind, River
<1>8. QED BY <1>1, <1>2, <1>3, <1>4, <1>6, <1>7, Constants, AgesKept DEF AgeOf, Kind, River

LEMMA ErrorKeeps ==
  ASSUME Inv, NEW q \in Request, NEW k \in Kind, pc[q] # "idle", FetchError(q, k)
  PROVE  Inv'
<1> DEFINE age == look[q][k].age
           lk == [look EXCEPT ![q][k] = Answered(age)]
<1>1. /\ UNCHANGED <<pc, waited>> /\ answer' = None
      /\ \/ /\ cache' = [cache EXCEPT ![k] = [age |-> None, retryIn |-> RetryAfter]]
            /\ look' = Orphaned(lk, k)
         \/ /\ cache' = [cache EXCEPT ![k].retryIn = RetryAfter] /\ look' = lk
            /\ look[q][k].entry = "current"
         \/ UNCHANGED cache /\ look' = lk
  BY DEF FetchError
<1>2. /\ Answered(age).age = age /\ Answered(age).entry = "none"
      /\ LookFields \subseteq DOMAIN Answered(age)
  BY DEF Answered, LookFields
<1>3. /\ Shaped(lk) /\ lk[q][k] = Answered(age)
      /\ \A r \in Request : r # q => lk[r] = look[r]
      /\ \A j \in Kind : j # k => lk[q][j] = look[q][j]
  BY <1>2, Changed
<1>4. /\ \A r \in Request : \A j \in Kind : lk[r][j].age = look[r][j].age
      /\ \A r \in Request : \A j \in Kind : lk[r][j].entry = "current" => look[r][j].entry = "current"
  BY <1>2, <1>3
<1> HIDE DEF lk, age
<1>5. /\ Shaped(look') /\ CacheTypes' /\ CurrentInv'
      /\ \A r \in Request : \A j \in Kind : look'[r][j].age = lk[r][j].age /\ look'[r][j].pc = lk[r][j].pc
  <2>1. CASE cache' = [cache EXCEPT ![k] = [age |-> None, retryIn |-> RetryAfter]]
             /\ look' = Orphaned(lk, k)
    <3>1. /\ Shaped(look')
          /\ \A r \in Request : \A j \in Kind :
               /\ look'[r][j].age = lk[r][j].age /\ look'[r][j].pc = lk[r][j].pc
               /\ j = k => look'[r][j].entry # "current"
               /\ j # k => look'[r][j].entry = lk[r][j].entry
      BY <1>3, <2>1, OrphanedKeeps
    <3>2. /\ DOMAIN cache' = Kind /\ \A j \in Kind : j # k => cache'[j] = cache[j]
          /\ EntryOK(cache'[k])
      BY <2>1 DEF Inv, CacheTypes, EntryOK, EntryFields
    <3>3. CacheTypes' BY <3>2 DEF Inv, CacheTypes, Kind, River
    <3>4. CurrentInv' BY <1>4, <3>1, <3>2 DEF Inv, CurrentInv, Kind, River
    <3>5. QED BY <3>1, <3>3, <3>4
  <2>2. CASE /\ cache' = [cache EXCEPT ![k].retryIn = RetryAfter] /\ look' = lk
             /\ look[q][k].entry = "current"
    <3>1. /\ DOMAIN cache' = Kind /\ \A j \in Kind : j # k => cache'[j] = cache[j]
          /\ cache'[k] = [cache[k] EXCEPT !.retryIn = RetryAfter]
      BY <2>2 DEF Inv, CacheTypes
    <3>2. k = River => EntryOK(cache[k]) BY <2>2 DEF Inv, CurrentInv
    <3>3. k = River => EntryOK(cache'[k]) BY <3>1, <3>2 DEF EntryOK, EntryFields
    <3>4. CacheTypes' BY <3>1, <3>3 DEF Inv, CacheTypes, Kind, River
    <3>5. CurrentInv' BY <1>4, <2>2, <3>1, <3>3 DEF Inv, CurrentInv, Kind, River
    <3>6. QED BY <1>3, <2>2, <3>4, <3>5
  <2>3. CASE UNCHANGED cache /\ look' = lk
    <3>1. CacheTypes' BY <2>3 DEF Inv, CacheTypes
    <3>2. CurrentInv' BY <1>4, <2>3 DEF Inv, CurrentInv, Kind, River
    <3>3. QED BY <1>3, <2>3, <3>1, <3>2
  <2>4. QED BY <1>1, <2>1, <2>2, <2>3
<1>6. Shaped(look)' BY <1>5 DEF Shaped
<1>7. QED BY <1>1, <1>3, <1>4, <1>5, <1>6, AgesKept DEF AgeOf, Kind, River

LEMMA EvictKeeps ==
  ASSUME Inv, NEW k \in Kind, Evict(k)
  PROVE  Inv'
<1>1. /\ cache' = [cache EXCEPT ![k] = None] /\ look' = Orphaned(look, k)
      /\ answer' = None /\ UNCHANGED <<pc, waited>>
  BY DEF Evict
<1>2. PICK lk \in {look} : lk = look OBVIOUS
<1>3. /\ Shaped(look')
      /\ \A r \in Request : \A j \in Kind :
           /\ look'[r][j].age = look[r][j].age /\ look'[r][j].pc = look[r][j].pc
           /\ j = k => look'[r][j].entry # "current"
           /\ j # k => look'[r][j].entry = look[r][j].entry
  <2>1. Shaped(lk) BY <1>2 DEF Inv, LookTypes, Shaped
  <2>2. look' = Orphaned(lk, k) BY <1>1, <1>2
  <2>3. QED BY <1>2, <2>1, <2>2, OrphanedKeeps
<1>4. DOMAIN cache' = Kind /\ cache'[k] = None /\ \A j \in Kind : j # k => cache'[j] = cache[j]
  BY <1>1 DEF Inv, CacheTypes
<1>5. LookTypes' /\ CacheTypes' /\ CurrentInv'
  BY <1>3, <1>4 DEF Inv, LookTypes, Shaped, CacheTypes, CurrentInv, Kind, River
<1>6. AgeInv' /\ \A q \in Request : Resting(q)'
  BY <1>1, <1>3 DEF Inv, AgeInv, AgeOf, Resting, Kind, River
<1>7. QED BY <1>1, <1>5, <1>6 DEF Inv, RequestTypes, AnswerInv, RiverInTime

(* A request begins, is abandoned, or is answered and gone.                 *)
LEMMA RequestKeeps ==
  ASSUME Inv, NEW q \in Request, Ask(q) \/ Abandon(q)
  PROVE  Inv'
<1>1. /\ UNCHANGED <<cache, waited, look>> /\ answer' = None
      /\ DOMAIN pc' = Request /\ pc'[q] # "idle" /\ \A r \in Request : r # q => pc'[r] = pc[r]
  BY DEF Ask, Abandon, Inv, RequestTypes
<1>2. CacheTypes' /\ LookTypes' /\ CurrentInv'
  BY <1>1 DEF Inv, CacheTypes, LookTypes, Shaped, CurrentInv
<1>3. RequestTypes' BY <1>1 DEF Inv, RequestTypes
<1>4. AgeInv' /\ \A r \in Request : Resting(r)' BY <1>1 DEF Inv, AgeInv, AgeOf, Resting
<1>5. QED BY <1>1, <1>2, <1>3, <1>4 DEF Inv, AnswerInv, RiverInTime

LEMMA DoneKeeps ==
  ASSUME Inv, NEW q \in Request, Done(q),
         \/ answer' = None
         \/ \E w \in {"server", "device"}, g \in BOOLEAN :
              answer' = [weather |-> w, ground |-> g, riverAge |-> AgeOf(q)]
  PROVE  Inv'
<1>1. /\ UNCHANGED cache /\ waited' = waited \ {q}
      /\ DOMAIN pc' = Request /\ pc'[q] = "idle" /\ \A r \in Request : r # q => pc'[r] = pc[r]
      /\ DOMAIN look' = Request /\ look'[q] = [k \in Kind |-> NoLookup]
      /\ \A r \in Request : r # q => look'[r] = look[r]
  BY DEF Done, Inv, RequestTypes, LookTypes, Shaped
<1>2. /\ DOMAIN look'[q] = Kind
      /\ \A k \in Kind : /\ LookFields \subseteq DOMAIN look'[q][k] /\ look'[q][k].age = None
                          /\ look'[q][k].pc = "start" /\ look'[q][k].entry = "none"
  BY <1>1 DEF NoLookup, LookFields
<1>3. CacheTypes' /\ LookTypes' /\ CurrentInv'
  BY <1>1, <1>2 DEF Inv, CacheTypes, LookTypes, Shaped, CurrentInv, Kind, River
<1>4. RequestTypes' BY <1>1 DEF Inv, RequestTypes
<1>5. AgeInv' /\ \A r \in Request : Resting(r)'
  BY <1>1, <1>2 DEF Inv, AgeInv, AgeOf, Resting, Kind, River
<1>6. AgeOf(q) \in Age \cup {None} /\ (AgeOf(q) # None => AgeOf(q) =< RiverStaleFor + 1)
  BY Constants DEF Inv, LookTypes, AgeOf, AgeInv, Age, MaxAge
<1>7. AnswerInv' BY <1>6 DEF AnswerInv, Answers
<1>8. RiverInTime' BY <1>6 DEF RiverInTime
<1>9. QED BY <1>3, <1>4, <1>5, <1>7, <1>8 DEF Inv

LEMMA TickKeeps ==
  ASSUME Inv, Tick
  PROVE  Inv'
<1>1. /\ DOMAIN look' = Request
      /\ \A r \in Request :
           /\ DOMAIN look'[r] = Kind
           /\ \A k \in Kind : look'[r][k] = [look[r][k] EXCEPT !.age = Older(k, look[r][k].age)]
  BY DEF Tick
<1>2. ASSUME NEW r \in Request, NEW k \in Kind
      PROVE  /\ LookFields \subseteq DOMAIN look'[r][k]
             /\ look'[r][k].pc = look[r][k].pc /\ look'[r][k].entry = look[r][k].entry
             /\ look'[r][k].age = Older(k, look[r][k].age)
  <2>1. LookFields \subseteq DOMAIN look[r][k] BY DEF Inv, LookTypes, Shaped
  <2>2. look'[r][k] = [look[r][k] EXCEPT !.age = Older(k, look[r][k].age)] BY <1>1
  <2>3. QED BY <2>1, <2>2 DEF LookFields
<1>3. \A r \in Request :
        \/ AgeOf(r) = None /\ AgeOf(r)' = None
        \/ AgeOf(r) # None /\ AgeOf(r) \in Nat /\ AgeOf(r)' \in Nat /\ AgeOf(r)' =< AgeOf(r) + 1
  BY <1>2, OlderRiver DEF Inv, LookTypes, AgeOf, Older, Kind, River
<1>4. LookTypes' BY <1>1, <1>2, <1>3 DEF LookTypes, Shaped, AgeOf
<1>5. /\ DOMAIN cache' = Kind
      /\ cache[River] = None => cache'[River] = None
      /\ cache[River] # None =>
           cache'[River] = [age |-> Older(River, cache[River].age),
                            retryIn |-> Max({cache[River].retryIn - 1, 0})]
  BY DEF Tick, Kind, River
<1>6. cache[River] # None => EntryOK(cache'[River])
  <2> SUFFICES ASSUME cache[River] # None PROVE EntryOK(cache'[River]) OBVIOUS
  <2>1. cache[River].age \in Nat \cup {None} BY DEF Inv, CacheTypes, EntryOK
  <2>2. Older(River, cache[River].age) \in Nat \cup {None}
    BY <2>1, OlderRiver DEF Older, River
  <2>3. QED BY <1>5, <2>2 DEF EntryOK, EntryFields
<1>7. CacheTypes' BY <1>5, <1>6 DEF CacheTypes
<1>8. CurrentInv' BY <1>2, <1>5, <1>6 DEF Inv, CurrentInv, Kind, River
<1>9. UNCHANGED pc /\ answer' = None /\ waited' = {q \in Request : pc[q] # "idle"}
      /\ \A q \in Request : pc[q] # "idle" => q \notin waited
  BY DEF Tick
<1>10. RequestTypes' /\ AnswerInv' /\ RiverInTime' /\ \A r \in Request : Resting(r)'
  BY <1>2, <1>9 DEF Inv, RequestTypes, AnswerInv, RiverInTime, Resting
<1>11. AgeInv'
  <2>1. ASSUME NEW r \in Request
        PROVE  /\ pc'[r] = "idle" => AgeOf(r)' = None
               /\ AgeOf(r)' # None => AgeOf(r)' =< RiverStaleFor + 1
               /\ AgeOf(r)' # None /\ r \notin waited' => AgeOf(r)' =< RiverStaleFor
    <3>1. CASE pc[r] = "idle"
      <4>1. AgeOf(r) = None BY <3>1 DEF Inv, AgeInv
      <4>2. QED BY <1>3, <4>1
    <3>2. CASE pc[r] # "idle"
      <4>1. r \notin waited /\ r \in waited' BY <1>9, <3>2
      <4>2. AgeOf(r) # None => AgeOf(r) =< RiverStaleFor BY <4>1 DEF Inv, AgeInv
      <4>3. QED BY <1>3, <1>9, <3>2, <4>1, <4>2, Constants
    <3>3. QED BY <3>1, <3>2
  <2>2. QED BY <2>1 DEF AgeInv
<1>12. QED BY <1>4, <1>7, <1>8, <1>10, <1>11 DEF Inv

LEMMA NextInv == Inv /\ [Next]_vars => Inv'
<1> SUFFICES ASSUME Inv, [Next]_vars PROVE Inv' OBVIOUS
<1>1. ASSUME NEW q \in Request, Ask(q) \/ Abandon(q) PROVE Inv' BY <1>1, RequestKeeps
<1>2. ASSUME NEW q \in Request, Forgotten(q) \/ AnswerGet(q) \/ AnswerPost(q) PROVE Inv'
  <2>1. Done(q) BY <1>2 DEF Forgotten, AnswerGet, AnswerPost, Answer
  <2>2. \/ answer' = None
        \/ \E w \in {"server", "device"}, g \in BOOLEAN :
             answer' = [weather |-> w, ground |-> g, riverAge |-> AgeOf(q)]
    BY <1>2 DEF Forgotten, AnswerGet, AnswerPost, Answer, AgeOf, River
  <2>3. QED BY <2>1, <2>2, DoneKeeps
<1>3. ASSUME NEW q \in Request, NEW k \in Kind,
             \/ Found(q, k) \/ StartFetch(q, k)
             \/ FetchSucceeds(q, k) \/ FetchFails(q, k) \/ FetchCancelled(q, k)
      PROVE  Inv'
  BY <1>3, FoundKeeps, StartKeeps, SucceedKeeps, ErrorKeeps DEF FetchFails, FetchCancelled
<1>4. ASSUME NEW k \in Kind, Evict(k) PROVE Inv' BY <1>4, EvictKeeps
<1>5. CASE Tick BY <1>5, TickKeeps
<1>6. CASE UNCHANGED vars
  BY <1>6 DEF vars, Inv, CacheTypes, LookTypes, Shaped, RequestTypes, CurrentInv, AgeInv, AgeOf,
              Resting, AnswerInv, RiverInTime
<1>7. QED BY <1>1, <1>2, <1>3, <1>4, <1>5, <1>6 DEF Next, Progress

(* Whatever lookups, failures and evictions race, no answer is scored with a *)
(* discharge older than RiverStaleFor, and the time the request took.        *)
THEOREM RiverAlwaysInTime == Spec => []RiverInTime
<1>1. Inv => RiverInTime BY DEF Inv
<1>2. QED BY <1>1, InitInv, NextInv, PTL DEF Spec
-----------------------------------------------------------------------------
(* The confidence.  What the code slices out of a series that gives no       *)
(* reason for a low confidence is the rain of exactly the hours the score    *)
(* is about.                                                                 *)

LEMMA Limits ==
  /\ HistoryHours \in Nat \ {0} /\ ShortWindow \in 1 .. HistoryHours /\ ForecastHours \in Nat \ {0}
  /\ MaxObservationAge \in Nat /\ RiverPastDays \in Nat \ {0} /\ Now \in Int
BY ScoreAssumption, TruthAssumption

LEMMA MinOfTwo ==
  ASSUME NEW a \in Int, NEW b \in Int
  PROVE  Min({a, b}) = IF a =< b THEN a ELSE b
<1>1. \E x \in {a, b} : \A y \in {a, b} : x =< y OBVIOUS
<1>2. Min({a, b}) \in {a, b} /\ \A y \in {a, b} : Min({a, b}) =< y BY <1>1 DEF Min
<1>3. QED BY <1>2

LEMMA MaxOfTwo ==
  ASSUME NEW a \in Int, NEW b \in Int
  PROVE  Max({a, b}) = IF a >= b THEN a ELSE b
<1>1. \E x \in {a, b} : \A y \in {a, b} : x >= y OBVIOUS
<1>2. Max({a, b}) \in {a, b} /\ \A y \in {a, b} : Max({a, b}) >= y BY <1>1 DEF Max
<1>3. QED BY <1>2

LEMMA LeastIsIn ==
  ASSUME NEW T, T \subseteq Nat, T # {}
  PROVE  /\ Min(T) \in T
         /\ \A y \in T : Min(T) =< y
<1>1. PICK x \in T : \A y \in T : <<y, x>> \notin OpToRel(<, Nat)
  BY WFMin, NatLessThanWellFounded
<1>2. \A y \in T : <<y, x>> \in Nat \X Nat OBVIOUS
<1>3. \A y \in T : ~(y < x) BY <1>1, <1>2 DEF OpToRel
<1>4. \A y \in T : x =< y BY <1>3
<1>5. QED BY <1>4 DEF Min

LEMMA GreatestIsIn ==
  ASSUME NEW n \in Nat, NEW T, T \subseteq 1 .. n, T # {}
  PROVE  Max(T) \in T
<1> DEFINE left == {n - i : i \in T}
<1>1. left \subseteq Nat /\ left # {}
  <2>1. \A i \in T : i \in 1 .. n /\ n - i \in Nat OBVIOUS
  <2>2. PICK i \in T : TRUE OBVIOUS
  <2>3. n - i \in left OBVIOUS
  <2>4. QED BY <2>1, <2>3
<1>2. Min(left) \in left /\ \A y \in left : Min(left) =< y BY <1>1, LeastIsIn
<1>3. PICK x \in T : \A y \in T : n - x =< n - y BY <1>2
<1>4. \A y \in T : x >= y BY <1>3
<1>5. QED BY <1>4 DEF Max

(* n entries of a series that begins after hour h, from the a-th on.         *)
LEMMA Window ==
  ASSUME NEW rain, NEW s \in Seq(Nat), NEW h \in Int, \A i \in DOMAIN s : s[i] = rain[h + i],
         NEW a \in Nat, NEW n \in Nat, a + n =< Len(s)
  PROVE  Total(SubSeq(s, a + 1, a + n)) = RainAfter(rain, h + a, n)
<1> DEFINE t == SubSeq(s, a + 1, a + n)
<1>1. \A i \in a + 1 .. a + n : s[i] \in Nat /\ s[i] = rain[h + i] OBVIOUS
<1>2. /\ t \in Seq(Nat)
      /\ Len(t) = IF a + 1 =< a + n THEN (a + n) - (a + 1) + 1 ELSE 0
      /\ \A i \in 1 .. (a + n) - (a + 1) + 1 : t[i] = s[(a + 1) + i - 1]
  <2>1. a + 1 \in Int /\ a + n \in Int OBVIOUS
  <2>2. \A i \in a + 1 .. a + n : s[i] \in Nat BY <1>1
  <2>3. QED BY <2>1, <2>2, SubSeqProperties
<1> HIDE DEF t
<1>3. Len(t) = n BY <1>2
<1>4. ASSUME NEW i \in 1 .. n PROVE t[i] = rain[(h + a) + i]
  <2>1. t[i] = s[a + i]
    <3>1. (a + n) - (a + 1) + 1 = n /\ (a + 1) + i - 1 = a + i OBVIOUS
    <3>2. QED BY <1>2, <3>1
  <2>2. a + i \in a + 1 .. a + n /\ h + (a + i) = (h + a) + i OBVIOUS
  <2>3. QED BY <1>1, <2>1, <2>2
<1>5. t = [i \in 1 .. n |-> rain[(h + a) + i]]
  <2>1. t = [i \in 1 .. n |-> t[i]] BY <1>2, <1>3
  <2>2. QED BY <1>4, <2>1, Zenon
<1>6. QED BY <1>5 DEF RainAfter, t

LEMMA NoReason ==
  ASSUME NEW w, Truthful(w), NEW stale, NEW h, Reasons(w, stale, h, Now) = {}
  PROVE  /\ h.terrain # None /\ h.river # None
         /\ w.observed # None /\ Now - w.observed =< MaxObservationAge
         /\ CurrentHourFound(w) /\ ~HistoryShort(w) /\ ~ForecastShort(w)
         /\ Readings(w.soil, CurrentHourIndex(w) + 1) # {}
<1>1. \A r : r \notin Reasons(w, stale, h, Now) OBVIOUS
<1>2. h.terrain # None BY <1>1 DEF Reasons
<1>3. h.river # None BY <1>1 DEF Reasons
<1>4. w.observed # None BY <1>1 DEF Reasons
<1>5. Now - w.observed =< MaxObservationAge
  <2>1. ~(Now - w.observed > MaxObservationAge) BY <1>1, <1>4 DEF Reasons
  <2>2. w.observed \in Int BY <1>4 DEF Truthful
  <2>3. QED BY <2>1, <2>2, Limits
<1>6. CurrentHourFound(w) BY <1>1 DEF Reasons
<1>7. ~HistoryShort(w) BY <1>1, <1>6 DEF Reasons
<1>8. ~ForecastShort(w) BY <1>1, <1>6 DEF Reasons
<1>9. Readings(w.soil, CurrentHourIndex(w) + 1) # {} BY <1>1 DEF Reasons
<1>10. QED BY <1>2, <1>3, <1>4, <1>5, <1>6, <1>7, <1>8, <1>9

(* The hour under way, found in the series.                                  *)
LEMMA HourPlaced ==
  ASSUME NEW w, Truthful(w), w.observed # None, CurrentHourFound(w)
  PROVE  /\ CurrentHourIndex(w) \in Nat /\ w.observed \in Int /\ w.first \in Int
         /\ w.observed = w.first + CurrentHourIndex(w)
         /\ w.rain \in Seq(Nat) /\ Len(w.rain) \in Nat
         /\ \A i \in DOMAIN w.rain : w.rain[i] = Told[w.observed].rain[(w.first - 1) + i]
<1> DEFINE rain == Told[w.observed].rain
<1>1. /\ w.observed \in Int /\ w.first \in Int /\ w.times \in Nat /\ w.rain \in Seq(Nat)
      /\ \A i \in DOMAIN w.rain : w.rain[i] = rain[w.first + i - 1]
  BY DEF Truthful
<1>2. CurrentHourIndex(w) = w.observed - w.first BY DEF CurrentHourIndex
<1>3. w.observed - w.first \in 0 .. w.times - 1 BY DEF CurrentHourFound
<1>4. Len(w.rain) \in Nat /\ \A i \in DOMAIN w.rain : i \in Nat BY <1>1
<1>5. \A i \in DOMAIN w.rain : w.first + i - 1 = (w.first - 1) + i BY <1>1, <1>4
<1>6. \A i \in DOMAIN w.rain : w.rain[i] = rain[(w.first - 1) + i] BY <1>1, <1>5
<1>7. CurrentHourIndex(w) \in Nat /\ w.observed = w.first + CurrentHourIndex(w)
  BY <1>1, <1>2, <1>3
<1>8. QED BY <1>1, <1>4, <1>6, <1>7

LEMMA SliceLength ==
  ASSUME NEW s \in Seq(Nat), NEW a \in Nat, NEW b \in Nat, b =< Len(s)
  PROVE  Len(SubSeq(s, a + 1, b)) = IF a + 1 =< b THEN b - (a + 1) + 1 ELSE 0
<1>1. \A i \in a + 1 .. b : i \in 1 .. Len(s) OBVIOUS
<1>2. \A i \in 1 .. Len(s) : s[i] \in Nat OBVIOUS
<1>3. \A i \in a + 1 .. b : s[i] \in Nat BY <1>1, <1>2
<1>4. a + 1 \in Int /\ b \in Int OBVIOUS
<1>5. QED BY <1>3, <1>4, SubSeqProperties

(* The series goes on for all of the forecast.                               *)
LEMMA RainReaches ==
  ASSUME NEW w, Truthful(w), w.observed # None, CurrentHourFound(w), ~ForecastShort(w)
  PROVE  (CurrentHourIndex(w) + 1) + ForecastHours =< Len(w.rain)
<1>1. PICK at : at = CurrentHourIndex(w) OBVIOUS
<1>2. PICK len : len = Len(w.rain) OBVIOUS
<1>3. PICK f \in Nat : f = ForecastHours /\ f > 0 BY Limits
<1>4. at \in Nat /\ len \in Nat /\ w.rain \in Seq(Nat) BY <1>1, <1>2, HourPlaced
<1>5. PICK start \in Nat : /\ start = Min({at + 1, len})
                           /\ start =< len /\ (start < len => start = at + 1)
  BY <1>4, MinOfTwo
<1>6. PICK end \in Nat : /\ end = Min({start + f, len})
                         /\ end =< start + f /\ end =< len
  <2>1. start + f \in Int /\ start + f \in Nat /\ len \in Nat BY <1>3, <1>4, <1>5
  <2>2. Min({start + f, len}) = IF start + f =< len THEN start + f ELSE len BY <2>1, MinOfTwo
  <2>3. QED BY <2>1, <2>2
<1>7. HoursAfter(w.rain, at, ForecastHours) = SubSeq(w.rain, start + 1, end)
  BY <1>2, <1>3, <1>5, <1>6 DEF HoursAfter
<1>8. Len(SubSeq(w.rain, start + 1, end)) = IF start + 1 =< end THEN end - (start + 1) + 1 ELSE 0
  <2>1. start \in Nat /\ end \in Nat /\ end =< Len(w.rain) BY <1>2, <1>5, <1>6
  <2>2. QED BY <1>4, <2>1, SliceLength
<1>9. ~(Len(SubSeq(w.rain, start + 1, end)) < f)
  BY <1>1, <1>3, <1>7 DEF ForecastShort
<1>10. end - start >= f BY <1>3, <1>5, <1>6, <1>8, <1>9
<1>11. (at + 1) + f =< len BY <1>3, <1>4, <1>5, <1>6, <1>10
<1>12. QED BY <1>1, <1>2, <1>3, <1>11

LEMMA Clipped ==
  ASSUME NEW a \in Nat, NEW f \in Nat, NEW len \in Nat, a + f =< len
  PROVE  Min({a, len}) = a /\ Min({a + f, len}) = a + f
<1>1. a \in Int /\ a + f \in Int /\ len \in Int /\ a =< len OBVIOUS
<1>2. QED BY <1>1, MinOfTwo

LEMMA ForecastTold ==
  ASSUME NEW w, Truthful(w), w.observed # None, CurrentHourFound(w), ~ForecastShort(w)
  PROVE  Total(HoursAfter(w.rain, CurrentHourIndex(w), ForecastHours))
           = RainAfter(Told[w.observed].rain, w.observed, ForecastHours)
<1>1. PICK at : at = CurrentHourIndex(w) OBVIOUS
<1>2. /\ at \in Nat /\ w.observed \in Int /\ w.first \in Int
      /\ w.observed = w.first + at
      /\ w.rain \in Seq(Nat) /\ Len(w.rain) \in Nat
      /\ \A i \in DOMAIN w.rain : w.rain[i] = Told[w.observed].rain[(w.first - 1) + i]
  BY <1>1, HourPlaced
<1>3. (at + 1) + ForecastHours =< Len(w.rain) BY <1>1, RainReaches
<1>4. /\ Min({at + 1, Len(w.rain)}) = at + 1
      /\ Min({(at + 1) + ForecastHours, Len(w.rain)}) = (at + 1) + ForecastHours
  <2>1. at + 1 \in Nat /\ ForecastHours \in Nat /\ Len(w.rain) \in Nat BY <1>2, Limits
  <2>2. QED BY <1>3, <2>1, Clipped
<1>5. HoursAfter(w.rain, at, ForecastHours)
        = SubSeq(w.rain, (at + 1) + 1, (at + 1) + ForecastHours)
  BY <1>4 DEF HoursAfter
<1>6. w.first - 1 \in Int /\ at + 1 \in Nat /\ ForecastHours \in Nat
      /\ (w.first - 1) + (at + 1) = w.observed
  BY <1>2, Limits
<1>7. Total(SubSeq(w.rain, (at + 1) + 1, (at + 1) + ForecastHours))
        = RainAfter(Told[w.observed].rain, (w.first - 1) + (at + 1), ForecastHours)
  <2>1. /\ w.rain \in Seq(Nat) /\ w.first - 1 \in Int
        /\ at + 1 \in Nat /\ ForecastHours \in Nat
        /\ (at + 1) + ForecastHours =< Len(w.rain)
    BY <1>2, <1>3, <1>6
  <2>2. \A i \in DOMAIN w.rain : w.rain[i] = Told[w.observed].rain[(w.first - 1) + i] BY <1>2
  <2>3. QED BY <2>1, <2>2, Window, Zenon
<1>8. QED BY <1>1, <1>5, <1>6, <1>7

LEMMA HistoryTold ==
  ASSUME NEW w, Truthful(w), w.observed # None, CurrentHourFound(w),
         ~HistoryShort(w), ~ForecastShort(w), NEW n \in 1 .. HistoryHours
  PROVE  Total(PreviousHours(w.rain, CurrentHourIndex(w) + 1, n)) = RainAfter(Told[w.observed].rain, w.observed - n, n)
<1>1. PICK at : at = CurrentHourIndex(w) OBVIOUS
<1>2. /\ at \in Nat /\ w.observed \in Int /\ w.first \in Int
      /\ w.observed = w.first + at
      /\ w.rain \in Seq(Nat) /\ Len(w.rain) \in Nat
      /\ \A i \in DOMAIN w.rain : w.rain[i] = Told[w.observed].rain[(w.first - 1) + i]
  BY <1>1, HourPlaced
<1>3. (at + 1) + ForecastHours =< Len(w.rain) BY <1>1, RainReaches
<1>4. Min({at + 1, Len(w.rain)}) = at + 1
  <2>1. at + 1 \in Nat /\ ForecastHours \in Nat /\ Len(w.rain) \in Nat BY <1>2, Limits
  <2>2. QED BY <1>3, <2>1, Clipped
<1>5. ~(at + 1 < HistoryHours) BY <1>1, <1>4 DEF HistoryShort
<1>6. PICK a \in Nat : a = (at + 1) - n BY <1>2, <1>5, Limits
<1>7. Max({(at + 1) - n, 0}) = a BY <1>2, <1>6, MaxOfTwo
<1>8. a + n = at + 1 /\ a + n =< Len(w.rain) /\ n \in Nat
      /\ w.first - 1 \in Int /\ (w.first - 1) + a = w.observed - n
  <2>1. PICK f \in Nat : f = ForecastHours BY Limits
  <2>2. at + 1 =< Len(w.rain) BY <1>2, <1>3, <2>1
  <2>3. QED BY <1>2, <1>6, <2>2
<1>9. PreviousHours(w.rain, at + 1, n) = SubSeq(w.rain, a + 1, a + n)
  BY <1>4, <1>7, <1>8 DEF PreviousHours
<1>10. Total(SubSeq(w.rain, a + 1, a + n)) = RainAfter(Told[w.observed].rain, (w.first - 1) + a, n)
  <2>1. w.rain \in Seq(Nat) /\ w.first - 1 \in Int /\ a \in Nat /\ n \in Nat /\ a + n =< Len(w.rain)
    BY <1>2, <1>6, <1>8
  <2>2. \A i \in DOMAIN w.rain : w.rain[i] = Told[w.observed].rain[(w.first - 1) + i] BY <1>2
  <2>3. QED BY <2>1, <2>2, Window, Zenon
<1>11. QED BY <1>1, <1>8, <1>9, <1>10

(* The soil moisture taken is one that was told for an hour up to the        *)
(* present one.                                                              *)
LEMMA SoilTold ==
  ASSUME NEW w, Truthful(w), w.observed # None, CurrentHourFound(w),
         Readings(w.soil, CurrentHourIndex(w) + 1) # {}
  PROVE  \E soil \in SoilUntil(w.observed) :
           SoilMoistureScore(w.soil, CurrentHourIndex(w) + 1) = Share(soil, 40, 20)
<1>1. PICK end : end = CurrentHourIndex(w) + 1 OBVIOUS
<1> DEFINE found == Readings(w.soil, end)
           told == Told[w.observed].soil
<1>2. /\ w.observed \in Int /\ w.first \in Int /\ CurrentHourIndex(w) \in Nat
      /\ w.observed = w.first + CurrentHourIndex(w)
  BY HourPlaced
<1>3. /\ w.soil \in Seq(Nat) /\ Len(w.soil) \in Nat
      /\ \A i \in DOMAIN w.soil : w.soil[i] > 0 =>
           w.first + i - 1 \in DOMAIN told /\ w.soil[i] = told[w.first + i - 1]
  BY DEF Truthful
<1>4. found \subseteq 1 .. Len(w.soil) /\ found # {} BY <1>1, <1>3 DEF Readings
<1>5. PICK i \in found : i = Max(found) BY <1>3, <1>4, GreatestIsIn
<1>6. i \in DOMAIN w.soil /\ i =< end /\ w.soil[i] > 0 BY <1>5 DEF Readings
<1>7. i \in Nat /\ w.first + i - 1 =< w.observed BY <1>1, <1>2, <1>4, <1>6
<1>8. w.first + i - 1 \in DOMAIN told /\ w.soil[i] = told[w.first + i - 1] BY <1>3, <1>6
<1>9. w.soil[i] \in SoilUntil(w.observed) BY <1>7, <1>8 DEF SoilUntil
<1>10. SoilMoistureScore(w.soil, end) = Share(w.soil[i], 40, 20)
  BY <1>4, <1>5 DEF SoilMoistureScore
<1>11. QED BY <1>1, <1>9, <1>10

-----------------------------------------------------------------------------
(* The river taken is a main one of the answer it is read from, the ground   *)
(* the one there is, wherever they come from.                                *)
LEMMA RiverTold ==
  ASSUME NEW cells \in Seq(Seq(Int \cup {None})), RiverFlowOn(cells, RiverPastDays) # None
  PROVE  RiverFlowOn(cells, RiverPastDays) \in MainRivers(cells)
<1> DEFINE flows == Flows(cells, RiverPastDays)
           best == {i \in DOMAIN flows : \A j \in DOMAIN flows : flows[j].baseline =< flows[i].baseline}
<1>1. DOMAIN flows \subseteq Nat
  <2>1. DOMAIN flows \subseteq DOMAIN cells BY DEF Flows
  <2>2. QED BY <2>1
<1> HIDE DEF flows
<1>2. RiverFlowOn(cells, RiverPastDays) = IF best = {} THEN None ELSE flows[Min(best)]
  BY DEF RiverFlowOn, flows
<1>3. MainRivers(cells) = {flows[i] : i \in best} BY DEF MainRivers, flows
<1>4. best # {} BY <1>2
<1>5. best \subseteq Nat BY <1>1
<1>6. Min(best) \in best BY <1>4, <1>5, LeastIsIn
<1>7. QED BY <1>2, <1>3, <1>4, <1>6

TrueHydrology(h, rivers) ==
  /\ h.terrain # None => h.terrain = TerrainFrom(Elevation)
  /\ h.river # None => h.river \in rivers

(* An answer in time was given with a discharge the Flood API answered that  *)
(* long ago at most.                                                         *)
LEMMA ServerTells ==
  ASSUME NEW a \in Answers, a.riverAge # None => a.riverAge =< RiverStaleFor + 1
  PROVE  /\ TrueHydrology(Hydrology(a), Rivers(a))
         /\ (Hydrology(a).river = None) <=> (a.riverAge = None)
<1>1. a.riverAge \in Age \cup {None} BY DEF Answers
<1>2. Hydrology(a).terrain # None => Hydrology(a).terrain = TerrainFrom(Elevation)
  BY DEF Hydrology, ServerTerrain
<1>3. CASE a.riverAge = None
  <2>1. Hydrology(a).river = None BY <1>3 DEF Hydrology, ServerRiver
  <2>2. QED BY <1>2, <1>3, <2>1 DEF TrueHydrology
<1>4. CASE a.riverAge # None
  <2>1. a.riverAge \in Age /\ a.riverAge \in Nat /\ a.riverAge =< RiverStaleFor + 1
    BY <1>1, <1>4, Constants DEF Age, MaxAge
  <2>2. PICK cells \in Seq(Seq(Int \cup {None})) : cells = Flood[a.riverAge]
    BY <2>1, FloodAssumption, TruthAssumption
  <2>3. Hydrology(a).river = RiverFlowOn(cells, RiverPastDays)
    BY <1>4, <2>2 DEF Hydrology, ServerRiver
  <2>4. Hydrology(a).river # None BY <2>1, <2>2, <2>3, FloodAssumption
  <2>5. Hydrology(a).river \in MainRivers(Flood[a.riverAge]) BY <2>2, <2>3, <2>4, RiverTold
  <2>6. a.riverAge \in 0 .. RiverStaleFor + 1 BY <2>1, Constants
  <2>7. Hydrology(a).river \in RiversWithin(RiverStaleFor + 1) BY <2>5, <2>6 DEF RiversWithin
  <2>8. Rivers(a) = RiversWithin(RiverStaleFor + 1) BY <1>4 DEF Rivers
  <2>9. QED BY <1>2, <1>4, <2>4, <2>7, <2>8 DEF TrueHydrology
<1>5. QED BY <1>3, <1>4

LEMMA ClientTells ==
  /\ \A t \in ClientTerrains : t # None => t = TerrainFrom(Elevation)
  /\ \A r \in ClientRivers : r # None => r \in RiversAroundToday
<1>1. \A e \in DeviceElevation : ValidClientTerrain(e) /\ ClientTerrain(e) # None =>
        ClientTerrain(e) = TerrainFrom(Elevation)
  BY TruthAssumption DEF ClientTerrain
<1>2. ASSUME NEW f \in DeviceFlood, ValidClientRiver(f), ClientRiver(f) # None
      PROVE  ClientRiver(f) \in RiversAroundToday
  <2>1. f # None BY <1>2 DEF ClientRiver
  <2>2. f.late \in -1 .. 1 BY <1>2, <2>1 DEF ValidClientRiver
  <2>3. f.cells \in DayFlood[f.late] BY <1>2, <2>1, TruthAssumption
  <2>4. PICK cells \in Seq(Seq(Int \cup {None})) : cells = f.cells BY <2>2, <2>3, TruthAssumption
  <2>5. ClientRiver(f) = RiverFlowOn(cells, RiverPastDays) BY <2>1, <2>4 DEF ClientRiver
  <2>6. ClientRiver(f) \in MainRivers(cells) BY <1>2, <2>5, RiverTold
  <2>7. cells \in UNION {DayFlood[late] : late \in -1 .. 1} BY <2>2, <2>3, <2>4
  <2>8. QED BY <2>6, <2>7 DEF RiversAroundToday
<1>3. QED BY <1>1, <1>2 DEF ClientTerrains, ClientRivers

LEMMA FilledTells ==
  ASSUME NEW a \in Answers, a.riverAge # None => a.riverAge =< RiverStaleFor + 1,
         NEW t \in ClientTerrains, NEW r \in ClientRivers
  PROVE  TrueHydrology(Filled(Hydrology(a), t, r), Rivers(a))
<1>1. PICK h : h = Hydrology(a) OBVIOUS
<1>2. TrueHydrology(h, Rivers(a)) /\ ((h.river = None) <=> (a.riverAge = None)) BY <1>1, ServerTells
<1>3. /\ Filled(h, t, r).terrain = OrElse(h.terrain, t)
      /\ Filled(h, t, r).river = OrElse(h.river, r)
  BY DEF Filled
<1>4. OrElse(h.terrain, t) # None => OrElse(h.terrain, t) = TerrainFrom(Elevation)
  BY <1>2, ClientTells DEF OrElse, TrueHydrology
<1>5. OrElse(h.river, r) # None => OrElse(h.river, r) \in Rivers(a)
  BY <1>2, ClientTells DEF OrElse, TrueHydrology, Rivers
<1>6. QED BY <1>1, <1>3, <1>4, <1>5 DEF TrueHydrology

-----------------------------------------------------------------------------
LEMMA ScoreTold ==
  ASSUME NEW w, Truthful(w), NEW stale, NEW rivers, NEW h, TrueHydrology(h, rivers),
         Reasons(w, stale, h, Now) = {}
  PROVE  \E soil \in SoilUntil(w.observed), river \in rivers :
           CalculateRiskScore(w, h) = FullScore(w.observed, soil, river)
<1> DEFINE rain == Told[w.observed].rain
<1>1. /\ h.terrain = TerrainFrom(Elevation) /\ h.river \in rivers
      /\ w.observed # None
      /\ CurrentHourFound(w) /\ ~HistoryShort(w) /\ ~ForecastShort(w)
      /\ Readings(w.soil, CurrentHourIndex(w) + 1) # {}
  BY NoReason DEF TrueHydrology
<1>2. w.current = Told[w.observed].current /\ w.code = Told[w.observed].code
  BY <1>1 DEF Truthful
<1>3. Total(HoursAfter(w.rain, CurrentHourIndex(w), ForecastHours))
        = RainAfter(rain, w.observed, ForecastHours)
  BY <1>1, ForecastTold
<1>4. ShortWindow \in 1 .. HistoryHours /\ HistoryHours \in 1 .. HistoryHours BY Limits
<1>5. Total(PreviousHours(w.rain, CurrentHourIndex(w) + 1, ShortWindow))
        = RainAfter(rain, w.observed - ShortWindow, ShortWindow)
  BY <1>1, <1>4, HistoryTold
<1>6. Total(PreviousHours(w.rain, CurrentHourIndex(w) + 1, HistoryHours))
        = RainAfter(rain, w.observed - HistoryHours, HistoryHours)
  BY <1>1, <1>4, HistoryTold
<1>7. PICK soil \in SoilUntil(w.observed) :
        SoilMoistureScore(w.soil, CurrentHourIndex(w) + 1) = Share(soil, 40, 20)
  BY <1>1, SoilTold
<1>8. CalculateRiskScore(w, h) = FullScore(w.observed, soil, h.river)
  BY <1>1, <1>2, <1>3, <1>5, <1>6, <1>7, ZenonT(60) DEF CalculateRiskScore, FullScore
<1>9. QED BY <1>1, <1>7, <1>8

LEMMA AssessedHonestly ==
  ASSUME NEW w, Truthful(w), NEW stale, NEW rivers, NEW h, TrueHydrology(h, rivers),
         NEW a, a = Assess(w, stale, h)
  PROVE  Honest(a, rivers)
<1> SUFFICES ASSUME a.status = 200 PROVE Honest(a, rivers) BY DEF Honest
<1>1. /\ a.observed = w.observed /\ a.score = CalculateRiskScore(w, h)
      /\ a.confidence = AssessConfidence(w, stale, h, Now)
  BY DEF Assess
<1>2. CASE a.confidence = "low" BY <1>2 DEF Honest
<1>3. CASE a.confidence # "low"
  <2>1. Reasons(w, stale, h, Now) = {} BY <1>1, <1>3 DEF AssessConfidence
  <2>2. \E soil \in SoilUntil(w.observed), river \in rivers :
          CalculateRiskScore(w, h) = FullScore(w.observed, soil, river)
    BY <2>1, ScoreTold
  <2>3. w.observed # None /\ Now - w.observed =< MaxObservationAge BY <2>1, NoReason
  <2>4. QED BY <1>1, <2>2, <2>3 DEF Honest
<1>4. QED BY <1>2, <1>3

LEMMA TimelyIsHonest ==
  ASSUME NEW a \in Answers, a.riverAge # None => a.riverAge =< RiverStaleFor + 1
  PROVE  a \in HonestAnswers
<1> SUFFICES ASSUME NEW s \in Assessments(a) PROVE Honest(s, Rivers(a))
  BY DEF HonestAnswers
<1>1. \E w, stale, h : w \in Weathers /\ TrueHydrology(h, Rivers(a)) /\ s = Assess(w, stale, h)
  <2>1. CASE a.weather = "server"
    <3>1. PICK w \in Weathers, stale \in BOOLEAN : s = Assess(w, stale, Hydrology(a))
      BY <2>1 DEF Assessments, ServerAssessments
    <3>2. QED BY <3>1, ServerTells
  <2>2. CASE a.weather # "server"
    <3>1. PICK w \in {v \in Weathers : ValidateClientWeather(v)}, t \in ClientTerrains, r \in ClientRivers :
            s = Assess(w, NotStale, Filled(Hydrology(a), t, r))
      BY <2>2 DEF Assessments, ClientAssessments
    <3>2. QED BY <3>1, FilledTells
  <2>3. QED BY <2>1, <2>2
<1>2. PICK w, stale, h : w \in Weathers /\ TrueHydrology(h, Rivers(a)) /\ s = Assess(w, stale, h)
  BY <1>1
<1>3. Truthful(w) BY <1>2, TruthAssumption
<1>4. QED BY <1>2, <1>3, AssessedHonestly

(* Whatever the providers and devices say of an hour and leave out of it,    *)
(* whichever input is late, missing, short or of another hour, an answer of  *)
(* more than low confidence has the score of the complete data of a recent   *)
(* hour, but for the two inputs the code is silent about: the soil moisture  *)
(* may be that of an earlier hour, and the river that of an answer of the    *)
(* Flood API up to RiverStaleFor old, or a day off from a device.            *)
THEOREM ConfidenceAlwaysHonest == Spec => []ConfidenceHonest
<1>1. Inv => ConfidenceHonest
  BY TimelyIsHonest DEF Inv, AnswerInv, RiverInTime, ConfidenceHonest
<1>2. QED BY <1>1, InitInv, NextInv, PTL DEF Spec

-----------------------------------------------------------------------------
(* A series as long as its hours ends after the window that starts before    *)
(* the hour under way.                                                       *)
LEMMA ValidNeverPanics ==
  ASSUME NEW w, Truthful(w), ValidateClientWeather(w)
  PROVE  ~SlicePanics(w)
<1>1. PICK short \in Nat \ {0} : short = ShortWindow BY Limits
<1>2. w.times \in Nat /\ Len(w.rain) = w.times /\ w.observed # None
  BY DEF Truthful, ValidateClientWeather
<1>3. CASE CurrentHourFound(w)
  <2>1. /\ CurrentHourIndex(w) = w.observed - w.first /\ w.observed - w.first \in 0 .. w.times - 1
    BY <1>3 DEF CurrentHourIndex, CurrentHourFound
  <2>2. PICK at \in Nat : at = CurrentHourIndex(w) /\ at =< w.times - 1 BY <1>2, <2>1
  <2>3. at + 1 - short =< w.times BY <1>1, <1>2, <2>2
  <2>4. QED BY <1>1, <1>2, <2>2, <2>3 DEF SlicePanics
<1>4. CASE ~CurrentHourFound(w)
  <2>1. PICK history \in Nat : history = HistoryHours BY Limits
  <2>2. CurrentHourIndex(w) = Min({history, w.times}) BY <1>2, <1>4, <2>1 DEF CurrentHourIndex
  <2>3. PICK at \in Nat : at = CurrentHourIndex(w) /\ at =< w.times BY <1>2, <2>2, MinOfTwo
  <2>4. at + 1 - short =< w.times BY <1>1, <1>2, <2>3
  <2>5. QED BY <1>1, <1>2, <2>3, <2>4 DEF SlicePanics
<1>5. QED BY <1>3, <1>4

LEMMA ValidIsScored == \A a \in Answers : a.weather = "device" => a \in ScoredAnswers
<1> SUFFICES ASSUME NEW a \in Answers, a.weather = "device", NEW s \in Assessments(a)
             PROVE  s.status = 200
  BY DEF ScoredAnswers
<1>1. PICK w \in {v \in Weathers : ValidateClientWeather(v)}, t \in ClientTerrains, r \in ClientRivers :
        s = Assess(w, NotStale, Filled(Hydrology(a), t, r))
  BY DEF Assessments, ClientAssessments
<1>2. ~SlicePanics(w) BY <1>1, TruthAssumption, ValidNeverPanics
<1>3. QED BY <1>1, <1>2 DEF Assess

(* What ValidateClientWeather lets pass is scored, whatever a device sends:  *)
(* no series it passes on ends before a window of the score begins.          *)
THEOREM DeviceWeatherAlwaysScored == Spec => []DeviceWeatherScored
<1>1. Inv => DeviceWeatherScored BY ValidIsScored DEF Inv, AnswerInv, DeviceWeatherScored
<1>2. QED BY <1>1, InitInv, NextInv, PTL DEF Spec
=============================================================================
