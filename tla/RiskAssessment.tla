--------------------------- MODULE RiskAssessment ---------------------------
(***************************************************************************)
(* Risk requests for a place (handlers/risk.go, services/risk.go) and the   *)
(* ground and river inputs of its grid cell (services/hydrology.go): a      *)
(* request looks both up at once, from a cache that keeps failures too,     *)
(* while it waits for weather, and scores whatever it has.  GET uses the    *)
(* server's weather and gives up without; POST brings the device's weather, *)
(* which fills in for the server's ground and river where it has none.      *)
(*                                                                          *)
(* Time is a Tick, at most one of which passes during a request: no lookup  *)
(* outlives HydrologyConfig.Timeout.  Requests at other places only matter  *)
(* here by pushing this cell out of a full cache.                           *)
(***************************************************************************)
EXTENDS RiskScore

CONSTANTS
    Request,
    RiverFreshFor, RiverStaleFor, RetryAfter   \* HydrologyConfig, in ticks

ASSUME AssessmentAssumption ==
    /\ RiverFreshFor \in Nat \ {0} /\ RiverStaleFor \in Nat /\ RiverFreshFor =< RiverStaleFor
    /\ RetryAfter \in Nat \ {0}

(* The age of a value counts up to where it is of no use.                   *)
MaxAge == RiverStaleFor + 2
Age == 0 .. MaxAge

(* An answer without the flow of a river is a failure (FetchRiver).         *)
ASSUME FloodAssumption ==
    \A age \in Age : age \in DOMAIN Flood /\ RiverFlowOn(Flood[age], RiverPastDays) # None

VARIABLES
    cache,    \* the cell's entry of each kind
    pc,       \* requests
    waited,   \* requests during which the Tick passed
    look,     \* each request's two lookups
    answer    \* what the response sent in the last step was made of, None if it sent none

vars == <<cache, pc, waited, look, answer>>

Kind == {"terrain", "river"}

(* An entry without a value remembers a failure; retryIn is what is left of *)
(* RetryAfter.                                                              *)
Entry == [age : Age \cup {None}, retryIn : 0 .. RetryAfter]

(* entry is the one the lookup found: none, the one still in the cache, or  *)
(* one that was replaced or dropped since.  age is that of the value it     *)
(* answers, or falls back to while it fetches.                              *)
Lookup == [pc : {"start", "fetching", "answered"}, entry : {"none", "current", "orphan"},
           age : Age \cup {None}]
NoLookup == [pc |-> "start", entry |-> "none", age |-> None]

(* Whose weather an answer scored, whether the server had the ground for it *)
(* and how old a river.                                                     *)
Answers == {[weather |-> w, ground |-> g, riverAge |-> age] :
                w \in {"server", "device"}, g \in BOOLEAN, age \in Age \cup {None}}

TypeOK ==
    /\ cache \in [Kind -> Entry \cup {None}]
    /\ pc \in [Request -> {"idle", "open", "gone"}]
    /\ waited \subseteq {q \in Request : pc[q] # "idle"}
    /\ look \in [Request -> [Kind -> Lookup]]
    /\ \A q \in Request, k \in Kind :
        /\ pc[q] = "idle" => look[q][k] = NoLookup
        /\ look[q][k].entry = "current" => cache[k] # None
        /\ k = "terrain" => look[q][k].age \in {0, None}
    /\ answer \in Answers \cup {None}

Init ==
    /\ cache = [k \in Kind |-> None]
    /\ pc = [q \in Request |-> "idle"]
    /\ waited = {}
    /\ look = [q \in Request |-> [k \in Kind |-> NoLookup]]
    /\ answer = None

-----------------------------------------------------------------------------
(* lookup, of one kind for one request.                                     *)

Fresh(k, age) == k = "terrain" \/ age < RiverFreshFor

HasValue(k) == cache[k] # None /\ cache[k].age # None
Hit(k) == HasValue(k) /\ Fresh(k, cache[k].age)

(* Mutant: however old.                                                     *)
BugCached(k) == IF HasValue(k) THEN cache[k].age ELSE None

(* The value to fall back to.                                               *)
Cached(k) == IF HasValue(k) /\ cache[k].age =< RiverStaleFor THEN cache[k].age ELSE None

(* Mutant: an entry without a value is never tried again.                   *)
BugSpared(k) == cache[k] # None /\ (cache[k].age = None \/ cache[k].retryIn > 0)

Spared(k) == cache[k] # None /\ cache[k].retryIn > 0

Answered(age) == [pc |-> "answered", entry |-> "none", age |-> age]

Found(q, k) ==
    /\ pc[q] # "idle" /\ look[q][k].pc = "start"
    /\ \/ /\ Hit(k)
          /\ look' = [look EXCEPT ![q][k] = Answered(cache[k].age)]
       \/ /\ ~Hit(k) /\ Spared(k)
          /\ look' = [look EXCEPT ![q][k] = Answered(Cached(k))]
    /\ answer' = None
    /\ UNCHANGED <<cache, pc, waited>>

StartFetch(q, k) ==
    /\ pc[q] # "idle" /\ look[q][k].pc = "start"
    /\ ~Hit(k) /\ ~Spared(k)
    /\ look' = [look EXCEPT ![q][k] = [pc |-> "fetching",
                                       entry |-> IF cache[k] = None THEN "none" ELSE "current",
                                       age |-> Cached(k)]]
    /\ answer' = None
    /\ UNCHANGED <<cache, pc, waited>>

(* The lookups of a kind after its entry was replaced or dropped.           *)
Orphaned(lk, k) ==
    [r \in Request |-> IF lk[r][k].entry = "current" THEN [lk[r] EXCEPT ![k].entry = "orphan"]
                       ELSE lk[r]]

FetchSucceeds(q, k) ==
    /\ look[q][k].pc = "fetching"
    /\ cache' = [cache EXCEPT ![k] = [age |-> 0, retryIn |-> 0]]
    /\ look' = Orphaned([look EXCEPT ![q][k] = Answered(0)], k)
    /\ answer' = None
    /\ UNCHANGED <<pc, waited>>

(* An entry is made for the failure if the lookup found none, over whatever *)
(* was stored meanwhile; a failure noted in an orphan is lost.              *)
FetchError(q, k) ==
    LET l == look[q][k]
        failed == [look EXCEPT ![q][k] = Answered(l.age)]
    IN  /\ l.pc = "fetching"
        /\ CASE l.entry = "none" -> /\ cache' = [cache EXCEPT ![k] = [age |-> None, retryIn |-> RetryAfter]]
                                    /\ look' = Orphaned(failed, k)
             [] l.entry = "current" -> /\ cache' = [cache EXCEPT ![k].retryIn = RetryAfter]
                                       /\ look' = failed
             [] OTHER -> look' = failed /\ UNCHANGED cache
        /\ answer' = None
        /\ UNCHANGED <<pc, waited>>

(* The provider fails or the timeout passes; of a request that is gone the  *)
(* context is cancelled, which the code takes for a failure as well.        *)
FetchFails(q, k) == pc[q] = "open" /\ FetchError(q, k)
FetchCancelled(q, k) == pc[q] = "gone" /\ FetchError(q, k)

(* storeBounded for another cell drops this one.                            *)
Evict(k) ==
    /\ cache[k] # None
    /\ cache' = [cache EXCEPT ![k] = None]
    /\ look' = Orphaned(look, k)
    /\ answer' = None
    /\ UNCHANGED <<pc, waited>>

-----------------------------------------------------------------------------
Ask(q) ==
    /\ pc[q] = "idle"
    /\ pc' = [pc EXCEPT ![q] = "open"]
    /\ answer' = None
    /\ UNCHANGED <<cache, waited, look>>

(* GetRisk without weather answers 503 at once, or the client hangs up: the *)
(* context of the lookups under way is cancelled.                           *)
Abandon(q) ==
    /\ pc[q] = "open"
    /\ pc' = [pc EXCEPT ![q] = "gone"]
    /\ answer' = None
    /\ UNCHANGED <<cache, waited, look>>

LookedUp(q) == \A k \in Kind : look[q][k].pc = "answered"

Done(q) ==
    /\ pc' = [pc EXCEPT ![q] = "idle"]
    /\ waited' = waited \ {q}
    /\ look' = [look EXCEPT ![q] = [k \in Kind |-> NoLookup]]
    /\ UNCHANGED cache

Forgotten(q) ==
    /\ pc[q] = "gone" /\ LookedUp(q)
    /\ Done(q)
    /\ answer' = None

Answer(q, weather) ==
    /\ pc[q] = "open" /\ LookedUp(q)
    /\ answer' = [weather |-> weather, ground |-> look[q]["terrain"].age # None,
                  riverAge |-> look[q]["river"].age]
    /\ Done(q)

AnswerGet(q) == Answer(q, "server")
AnswerPost(q) == Answer(q, "device")

(* The assessments an answer may carry.                                     *)
Hydrology(a) == [terrain |-> ServerTerrain(a.ground), river |-> ServerRiver(a.riverAge)]

Assessments(a) ==
    IF a.weather = "server" THEN ServerAssessments(Hydrology(a)) ELSE ClientAssessments(Hydrology(a))

-----------------------------------------------------------------------------
Older(k, age) == IF k = "terrain" \/ age = None THEN age ELSE Min({age + 1, MaxAge})

Tick ==
    /\ \A q \in Request : pc[q] # "idle" => q \notin waited
    /\ cache' = [k \in Kind |-> IF cache[k] = None THEN None
                                ELSE [age |-> Older(k, cache[k].age),
                                      retryIn |-> Max({cache[k].retryIn - 1, 0})]]
    /\ look' = [q \in Request |-> [k \in Kind |->
                    [look[q][k] EXCEPT !.age = Older(k, look[q][k].age)]]]
    /\ waited' = {q \in Request : pc[q] # "idle"}
    /\ answer' = None
    /\ UNCHANGED pc

(* The scheduler runs every goroutine, a fetch ends by its timeout, and     *)
(* time passes; nobody has to ask.                                          *)
Progress(q) ==
    \/ Forgotten(q) \/ AnswerGet(q) \/ AnswerPost(q)
    \/ \E k \in Kind : \/ Found(q, k) \/ StartFetch(q, k)
                       \/ FetchSucceeds(q, k) \/ FetchFails(q, k) \/ FetchCancelled(q, k)

Next ==
    \/ \E q \in Request : Ask(q) \/ Abandon(q) \/ Progress(q)
    \/ \E k \in Kind : Evict(k)
    \/ Tick

Spec == Init /\ [][Next]_vars

Fairness == WF_vars(Tick) /\ \A q \in Request : WF_vars(Progress(q))

FairSpec == Spec /\ Fairness

-----------------------------------------------------------------------------
(* An answer whose confidence is not low has the score that complete data   *)
(* gives for an hour that is recent enough, whatever the weather lacked:    *)
(* nothing left out, taken from another hour or guessed goes unsaid          *)
(* (AssessConfidence: "Every reason lowers the level"), but for two inputs   *)
(* that the code says nothing about.  The soil moisture may be that of any   *)
(* earlier hour (risk.go:135, latestPositive), and the river that of an      *)
(* answer up to RiverStaleFor old, and the time of the request, or of a      *)
(* device's from yesterday to tomorrow (hydrology.go:321,                    *)
(* clienthydrology.go:73).                                                   *)
Rivers(a) == IF a.riverAge = None THEN RiversAroundToday ELSE RiversWithin(RiverStaleFor + 1)

HonestAnswers ==
    {a \in Answers : \A s \in Assessments(a) : Honest(s, Rivers(a))}

ConfidenceHonest == answer # None => answer \in HonestAnswers

(* The weather a device sends decides how the series are sliced: what        *)
(* ValidateClientWeather lets pass never ends before a window begins, so     *)
(* that no device's request panics (clientweather.go:53, risk.go:121).       *)
ScoredAnswers == {a \in Answers : \A s \in Assessments(a) : s.status = 200}

DeviceWeatherScored ==
    answer # None /\ answer.weather = "device" => answer \in ScoredAnswers

(* However lookups, failures, fetches of others and evictions fall, the     *)
(* river discharge scored is at most RiverStaleFor old, and the time of the *)
(* request (HydrologyConfig.RiverStaleFor).                                 *)
RiverInTime ==
    answer # None /\ answer.riverAge # None => answer.riverAge =< RiverStaleFor + 1

Complete == answer # None => answer.ground /\ answer.riverAge # None

(* Once the elevation and flood providers answer again and nobody abandons  *)
(* a request, sooner or later every answer has its ground and river: no     *)
(* failure is remembered for ever.                                          *)
EventuallyComplete ==
    <>[][\A q \in Request, k \in Kind : ~FetchFails(q, k) /\ ~FetchCancelled(q, k)]_vars
        => <>[]Complete
=============================================================================
