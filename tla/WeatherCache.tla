---------------------------- MODULE WeatherCache ----------------------------
(***************************************************************************)
(* WeatherService (services/weather.go): a cache of weather per grid cell  *)
(* that concurrent lookups share one fetch for, with a circuit breaker, a  *)
(* budget of calls and a fallback to stale copies.                         *)
(*                                                                         *)
(* Time is a Tick.  An instant is kept as what the code compares it for:   *)
(* fetchedAt as an age that saturates past every window, openUntil and the *)
(* deadline of a fetch as countdowns.  A goroutine that can run does so    *)
(* within the tick.  Callers ask for the weather where they are, again and *)
(* again; the provider may answer, fail or hang at will.                   *)
(***************************************************************************)
EXTENDS Integers, FiniteSets

CONSTANTS
  Callers, Cells,
  CellOf,                \* the grid cell of the point each caller asks for
  FreshFor, StaleFor, MaxEntries, BreakerThreshold, BreakerCooldown,
  MaxRequestsPerMinute, FetchTimeout,   \* WeatherConfig, in ticks
  Minute,                \* ticks in a minute
  Attempts,              \* OpenMeteoClient.Attempts
  None

ASSUME ConfigAssumption ==
  /\ CellOf \in [Callers -> Cells] /\ IsFiniteSet(Cells)
  /\ FreshFor \in Nat \ {0} /\ StaleFor \in Nat
  /\ MaxEntries \in Nat \ {0} /\ BreakerThreshold \in Nat \ {0}
  /\ MaxRequestsPerMinute \in Nat \ {0} /\ Minute \in Nat \ {0}
  /\ Attempts \in Nat \ {0} /\ FetchTimeout \in Nat \ {0}

(* The defaults, which main.go leaves alone: a fetch may take 15 s, the    *)
(* circuit stays open for 30 s.                                            *)
ASSUME TimeoutAssumption == BreakerCooldown \in Nat /\ FetchTimeout < BreakerCooldown

VARIABLES
  cache,      \* age of the copy of each cell, None if there is none
  inflight,   \* the fetch under way for each cell, None if there is none
  failures, openLeft, probing,   \* circuit breaker; openLeft = 0 is half-open
  tokens,     \* token bucket, a call costs Minute
  pc, captured, reply,           \* callers: where they are (served: in this tick), their `cached`, the last answer
  requests    \* requests sent to the provider in each of the last Minute ticks

vars == <<cache, inflight, failures, openLeft, probing, tokens, pc, captured, reply, requests>>
callerVars == <<pc, captured, reply>>

-----------------------------------------------------------------------------
TooOld == (IF FreshFor > StaleFor THEN FreshFor ELSE StaleFor) + 1
Age == 0 .. TooOld
Fetch == [left: 0 .. FetchTimeout, attempt: 1 .. Attempts]
Answers == [age: Age, stale: BOOLEAN]
Full == MaxRequestsPerMinute * Minute
Woken == {"fetched", "failed"}

Cached == {k \in Cells : cache[k] # None}
InFlight == {k \in Cells : inflight[k] # None}

ASSUME NoneAssumption == None \notin Int \cup Fetch \cup Answers

(* A copy that is a tick older. *)
Older(age) == IF age = None \/ age = TooOld THEN age ELSE age + 1

TypeOK ==
  /\ cache \in [Cells -> Age \cup {None}] /\ Cardinality(Cached) <= MaxEntries
  /\ inflight \in [Cells -> Fetch \cup {None}]
  /\ failures \in 0 .. BreakerThreshold
  /\ openLeft \in 0 .. BreakerCooldown \cup {None}
  /\ probing \in BOOLEAN
  /\ tokens \in 0 .. Full
  /\ pc \in [Callers -> {"idle", "served", "waiting"} \cup Woken]
  /\ captured \in [Callers -> Age \cup {None}]
  /\ reply \in [Callers -> Answers \cup {None}]
  /\ requests \in [1 .. Minute -> Nat]

Init ==
  /\ cache = [k \in Cells |-> None]
  /\ inflight = [k \in Cells |-> None]
  /\ failures = 0 /\ openLeft = None /\ probing = FALSE
  /\ tokens = Full
  /\ pc = [c \in Callers |-> "idle"]
  /\ captured = [c \in Callers |-> None]
  /\ reply = [c \in Callers |-> None]
  /\ requests = [i \in 1 .. Minute |-> 0]

-----------------------------------------------------------------------------
(* Get, up to the release of the mutex *)

IsFresh(k) == cache[k] # None /\ cache[k] < FreshFor

(* allowCallLocked: the breaker lets a call through, the budget has one. *)
BugBreakerAllows == openLeft \in {None, 0}   \* does not look at probing
BreakerAllows == openLeft = None \/ (openLeft = 0 /\ ~probing)
HasToken == tokens >= Minute

SendRequest == requests' = [requests EXCEPT ![1] = @ + 1]

(* What the caller keeps of the cache while it waits is its own. *)
Asks(c) == pc[c] \in {"idle", "served"}
Wait(c) ==
  /\ pc' = [pc EXCEPT ![c] = "waiting"]
  /\ captured' = [captured EXCEPT ![c] = cache[CellOf[c]]]
  /\ UNCHANGED reply

Answer(c, age, stale) ==
  /\ pc' = [pc EXCEPT ![c] = "served"]
  /\ reply' = [reply EXCEPT ![c] = [age |-> age, stale |-> stale]]
  /\ captured' = [captured EXCEPT ![c] = None]

(* fallback: the copy read when the lookup began, unless it is too old by now. *)
BugUsable(copy) == copy # None   \* the age was checked when the lookup began
Usable(copy) == copy # None /\ copy <= StaleFor
Fallback(c, copy) ==
  \/ Usable(copy) /\ Answer(c, copy, TRUE)
  \/ /\ ~ Usable(copy)
     /\ pc' = [pc EXCEPT ![c] = "idle"]
     /\ captured' = [captured EXCEPT ![c] = None]
     /\ UNCHANGED reply

GetHit(c) ==
  /\ Asks(c)
  /\ IsFresh(CellOf[c])
  /\ Answer(c, cache[CellOf[c]], FALSE)
  /\ UNCHANGED <<cache, inflight, failures, openLeft, probing, tokens, requests>>

GetJoin(c) ==
  /\ Asks(c)
  /\ ~ IsFresh(CellOf[c])
  /\ inflight[CellOf[c]] # None
  /\ Wait(c)
  /\ UNCHANGED <<cache, inflight, failures, openLeft, probing, tokens, requests>>

(* The fetch runs detached from its caller and sends its first request. *)
GetFetch(c) ==
  /\ Asks(c)
  /\ ~ IsFresh(CellOf[c])
  /\ inflight[CellOf[c]] = None
  /\ BreakerAllows /\ HasToken
  /\ Wait(c)
  /\ inflight' = [inflight EXCEPT ![CellOf[c]] = [left |-> FetchTimeout, attempt |-> 1]]
  /\ probing' = (openLeft # None)
  /\ tokens' = tokens - Minute
  /\ SendRequest
  /\ UNCHANGED <<cache, failures, openLeft>>

(* Without a token, the caller that was about to probe steps back. *)
StepBack == probing' = (probing /\ ~ BreakerAllows)

GetRefused(c) ==
  /\ Asks(c)
  /\ ~ IsFresh(CellOf[c])
  /\ inflight[CellOf[c]] = None
  /\ ~ (BreakerAllows /\ HasToken)
  /\ Fallback(c, cache[CellOf[c]])
  /\ StepBack
  /\ UNCHANGED <<cache, inflight, failures, openLeft, tokens, requests>>

-----------------------------------------------------------------------------
(* The fetch *)

(* A network error or a 5xx answer is tried again. *)
Retry(k) ==
  /\ inflight[k] # None
  /\ inflight[k].left > 0
  /\ inflight[k].attempt < Attempts
  /\ inflight' = [inflight EXCEPT ![k].attempt = @ + 1]
  /\ SendRequest
  /\ UNCHANGED <<cache, failures, openLeft, probing, tokens, callerVars>>

(* storeLocked: a new cell in a full cache drops what is too old to serve, *)
(* and the oldest copy if that made no room.                               *)
BugStoreOnce(k) ==   \* keeps the copy that is there
  cache' = [cache EXCEPT ![k] = IF k \in Cached \/ Cardinality(Cached) >= MaxEntries THEN @ ELSE 0]
Store(k) ==
  LET usable == {j \in Cached : cache[j] <= StaleFor}
      kept(S) == [j \in Cells |-> IF j = k THEN 0 ELSE IF j \in S THEN cache[j] ELSE None]
  IN CASE k \in Cached \/ Cardinality(Cached) < MaxEntries -> cache' = kept(Cached)
       [] OTHER ->
            IF Cardinality(usable) < MaxEntries THEN cache' = kept(usable)
            ELSE \E old \in usable : /\ \A j \in usable : cache[j] <= cache[old]
                                     /\ cache' = kept(usable \ {old})

(* The result leaves inflight and wakes the callers that wait for it. *)
BugWake(k, s) ==   \* a failure is not announced
  /\ inflight' = [inflight EXCEPT ![k] = None]
  /\ pc' = [c \in Callers |-> IF CellOf[c] = k /\ pc[c] = "waiting" /\ s = "fetched" THEN s ELSE pc[c]]
  /\ UNCHANGED <<captured, reply>>
Wake(k, s) ==
  /\ inflight' = [inflight EXCEPT ![k] = None]
  /\ pc' = [c \in Callers |-> IF CellOf[c] = k /\ pc[c] = "waiting" THEN s ELSE pc[c]]
  /\ UNCHANGED <<captured, reply>>

FetchSucceeds(k) ==
  /\ inflight[k] # None
  /\ Store(k)
  /\ failures' = 0 /\ openLeft' = None /\ probing' = FALSE
  /\ Wake(k, "fetched")
  /\ UNCHANGED <<tokens, requests>>

(* The failure is final, the last attempt's or the deadline. *)
RecordFailure ==
  /\ probing' = FALSE
  /\ failures' = IF failures < BreakerThreshold THEN failures + 1 ELSE failures
  /\ openLeft' = IF openLeft # None \/ failures' >= BreakerThreshold
                 THEN BreakerCooldown ELSE openLeft

FetchFails(k) ==
  /\ inflight[k] # None
  /\ RecordFailure
  /\ Wake(k, "failed")
  /\ UNCHANGED <<cache, tokens, requests>>

-----------------------------------------------------------------------------
(* The callers that waited *)

Return(c) ==
  /\ \/ pc[c] = "fetched" /\ Answer(c, 0, FALSE)
     \/ pc[c] = "failed" /\ Fallback(c, captured[c])
  /\ UNCHANGED <<cache, inflight, failures, openLeft, probing, tokens, requests>>

(* The request that waits is cancelled; the fetch goes on. *)
GiveUp(c) ==
  /\ pc[c] = "waiting"
  /\ pc' = [pc EXCEPT ![c] = "idle"]
  /\ captured' = [captured EXCEPT ![c] = None]
  /\ UNCHANGED <<cache, inflight, failures, openLeft, probing, tokens, reply, requests>>

-----------------------------------------------------------------------------
(* The bucket's level, which the code works out from lastRefill when it    *)
(* next needs it.                                                          *)
BugRefilled == Full   \* a minute's worth at every refill
Refilled == IF tokens + MaxRequestsPerMinute < Full THEN tokens + MaxRequestsPerMinute ELSE Full

(* Time passes over no deadline. *)
Tick ==
  /\ \A c \in Callers : pc[c] \notin Woken
  /\ \A k \in InFlight : inflight[k].left > 0
  /\ cache' = [k \in Cells |-> Older(cache[k])]
  /\ inflight' = [k \in Cells |-> IF inflight[k] = None THEN None
                                  ELSE [inflight[k] EXCEPT !.left = @ - 1]]
  /\ openLeft' = IF openLeft = None \/ openLeft = 0 THEN openLeft ELSE openLeft - 1
  /\ tokens' = Refilled
  /\ captured' = [c \in Callers |-> Older(captured[c])]
  /\ reply' = [c \in Callers |-> IF reply[c] = None THEN None
                                 ELSE [reply[c] EXCEPT !.age = Older(@)]]
  /\ requests' = [i \in 1 .. Minute |-> IF i = 1 THEN 0 ELSE requests[i - 1]]
  /\ pc' = [c \in Callers |-> IF pc[c] = "served" THEN "idle" ELSE pc[c]]
  /\ UNCHANGED <<failures, probing>>

Next ==
  \/ \E c \in Callers : \/ GetHit(c) \/ GetJoin(c) \/ GetFetch(c) \/ GetRefused(c)
                        \/ Return(c) \/ GiveUp(c)
  \/ \E k \in Cells : Retry(k) \/ FetchSucceeds(k) \/ FetchFails(k)
  \/ Tick

Spec == Init /\ [][Next]_vars

-----------------------------------------------------------------------------
(* Once the cooldown is over, at most one call tests the provider, and the *)
(* breaker counts as probing exactly while that call is out: results of    *)
(* calls from before the circuit opened come in too early to mix with it,  *)
(* and the flag never outlives its call, which would shut the provider out *)
(* for good.                                                               *)
SingleProbe ==
  openLeft = 0 => /\ probing <=> InFlight # {}
                  /\ \A j, k \in InFlight : j = k

(* Whatever a lookup waited for, the data it answers with is fresh, or     *)
(* marked stale and within the stale window at that moment.                *)
AnswersInTime ==
  \A c \in Callers : pc[c] = "served" =>
    IF reply[c].stale THEN reply[c].age <= StaleFor ELSE reply[c].age < FreshFor

(* A caller never gets older weather than it already had, though copies    *)
(* are evicted, fetched again and kept by lookups that wait.               *)
MonotonicAnswers ==
  [][\A c \in Callers : pc'[c] = "served" /\ reply[c] # None =>
        reply'[c].age <= reply[c].age]_vars

(* What the budget bounds: a minute's requests are the attempts of fetches *)
(* started since FetchTimeout before it, and those are as many as a full   *)
(* bucket and its refill allow.  Each request is named by its tick and a   *)
(* number.                                                                 *)
Sent == UNION {{i} \X (1 .. requests[i]) : i \in 1 .. Minute}
RequestsBounded ==
  Cardinality(Sent) * Minute <= Attempts * MaxRequestsPerMinute * (Minute + Minute + FetchTimeout - 2)

(* A lookup that waits, waits for a fetch that is still to report: no      *)
(* result is ever closed without waking whoever started or joined it.      *)
NoLostWaiter == \A c \in Callers : pc[c] = "waiting" => inflight[CellOf[c]] # None
=============================================================================
