------------------------------ MODULE RiskScore ------------------------------
(***************************************************************************)
(* The flood risk score (services/risk.go) and the confidence that goes     *)
(* with it (services/confidence.go), as functions of what the providers     *)
(* returned.  Rain is in mm, soil moisture in hundredths, discharge in m3/s *)
(* and ground in metres, all whole numbers; scores are in sixtieths of a    *)
(* point, which makes every weight of the code a whole number but the       *)
(* river's ratio, rounded down.                                             *)
(***************************************************************************)
EXTENDS Integers, Sequences, FiniteSetsExt, TLC

CONSTANTS
    HistoryHours,       \* historicalDays * 24
    ShortWindow,        \* the 48 hours of recent rain
    ForecastHours,
    RiverPastDays, RiverPeakDays, RiverForecastDays,
    MaxObservationAge,  \* in hours
    MaxClientObservationAge, MaxClientHours,
    Now,                            \* the present hour
    Told,                           \* what the weather provider says of a place when an hour is the present
                                    \* one: its current conditions, rain and soil moisture by the hour
    Elevation,                      \* the ground around the place
    Flood,                          \* the rivers around it: the Flood API's answer of so long ago (in ticks)
    DayFlood,                       \* its answers for the day before, today and the day after
    Weathers,                       \* the responses of the weather provider, whole or not
    DeviceElevation, DeviceFlood,   \* what a device may send along: days late and cells
    None

ASSUME ScoreAssumption ==
    /\ HistoryHours \in Nat \ {0} /\ ShortWindow \in 1 .. HistoryHours
    /\ ForecastHours \in Nat \ {0} /\ MaxObservationAge \in Nat /\ MaxClientObservationAge \in Nat
    /\ RiverPastDays \in Nat \ {0} /\ RiverPeakDays \in Nat \ {0}
    /\ RiverForecastDays \in Nat

-----------------------------------------------------------------------------
(* A weather response: hourly.time starts at hour first and has times       *)
(* entries; a series may be shorter.  observed is the hour of the current   *)
(* conditions, None if the provider does not say; current and code are the  *)
(* rain and the weather code of that hour.                                  *)

CurrentHourFound(w) == w.observed # None /\ w.observed - w.first \in 0 .. w.times - 1

(* An index into the series as the code has it, from 0.                     *)
CurrentHourIndex(w) ==
    IF CurrentHourFound(w) THEN w.observed - w.first ELSE Min({HistoryHours, Len(w.rain)})

HoursAfter(values, index, n) ==
    LET start == Min({index + 1, Len(values)})
    IN  SubSeq(values, start + 1, Min({start + n, Len(values)}))

PreviousHours(values, end, hours) ==
    SubSeq(values, Max({end - hours, 0}) + 1, Min({end, Len(values)}))

(* values[start:end] of a series that ends before the window starts.        *)
SlicePanics(w) == CurrentHourIndex(w) + 1 - ShortWindow > Len(w.rain)

(* The positive readings before end; a missing one is decoded as zero.      *)
Readings(values, end) == {i \in DOMAIN values : i =< end /\ values[i] > 0}

-----------------------------------------------------------------------------
(* The ground around a point, the point first: eight times the depression.  *)
TerrainFrom(elevation) ==
    MapThenSumSet(LAMBDA i : elevation[i], 2 .. 9) - 8 * elevation[1]

Known(series) == SelectSeq(series, LAMBDA v : v # None)

Median(s) == LET n == Len(s) t == SortSeq(s, <)
             IN  IF n % 2 = 1 THEN t[n \div 2 + 1] ELSE (t[n \div 2] + t[n \div 2 + 1]) \div 2

(* The flow of each cell that has usable values before and from day.        *)
Flows(cells, day) ==
    LET Past(c) == Known(SubSeq(c, day - RiverPastDays + 1, day))
        Ahead(c) == Known(SubSeq(c, day + 1, day + RiverPeakDays))
        Usable == {i \in DOMAIN cells : /\ day >= RiverPastDays
                                        /\ day + RiverPeakDays =< Len(cells[i])
                                        /\ Past(cells[i]) # <<>> /\ Ahead(cells[i]) # <<>>}
    IN  [i \in Usable |-> [baseline |-> Median(Past(cells[i])),
                           peak |-> Max({Ahead(cells[i])[j] : j \in DOMAIN Ahead(cells[i])})]]

(* The cell with the highest baseline, the first of them.                   *)
RiverFlowOn(cells, day) ==
    LET flows == Flows(cells, day)
        best == {i \in DOMAIN flows : \A j \in DOMAIN flows : flows[j].baseline =< flows[i].baseline}
    IN  IF best = {} THEN None ELSE flows[Min(best)]

-----------------------------------------------------------------------------
Points(n) == 60 * n

(* points for a value of full and more, in proportion below it.             *)
Share(value, full, points) == Min({Points(points), (value * Points(points)) \div full})

LowLyingScore(terrain) ==
    IF terrain = None THEN 0 ELSE Share(Max({0, terrain}), 8 * 15, 10)

MinRiverDischarge == 10

(* Nothing up to one and a half times the baseline, 20 points from 4 times. *)
RiverScore(river) ==
    IF river = None \/ river.peak < MinRiverDischarge THEN 0
    ELSE LET baseline == Max({river.baseline, MinRiverDischarge})
         IN  Share(Max({0, 2 * river.peak - 3 * baseline}), 5 * baseline, 20)

Severity(code) ==
    CASE code >= 95 -> Points(30)
      [] code \in 80 .. 94 -> Points(15)
      [] code \in 60 .. 79 -> Points(10)
      [] OTHER -> 0

SoilMoistureScore(values, end) ==
    LET found == Readings(values, end)
    IN  IF found = {} THEN 0 ELSE Share(values[Max(found)], 40, 20)

Total(values) == MapThenSumSet(LAMBDA i : values[i], DOMAIN values)

CalculateRiskScore(w, h) ==
    LET now == CurrentHourIndex(w)
    IN  Min({100, (10 * Points(w.current)
                 + 5 * Points(Total(HoursAfter(w.rain, now, ForecastHours)))
                 + Share(Total(PreviousHours(w.rain, now + 1, ShortWindow)), 50, 20)
                 + Share(Total(PreviousHours(w.rain, now + 1, HistoryHours)), 150, 15)
                 + SoilMoistureScore(w.soil, now + 1)
                 + LowLyingScore(h.terrain) + RiverScore(h.river)
                 + Severity(w.code)) \div Points(1)})

ScoreToLevel(score) ==
    CASE score >= 75 -> "Emergency"
      [] score \in 50 .. 74 -> "Alert"
      [] score \in 25 .. 49 -> "Advisory"
      [] OTHER -> "Normal"

-----------------------------------------------------------------------------
(* What lowers the confidence, hydrologyGaps included.                      *)
(* Mutant: the hour under way counted as one more of history.               *)
BugHistoryShort(w) == Min({CurrentHourIndex(w) + 2, Len(w.rain)}) < HistoryHours

HistoryShort(w) == Min({CurrentHourIndex(w) + 1, Len(w.rain)}) < HistoryHours

ForecastShort(w) == Len(HoursAfter(w.rain, CurrentHourIndex(w), ForecastHours)) < ForecastHours

Reasons(w, stale, h, now) ==
    {r \in {"ground", "river", "cached", "undated", "old", "hour", "history", "forecast", "soil"} :
        \/ r = "ground" /\ h.terrain = None
        \/ r = "river" /\ h.river = None
        \/ r = "cached" /\ stale
        \/ r = "undated" /\ w.observed = None
        \/ r = "old" /\ w.observed # None /\ now - w.observed > MaxObservationAge
        \/ r = "hour" /\ ~CurrentHourFound(w)
        \/ r = "history" /\ CurrentHourFound(w) /\ HistoryShort(w)
        \/ r = "forecast" /\ CurrentHourFound(w) /\ ForecastShort(w)
        \/ r = "soil" /\ Readings(w.soil, CurrentHourIndex(w) + 1) = {}}

(* Never high while modelCalibrated is false.                               *)
AssessConfidence(w, stale, h, now) ==
    IF Reasons(w, stale, h, now) = {} THEN "medium" ELSE "low"

(* The assessment with status 200; scoring panics on a series that ends     *)
(* before the window, for which Recovery answers 500 (handlers/errors.go).  *)
Assess(w, stale, h) ==
    LET score == CalculateRiskScore(w, h)
    IN  IF SlicePanics(w) THEN [status |-> 500]
        ELSE [status |-> 200, score |-> score, level |-> ScoreToLevel(score),
              confidence |-> AssessConfidence(w, stale, h, Now), observed |-> w.observed]

-----------------------------------------------------------------------------
(* What a request brings.                                                   *)

(* Mutant: the series may have any length.                                  *)
BugValidateClientWeather(w) ==
    w.observed # None /\ Now - w.observed \in -1 .. MaxClientObservationAge /\ w.times \in 1 .. MaxClientHours

ValidateClientWeather(w) ==
    /\ w.observed # None /\ Now - w.observed \in -1 .. MaxClientObservationAge
    /\ w.times \in 1 .. MaxClientHours
    /\ Len(w.rain) = w.times /\ Len(w.soil) = w.times

ValidClientTerrain(e) == e # None => Len(e) = 9
ClientTerrain(e) == IF e = None THEN None ELSE TerrainFrom(e)

(* The day at riverPastDays is today, give or take one.                     *)
ValidClientRiver(f) ==
    f # None => /\ f.late \in -1 .. 1 /\ Len(f.cells) \in 1 .. 9
                /\ \A i \in DOMAIN f.cells : Len(f.cells[i]) = RiverPastDays + RiverForecastDays
ClientRiver(f) == IF f = None THEN None ELSE RiverFlowOn(f.cells, RiverPastDays)

(* The server's own ground, if it has it, and its discharge of some age.    *)
ServerTerrain(ground) == IF ground THEN TerrainFrom(Elevation) ELSE None
ServerRiver(age) == IF age = None THEN None ELSE RiverFlowOn(Flood[age], RiverPastDays)

(* GenerateRiskAssessment, of what the server has of ground and rivers.     *)
ServerAssessments(h) == {Assess(w, stale, h) : w \in Weathers, stale \in BOOLEAN}

(* AssessClientWeather: the device's weather, and its ground and rivers     *)
(* where the server has none.                                               *)
OrElse(server, client) == IF server = None THEN client ELSE server

Filled(h, t, r) == [terrain |-> OrElse(h.terrain, t), river |-> OrElse(h.river, r)]

ClientTerrains == {ClientTerrain(e) : e \in {d \in DeviceElevation : ValidClientTerrain(d)}}
ClientRivers == {ClientRiver(f) : f \in {d \in DeviceFlood : ValidClientRiver(d)}}

NotStale == FALSE

ClientAssessments(h) ==
    {Assess(w, NotStale, Filled(h, t, r)) :
        w \in {v \in Weathers : ValidateClientWeather(v)}, t \in ClientTerrains, r \in ClientRivers}

-----------------------------------------------------------------------------
(* What providers say is taken as said: the service has no means to tell    *)
(* better.  A response has the conditions and the rain that were told for   *)
(* its hour, as much of them as there is, and the soil moisture of some of  *)
(* its hours; an hour without a reading of rain, decoded as zero, would be  *)
(* a dry one to the service.  One without an hour may say anything.  A      *)
(* place is its grid cell, and a device's answers are those for it.         *)
Truthful(w) ==
    /\ w.first \in Int /\ w.times \in Nat /\ w.rain \in Seq(Nat) /\ w.soil \in Seq(Nat)
    /\ w.observed # None =>
        LET told == Told[w.observed]
        IN  /\ w.observed \in Int
            /\ w.current = told.current /\ w.code = told.code
            /\ \A i \in DOMAIN w.rain : w.rain[i] = told.rain[w.first + i - 1]
            /\ \A i \in DOMAIN w.soil : w.soil[i] > 0 =>
                  w.first + i - 1 \in DOMAIN told.soil /\ w.soil[i] = told.soil[w.first + i - 1]

ASSUME TruthAssumption ==
    /\ Now \in Int /\ None \notin Int
    /\ \A age \in DOMAIN Flood : Flood[age] \in Seq(Seq(Int \cup {None}))
    /\ \A late \in -1 .. 1 : \A cells \in DayFlood[late] : cells \in Seq(Seq(Int \cup {None}))
    /\ \A w \in Weathers : Truthful(w)
    /\ \A e \in DeviceElevation : e # None /\ ValidClientTerrain(e) => e = Elevation
    /\ \A f \in DeviceFlood : f # None /\ ValidClientRiver(f) => f.cells \in DayFlood[f.late]

(* The rain of the n hours after hour h.                                    *)
RainAfter(rain, h, n) == Total([i \in 1 .. n |-> rain[h + i]])

(* The cells that carry the most water before the day at riverPastDays.     *)
MainRivers(cells) ==
    LET flows == Flows(cells, RiverPastDays)
    IN  {flows[i] : i \in {j \in DOMAIN flows :
            \A k \in DOMAIN flows : flows[k].baseline =< flows[j].baseline}}

(* Those of the Flood API's answers that are at most so old, and those of   *)
(* its answers of today, give or take a day.                                *)
RiversWithin(age) == UNION {MainRivers(Flood[a]) : a \in 0 .. age}
RiversAroundToday == UNION {MainRivers(cells) : cells \in UNION {DayFlood[late] : late \in -1 .. 1}}

(* The soil moisture of the hours up to o.                                  *)
SoilUntil(o) == {Told[o].soil[h] : h \in {k \in DOMAIN Told[o].soil : k =< o}}

(* The score from all there is to know when o is the present hour, but for  *)
(* one soil moisture and one of the rivers.                                 *)
FullScore(o, soil, river) ==
    LET told == Told[o]
    IN  Min({100, (10 * Points(told.current) + 5 * Points(RainAfter(told.rain, o, ForecastHours))
                 + Share(RainAfter(told.rain, o - ShortWindow, ShortWindow), 50, 20)
                 + Share(RainAfter(told.rain, o - HistoryHours, HistoryHours), 150, 15)
                 + Share(soil, 40, 20)
                 + LowLyingScore(TerrainFrom(Elevation)) + RiverScore(river)
                 + Severity(told.code)) \div Points(1)})

Honest(a, rivers) ==
    a.status = 200 /\ a.confidence # "low" =>
        /\ a.observed # None /\ Now - a.observed =< MaxObservationAge
        /\ \E soil \in SoilUntil(a.observed), river \in rivers : a.score = FullScore(a.observed, soil, river)
=============================================================================
