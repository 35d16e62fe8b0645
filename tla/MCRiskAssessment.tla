-------------------------- MODULE MCRiskAssessment --------------------------
(* Twelve hours of weather.  A complete response has hours 3 to 10; the     *)
(* others lack something of it, one thing at a time.                        *)
EXTENDS RiskAssessment

CONSTANTS get1, get2

Rains == <<30, 20, 40, 75, 2, 1, 0, 1, 2, 0, 1, 0>>
Codes == <<0, 61, 63, 95, 80, 61, 61, 0, 0, 61, 0, 0>>
Soils == <<36, 36, 36, 36, 35, 35, 34, 34, 35, 35, 36, 36>>

(* The forecast of an hour changes from one hour to the next.               *)
ToldByHour ==
    [o \in 1 .. 12 |-> [current |-> Rains[o], code |-> Codes[o], soil |-> Soils,
                        rain |-> [h \in 1 .. 12 |-> Rains[h] + (IF h > o THEN (h - o) % 3 ELSE 0)]]]

(* Soil moisture is there for the hours in wet.                             *)
Response(first, times, rain, wet, observed) ==
    LET o == IF observed = None THEN 7 ELSE observed
    IN  [first |-> first, times |-> times,
         rain |-> [i \in 1 .. rain |-> ToldByHour[o].rain[first + i - 1]],
         soil |-> [i \in 1 .. times |-> IF i \in wet THEN Soils[first + i - 1] ELSE 0],
         observed |-> observed,
         current |-> IF observed = None THEN 0 ELSE Rains[o],
         code |-> IF observed = None THEN 0 ELSE Codes[o]]

Responses ==
    {Response(f, 11 - f, 11 - f, 1 .. 11 - f, 7) : f \in 3 .. 5}    \* history: enough, just enough, too short
    \cup {Response(3, t, t, 1 .. t, 7) : t \in {4, 5, 6, 7}}       \* the hour missing, forecast short, just enough
    \cup {Response(3, 8, r, 1 .. 8, 7) : r \in {1, 2, 3, 4, 6, 7}} \* rain shorter than the hours
    \cup {Response(3, 8, 8, s, 7) : s \in {{}, {1, 2}, {6, 7, 8}}} \* soil moisture missing, old, ahead
    \cup {Response(1, 12, 12, 1 .. 12, o) : o \in {None, 4, 5, 6, 8}}  \* undated, old, of another hour

Ground == <<100, 104, 104, 103, 105, 104, 103, 106, 102>>

(* A side stream, the main river and a cell without a baseline.             *)
Cells(baseline, peak) ==
    <<<<4, None, 5, 30, 40>>, <<20, 30, baseline, 44, peak>>, <<None, None, None, 90, 90>>>>

(* The river rises, and was lower the longer ago the forecast was made.     *)
FloodByAge == [age \in Age |-> Cells(26, 90 - 6 * age)]
FloodAround == [late \in -1 .. 1 |-> {Cells(22, 70 + 10 * late)}]

DeviceGround == {None, Ground, <<100>>}

(* Cells of today and tomorrow, and those of a flood some days ago.         *)
DeviceCells == {None, [late |-> 1, cells |-> Cells(22, 80)], [late |-> 0, cells |-> Cells(22, 70)],
                [late |-> 2, cells |-> Cells(26, 900)]}
=============================================================================
