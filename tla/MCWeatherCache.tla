--------------------------- MODULE MCWeatherCache ---------------------------
(* Two callers in one cell and one in another, which compete for one entry. *)
EXTENDS WeatherCache, TLC

CONSTANTS near1, near2, far, cellA, cellB

Place == [c \in Callers |-> IF c = far THEN cellB ELSE cellA]
Neighbours == Permutations({near1, near2})
=============================================================================
