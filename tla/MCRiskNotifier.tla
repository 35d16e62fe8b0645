--------------------------- MODULE MCRiskNotifier ---------------------------
(* A small instance of RiskNotifier for TLC. *)
EXTENDS RiskNotifier, TLC

CONSTANTS a1, d1, t1, s1, i1, i2, home

OneSub == [x \in {d1, s1} |-> a1]

(* A night that wraps midnight, with and without emergencies. *)
Night == [start |-> 1, end |-> 0]
AtHome == [place |-> home, min |-> 1, quiet |-> Night, emergencies |-> TRUE]
Settings == {AtHome, [AtHome EXCEPT !.min = 3, !.emergencies = FALSE]}
=============================================================================
