------------------------------ MODULE MCService ------------------------------
(* A binary of the old release and one of the new, which has one migration   *)
(* more.                                                                      *)
EXTENDS Service, TLC

CONSTANTS old, new, first, second

Callers == Permutations(Callback)

Release == [i \in Instance |-> IF i = old THEN Latest - 1 ELSE Latest]
=============================================================================
