----------------------------- MODULE MCRetention -----------------------------
(* Small instances of Retention for TLC. *)
EXTENDS Retention, TLC

CONSTANTS flood, copy, p1, c1, w1

PhotoOfCopy == p1 :> copy
CopyOfFlood == flood :> None @@ copy :> flood
FloodFirst == flood :> 1 @@ copy :> 2
=============================================================================
