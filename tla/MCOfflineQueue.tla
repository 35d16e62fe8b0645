---------------------------- MODULE MCOfflineQueue ----------------------------
(* Small instances of OfflineQueue for TLC. *)
EXTENDS OfflineQueue, TLC

CONSTANTS flood, road, p1

OnePhoto == flood :> {p1} @@ road :> {}
=============================================================================
