-------------------------- MODULE MCCountyResponse --------------------------
(* Small instances of CountyResponse for TLC. *)
EXTENDS CountyResponse, TLC

CONSTANTS r1, r2, p1, p2, p3, i1, i2, m1

(* r2 has no county: it is there for r1 to be a duplicate of. *)
KisumuOnly == r1 :> "Kisumu" @@ r2 :> None

Kisumu == r1 :> "Kisumu"

Desks == p1 :> "Kisumu" @@ p2 :> "Kisumu" @@ p3 :> "Siaya"
=============================================================================
