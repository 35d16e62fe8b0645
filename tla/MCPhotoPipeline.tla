--------------------------- MODULE MCPhotoPipeline ---------------------------
(* Small instances of PhotoPipeline for TLC. *)
EXTENDS PhotoPipeline, TLC

CONSTANTS r1, p1, p2, w1, w2, c1, c2

OneReport == p1 :> r1 @@ p2 :> r1
Peers == Permutations(Worker) \cup Permutations(Client) \cup Permutations(Photo)
=============================================================================
