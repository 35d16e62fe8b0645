-------------------------- MODULE MCReportCuration --------------------------
(* Small instances of ReportCuration for TLC. *)
EXTENDS ReportCuration, TLC

CONSTANTS r1, r2, r3, m1, m2, i1, i2, a1, a2

Sub(a, t, p) ==
    [account |-> a, group |-> "water", text |-> t, place |-> p, approximate |-> FALSE,
     county |-> "Kisumu", photo |-> FALSE]

WithPhoto(c) == [c EXCEPT !.photo = TRUE]

(* Jaccard similarity is not transitive: t1 ~ t2 ~ t3, but not t1 ~ t3. *)
NearTexts ==
    {<<"t1", "t1">>, <<"t2", "t2">>, <<"t3", "t3">>,
     <<"t1", "t2">>, <<"t2", "t1">>, <<"t2", "t3">>, <<"t3", "t2">>}

(* Two accounts report the same flood, one of them with a photo. *)
Pair == r1 :> {WithPhoto(Sub(a1, "t1", 0))} @@ r2 :> {Sub(a2, "t3", 0)}

(* An account's two reports of one flood, the second of them perhaps a copy *)
(* of the first, and an anonymous neighbour, who perhaps copies that copy.  *)
Loner ==
    r1 :> {WithPhoto(Sub(a1, "t1", 0))}
    @@ r2 :> {Sub(a1, "t3", 2), Sub(a1, "t2", 0)}
    @@ r3 :> {Sub(None, "t3", 0)}

(* A report, and another account's report of the same flood or copy of it. *)
Copied ==
    r1 :> {Sub(a2, "t3", 0)}
    @@ r2 :> {WithPhoto(Sub(a1, "t1", 0)), WithPhoto(Sub(a1, "t3", 0))}

Peers == Permutations(Moderator) \cup Permutations(Instance)
=============================================================================
