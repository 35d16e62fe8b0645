--------------------------- MODULE ReportLifecycle ---------------------------
(***************************************************************************)
(* What report curation promises of one report, whatever runs at the same  *)
(* time: it is published pending, either as an original or as a duplicate  *)
(* of one; only an undecided original is ever verified automatically, and  *)
(* nothing else but a moderator changes a report.                          *)
(***************************************************************************)
CONSTANTS Report, Moderator, None

ModeratedByAuto == "auto"
Absent == [status |-> "absent", moderatedBy |-> None, duplicateOf |-> None]

VARIABLE life   \* the status, decider and original of each report

Published(r) == life[r].status # "absent"

Become(r, s, by, original) ==
    life' = [life EXCEPT ![r] = [status |-> s, moderatedBy |-> by, duplicateOf |-> original]]

Init == life = [r \in Report |-> Absent]

Publish(r) ==
    /\ ~Published(r)
    /\ \/ Become(r, "pending", None, None)
       \/ \E o \in Report \ {r} :
            /\ Published(o)
            /\ life[o].duplicateOf = None
            /\ Become(r, "pending", None, o)

AutoVerify(r) ==
    /\ life[r] = [status |-> "pending", moderatedBy |-> None, duplicateOf |-> None]
    /\ Become(r, "verified", ModeratedByAuto, None)

Decide(m, r) ==
    /\ Published(r)
    /\ \E original \in {None, life[r].duplicateOf} :
         \/ \E s \in {"verified", "rejected"} : Become(r, s, m, original)
         \/ Become(r, "pending", None, original)

Next ==
    \E r \in Report : \/ Publish(r)
                      \/ AutoVerify(r)
                      \/ \E m \in Moderator : Decide(m, r)

Spec == Init /\ [][Next]_life
=============================================================================
