--------------------------- MODULE ApprovalLedger ---------------------------
(***************************************************************************)
(* What review and final output promise of one case's report.  Versions    *)
(* only grow; a version is reviewed once; at most one review is open;      *)
(* only the latest version can be approved or finalized; a verdict and a   *)
(* finalization are never taken back.                                      *)
(***************************************************************************)
EXTENDS Naturals

VARIABLES latest, verdict, final

vars == <<latest, verdict, final>>

Open == {v \in DOMAIN verdict : verdict[v] = "PENDING"}

Init == /\ latest = 0
        /\ verdict = [v \in {} |-> "PENDING"]
        /\ final = {}

Edit == /\ latest' = latest + 1
        /\ UNCHANGED <<verdict, final>>

Request(v) ==
    /\ v \in 1..latest /\ v \notin DOMAIN verdict /\ Open = {}
    /\ verdict' = [w \in DOMAIN verdict \cup {v} |->
                     IF w = v THEN "PENDING" ELSE verdict[w]]
    /\ UNCHANGED <<latest, final>>

Approve(v) ==
    /\ v \in Open /\ v = latest
    /\ verdict' = [verdict EXCEPT ![v] = "APPROVED"]
    /\ UNCHANGED <<latest, final>>

SendBack(v) ==
    /\ v \in Open
    /\ verdict' = [verdict EXCEPT ![v] = "CHANGES_REQUESTED"]
    /\ UNCHANGED <<latest, final>>

Finalize(v) ==
    /\ v = latest /\ v \in DOMAIN verdict /\ verdict[v] = "APPROVED" /\ v \notin final
    /\ final' = final \cup {v}
    /\ UNCHANGED <<latest, verdict>>

Next == \/ Edit
        \/ \E v \in 1..latest : Request(v) \/ Approve(v) \/ SendBack(v) \/ Finalize(v)

Spec == Init /\ [][Next]_vars
=============================================================================
