----------------------------- MODULE KeyedUpload -----------------------------
(***************************************************************************)
(* What the uploads promise of one Idempotency-Key: it is reserved once,   *)
(* for one file; it ends registered with that file, failed, or set aside   *)
(* for reconciliation; and the end is final.                               *)
(***************************************************************************)
CONSTANTS Keys, Files, NoFile

VARIABLES state, registered
vars == <<state, registered>>

Init == /\ state = [k \in Keys |-> "NONE"]
        /\ registered = [k \in Keys |-> NoFile]

Reserve(k) ==
    /\ state[k] = "NONE"
    /\ state' = [state EXCEPT ![k] = "PENDING"]
    /\ UNCHANGED registered

Register(k, f) ==
    /\ state[k] = "PENDING"
    /\ state' = [state EXCEPT ![k] = "SUCCEEDED"]
    /\ registered' = [registered EXCEPT ![k] = f]

GiveUp(k, end) ==
    /\ state[k] = "PENDING"
    /\ state' = [state EXCEPT ![k] = end]
    /\ UNCHANGED registered

Next == \E k \in Keys : \/ Reserve(k)
                        \/ \E f \in Files : Register(k, f)
                        \/ \E end \in {"FAILED", "RECONCILIATION_REQUIRED"} : GiveUp(k, end)

Spec == Init /\ [][Next]_vars
=============================================================================
