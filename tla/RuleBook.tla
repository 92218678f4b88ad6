------------------------------ MODULE RuleBook ------------------------------
(***************************************************************************)
(* What the memory of report authoring promises.  A rule is proposed once; *)
(* a reviewer approves or rejects it, an approved one can be switched off  *)
(* for good.  The record of a use is written once, in one piece, and only  *)
(* of rules that are approved at that moment.                              *)
(***************************************************************************)
CONSTANTS Rules, Uses

VARIABLES standing, used

vars == <<standing, used>>

Standing == {"PENDING", "ACTIVE", "REJECTED", "DISABLED"}
Active == {k \in DOMAIN standing : standing[k] = "ACTIVE"}

Init == /\ standing = [k \in {} |-> "PENDING"]
        /\ used = [g \in {} |-> {}]

Propose(k) ==
    /\ k \notin DOMAIN standing
    /\ standing' = [j \in DOMAIN standing \cup {k} |->
                      IF j = k THEN "PENDING" ELSE standing[j]]
    /\ UNCHANGED used

Turn(k, from, to) ==
    /\ k \in DOMAIN standing /\ standing[k] = from
    /\ standing' = [standing EXCEPT ![k] = to]
    /\ UNCHANGED used

Use(g, rules) ==
    /\ g \notin DOMAIN used /\ rules \subseteq Active
    /\ used' = [h \in DOMAIN used \cup {g} |-> IF h = g THEN rules ELSE used[h]]
    /\ UNCHANGED standing

Next ==
    \/ \E k \in Rules :
          \/ Propose(k)
          \/ Turn(k, "PENDING", "ACTIVE") \/ Turn(k, "PENDING", "REJECTED")
          \/ Turn(k, "ACTIVE", "DISABLED")
    \/ \E g \in Uses, rules \in SUBSET Rules : Use(g, rules)

Spec == Init /\ [][Next]_vars
=============================================================================
