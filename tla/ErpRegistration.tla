--------------------------- MODULE ErpRegistration ---------------------------
(***************************************************************************)
(* What accepting a proposal promises the ERP: a case is awarded to one    *)
(* proposal for good, the ERP learns of that proposal and of no other, and *)
(* the registration is confirmed only after the ERP has it.                *)
(***************************************************************************)
CONSTANTS Proposals, NoProposal

VARIABLES
    awarded,    \* the proposal the case was awarded to
    registered, \* the proposal the ERP has a project for
    confirmed   \* the registration is recorded as done

registration == <<awarded, registered, confirmed>>

Award(p) ==
    /\ awarded = NoProposal
    /\ awarded' = p
    /\ UNCHANGED <<registered, confirmed>>

Register ==
    /\ awarded # NoProposal
    /\ registered' = awarded
    /\ UNCHANGED <<awarded, confirmed>>

Confirm ==
    /\ registered = awarded /\ awarded # NoProposal
    /\ confirmed' = TRUE
    /\ UNCHANGED <<awarded, registered>>

Init == awarded = NoProposal /\ registered = NoProposal /\ confirmed = FALSE
Next == (\E p \in Proposals : Award(p)) \/ Register \/ Confirm
Spec == Init /\ [][Next]_registration
=============================================================================
