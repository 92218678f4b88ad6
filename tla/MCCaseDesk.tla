----------------------------- MODULE MCCaseDesk -----------------------------
(* Small instances of CaseDesk, and of the ProjectSchedule in it.          *)
(* Requests, dates, changes, texts and keys are interchangeable.           *)
EXTENDS CaseDesk, TLC

CONSTANTS admin, pm1, pm2, s1, d1, d2, c1, r1, r2, t1, t2, k1

SomeScopes == {{}, {"profile", "save", "change", "APPROVED", "REJECTED"}, {"profile", "hide"}}

(* Stages and their changes, and hiding, each with hand-overs of the PM;   *)
(* the desk's handlers one kind at a time, with and without equal stamps.  *)
SomeWorlds ==
    {<<scopes, {}>> : scopes \in SomeScopes \ {{}}}
    \cup {<<{}, handlers>> : handlers \in {{"kickoff"}, {"kickoff", "tie"}, {"survey"}, {"survey", "tie"},
                                           {"keyed"}, {"catalog"}, {"status"}}}

SurveyWorld == {<<{}, {"survey"}>>}

DeskSymmetry == Permutations(Requests) \cup Permutations(Dates) \cup Permutations(Texts)
=============================================================================
