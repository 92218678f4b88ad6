----------------------------- MODULE MCAccounts -----------------------------
(* Small instances of Accounts.  Requests are interchangeable, and so are  *)
(* administrators, passwords and applications.                             *)
EXTENDS Accounts, TLC

CONSTANTS a1, a2, u1, w1, w2, w3, t1, t2, app1, app2, r1, r2

(* Who gets an account; who may log in; what the password is.              *)
SomeScopes == {{"create", "apply", "APPROVED", "REJECTED"},
               {"login", "ACTIVATE", "DEACTIVATE"},
               {"login", "password", "RESET"},
               {"password", "RESET", "DEACTIVATE"}}

AccountsSymmetry == 
    Permutations(Requests) \cup Permutations(Admins) \cup Permutations(Passwords)
        \cup Permutations(Applications)
=============================================================================
