-------------------------- MODULE MCReportApproval --------------------------
(* A small instance of ReportApproval.  Its requests are interchangeable;  *)
(* the accounts are not, they differ in their roles and assignments.       *)
EXTENDS ReportApproval, TLC

CONSTANTS admin, ceo, director, pm, staff, k1, k2, r1, r2

RequestSymmetry == Permutations(Requests)
=============================================================================
