--------------------------- MODULE MCReportStudio ---------------------------
(* Small instances of ReportStudio.  Requests are interchangeable.         *)
EXTENDS ReportStudio, TLC

CONSTANTS admin, pm, staff, ch1, t1, t2, r1, r2

RequestSymmetry == Permutations(Requests)
=============================================================================
