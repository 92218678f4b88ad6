------------------------- MODULE MCReportAuthoring -------------------------
(* Small instances of ReportAuthoring.  Its requests are interchangeable.  *)
EXTENDS ReportAuthoring, TLC

CONSTANTS admin, pm, ch1, ch2, k1, r1, r2

(* What happens together: nothing goes wrong; the outline is not read;     *)
(* evidence and rules under every failure.                                 *)
SomeWorlds == {{"prompt", "feedback"},
               {"prompt", "unread", "lost", "suspend"},
               {"feedback", "bridge", "lost", "suspend"}}

RequestSymmetry == Permutations(Requests)
=============================================================================
