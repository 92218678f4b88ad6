------------------------------ MODULE MCAward ------------------------------
(* Small instances of Award.  Requests are interchangeable where no        *)
(* liveness is checked.                                                    *)
EXTENDS Award, TLC

CONSTANTS p1, p2, r1, r2

(* The bridge works and no handler is lost; handlers are lost; no bridge.  *)
SomeWorlds == {<<TRUE, TRUE>>, <<TRUE, FALSE>>, <<FALSE, FALSE>>}

RequestSymmetry == Permutations(Requests) \cup Permutations(Proposals)
=============================================================================
