------------------------- MODULE MCGoogleConnection -------------------------
(* Instances of GoogleConnection for TLC.                                   *)
EXTENDS GoogleConnection, TLC

CONSTANTS t1, t2, x, s1, s2, s3, r1, r2

Symmetry == Permutations(Tokens \ Foreign) \cup Permutations(States) \cup Permutations(Requests)
=============================================================================
