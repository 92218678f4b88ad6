---------------------------- MODULE MCDriveUpload ----------------------------
(* Instances of DriveUpload for TLC.                                        *)
EXTENDS DriveUpload

CONSTANTS u1, k1, k2, f1, f2, r1, r2
=============================================================================
