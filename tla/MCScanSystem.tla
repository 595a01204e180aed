---------------------------- MODULE MCScanSystem ----------------------------
(***************************************************************************)
(* Small trees for ScanSystem.                                             *)
(***************************************************************************)
EXTENDS ScanSystem, TLC

\* A directory with one subdirectory.
Pair == 1 :> {1, 2} @@ 2 :> {2}
=============================================================================
