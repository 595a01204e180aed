---------------------------- MODULE MCAtomicSave ----------------------------
(***************************************************************************)
(* Small instances of AtomicSave: a short document and a longer one.       *)
(***************************************************************************)
EXTENDS AtomicSave, TLC

CONSTANTS short, long

ShortAndLong == {short, long}
Lengths == short :> 1 @@ long :> 2

MCSymmetry == Permutations(Inodes)
=============================================================================
