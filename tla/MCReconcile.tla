---------------------------- MODULE MCReconcile ----------------------------
(***************************************************************************)
(* Small directories for Reconcile: a few names in a fixed order, inodes   *)
(* that are interchangeable.                                               *)
(***************************************************************************)
EXTENDS Reconcile, TLC

AllSubsets == SUBSET Names
SecondAndFourth == {{2, 4}}

MCSymmetry == Permutations(Inodes)
=============================================================================
