---------------------------- MODULE MCHybridRing ----------------------------
(***************************************************************************)
(* HybridRing for TLC.                                                     *)
(***************************************************************************)
EXTENDS HybridRing, TLC

Symmetry == Permutations(Keys)

=============================================================================
