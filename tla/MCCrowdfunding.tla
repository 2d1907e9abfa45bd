--------------------------- MODULE MCCrowdfunding ---------------------------
(***************************************************************************)
(* Instances of Crowdfunding for TLC.                                      *)
(***************************************************************************)
EXTENDS Crowdfunding, TLC

CONSTANTS r1, r2, r3, c1

RequestSymmetry == Permutations({r1, r2, r3})
=============================================================================
