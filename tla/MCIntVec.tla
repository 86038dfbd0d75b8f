------------------------------ MODULE MCIntVec ------------------------------
(* The instance of IntVec for TLC: lengths that cross two doublings.       *)
EXTENDS IntVec, TLC

BlockSymmetry == Permutations(Blocks)
=============================================================================
