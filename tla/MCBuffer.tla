------------------------------ MODULE MCBuffer ------------------------------
(* The instance of Buffer for TLC: two or three objects, a block more than
   needed so that a freed block may or may not be the next one handed out. *)
EXTENDS Buffer, TLC

MCSizes == 0..2
MCBytes == 0..1

Symmetry == Permutations(Objects) \cup Permutations(Blocks)
=============================================================================
