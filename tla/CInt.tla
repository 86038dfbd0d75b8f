-------------------------------- MODULE CInt --------------------------------
(***************************************************************************)
(* int as the exercises of 00 and 01 are compiled, without optimisation:   *)
(* two's complement of Width bits (32 in the code) in which a result that  *)
(* is out of range wraps.                                                  *)
(***************************************************************************)
EXTENDS Integers

CONSTANT Width \* bits of an int

ASSUME WidthAssumption == Width \in Nat \ {0, 1, 2}

(* A fact of arithmetic, for the provers, to which ^ has no meaning.       *)
ASSUME PowerAssumption ==
  2 ^ (Width - 1) \in Nat \ {0} /\ 2 ^ Width = 2 * 2 ^ (Width - 1)

IntMin == -(2 ^ (Width - 1))
IntMax == 2 ^ (Width - 1) - 1
Ints   == IntMin .. IntMax

(* The int that an exact result is stored as.                              *)
Wrap(v) == ((v - IntMin) % 2 ^ Width) + IntMin

(* abs() of the C library, which cannot represent -IntMin.                 *)
abs(v) == IF v < 0 THEN Wrap(-v) ELSE v
=============================================================================
