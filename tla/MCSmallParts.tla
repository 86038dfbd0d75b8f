---------------------------- MODULE MCSmallParts ----------------------------
(***************************************************************************)
(* The instance for TLC of the single-threaded C functions, which share no *)
(* state: one part is chosen and runs, the others stay as they are.        *)
(***************************************************************************)
EXTENDS Bits, FloatBits, Entity, Arrays, CStrings

VARIABLE part

vars == <<part, bitsVars, f, entityVars, arrayVars, stringVars>>

MCMaxHps == {1, 3, 7}
MCAmounts == 0..7
MCCoords == {-8, 0, 7}
MCDeltas == {-3, 5}
MCItems == {-5, 0, 3}
MCChars == {-1, 0, 1}

NoBits == x = 0 /\ y = 0 /\ z = 0
NoFloat == f = 0
NoEntity ==
  /\ hp = 1 /\ max_hp = 1 /\ alive = TRUE
  /\ px = 0 /\ py = 0
  /\ overflowed = FALSE

Init ==
  /\ ArraysInit /\ StringsInit
  /\ \/ part = "bits" /\ BitsInit /\ NoFloat /\ NoEntity
     \/ part = "float" /\ FloatInit /\ NoBits /\ NoEntity
     \/ part = "entity" /\ EntityInit /\ NoBits /\ NoFloat
     \/ part \in {"arrays", "strings"} /\ NoBits /\ NoFloat /\ NoEntity

InStrings(A) ==
  part = "strings" /\ A /\ UNCHANGED <<part, bitsVars, f, entityVars, arrayVars>>

Next ==
  \/ part = "bits" /\ BitsNext /\ UNCHANGED <<part, f, entityVars, arrayVars, stringVars>>
  \/ part = "float" /\ FloatNext
     /\ UNCHANGED <<part, bitsVars, entityVars, arrayVars, stringVars>>
  \/ part = "entity" /\ EntityNext
     /\ UNCHANGED <<part, bitsVars, f, arrayVars, stringVars>>
  \/ part = "arrays" /\ ArraysNext
     /\ UNCHANGED <<part, bitsVars, f, entityVars, stringVars>>
  \/ InStrings(StringsNext)

Spec == Init /\ [][Next]_vars /\ WF_vars(InStrings(LoopStep))
=============================================================================
