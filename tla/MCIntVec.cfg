SPECIFICATION Spec
CONSTANTS
  Blocks = {b1, b2}
  NULL = NULL
  Values = {10, 20}
  Garbage = garbage
  Void = void
  IntSize = 2
  Modulus = 16
  InitCaps = {0, 1, 2, 3, 8, 9, 15}
  MaxLen = 7
  AllocMayFail = TRUE
INVARIANTS
  Shape
  Amortised
  FaultOnlyIfNoCell
PROPERTY ImplementsSequence
CHECK_DEADLOCK FALSE
SYMMETRY BlockSymmetry
