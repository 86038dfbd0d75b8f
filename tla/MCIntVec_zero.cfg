SPECIFICATION Spec
CONSTANTS
  Blocks = {b1, b2}
  NULL = NULL
  Values = {10}
  Garbage = garbage
  Void = void
  IntSize = 4
  Modulus = 64
  InitCaps = {0, 1}
  MaxLen = 3
  AllocMayFail = FALSE
INVARIANT PushStaysInside
SYMMETRY BlockSymmetry
