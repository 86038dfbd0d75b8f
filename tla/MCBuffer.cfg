SPECIFICATION Spec
CONSTANTS
  Objects = {o1, o2, o3}
  Blocks = {b1, b2, b3}
  NULL = NULL
  Sizes <- MCSizes
  Bytes <- MCBytes
  MaxCount = 2
  CopyAssignMayThrow = TRUE
  SelfCopy = TRUE
INVARIANT OwnedOnce
PROPERTY ValuesUnlessExcused
CHECK_DEADLOCK FALSE
SYMMETRY Symmetry
