SPECIFICATION Spec
CONSTANTS
  Objects = {o1, o2}
  Blocks = {b1, b2}
  NULL = NULL
  Sizes <- MCSizes
  Bytes <- MCBytes
  MaxCount = 2
  CopyAssignMayThrow = FALSE
  SelfCopy = TRUE
PROPERTY ImplementsValues
SYMMETRY Symmetry
