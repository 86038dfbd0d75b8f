SPECIFICATION Spec
CONSTANTS
  Nodes = {n1, n2, n3}
  NULL = NULL
  Values = {10, 20}
  Void = void
INVARIANTS
  Shape
  CursorsValid
PROPERTIES
  ImplementsSequence
  CallsReturn
CHECK_DEADLOCK FALSE
