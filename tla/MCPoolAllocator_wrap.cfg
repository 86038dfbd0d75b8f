SPECIFICATION Spec
CONSTANTS
  POOL_SIZE = 12
  Modulus = 32
  TypeSizes = {4}
  Counts = {1, 8, 9}
  MaxLive = 2
INVARIANT InsidePool
