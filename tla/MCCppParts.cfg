SPECIFICATION PartsSpec
CONSTANTS
  POOL_SIZE = 12
  Modulus = 32
  TypeSizes = {1, 4}
  Counts = {0, 1, 2, 3}
  MaxLive = 3
  Objects = {o1, o2, o3}
  Blocks = {b1, b2, b3}
  NULL = NULL
  Sizes <- MCSizes
  MaxGuards = 4
  SYMBOL_TABLE <- MCTable
  Letters = {"A", "G", "M", "P", "S"}
  MaxNameLen = 3
  Elapsed = {0, 1, 2, 5}
  MaxSamples = 4
  Permilles = {0, 10, 250, 500, 750, 990, 999, 1000}
  N = 5
  LINEAR_SCAN_CAP = 2
  IntMax = 9
  LongMax = 20
INVARIANTS
  Disjoint
  SizeMatches
  CleanupOnce
  SymbolIdExact
  PercentileRanks
  SameData
  RowsComparable
PROPERTY ImplementsOwnership
