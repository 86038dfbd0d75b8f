SPECIFICATION Spec
\* A string function that leaves its buffer stops the program.
CHECK_DEADLOCK FALSE
CONSTANTS
  Width = 4
  ExpBits = 4
  FracBits = 3
  MaxHps <- MCMaxHps
  Amounts <- MCAmounts
  Coords <- MCCoords
  Deltas <- MCDeltas
  Items <- MCItems
  MaxN = 4
  Size = 5
  IntHalf = 4
  Chars <- MCChars
INVARIANTS
  BitsExact
  FloatsExact
  EntityExact
  ArraysExact
  FaultOnlyIfUnsafe
  ReadersExact
PROPERTIES
  DeathIsFinal
  ReverseReturns
  CopyExact
  CallsEnd
