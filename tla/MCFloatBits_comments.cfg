SPECIFICATION FloatSpec
CONSTANTS
  ExpBits = 4
  FracBits = 3
INVARIANT FloatsAsCommented
