SPECIFICATION Spec
CONSTANTS
  Value <- MCValue
  Literals <- MCLiterals
  CodeSpan <- MCCodeSpan
  MinLiterals = 2
  EarlyDistinct = 3
  EarlyMinDuplicates = 1
  Byte <- MCByte
  ByteMax = 2
  LaneCount = 4
  LargeStream = 5
  SmallAlphabet = 2
  WideAlphabet = 3
  TinyAlphabet = 1
  Pending = Pending
INVARIANTS
  CodesNameLiterals
PROPERTIES
  RouteIsLossless
