SPECIFICATION Spec
CONSTANTS
  Value <- MCValue
  MaxChunk = 7
  CodeMax = 1
  Modulus = 4
  LowMax = 0
  HighMin = 3
  MinLiteralOnly = 4
  SampleMin = 4
  SampleLen = 2
  SampleCount = 1
  Pending = Pending
INVARIANTS
  RoutesFitShapes
PROPERTIES
  ChunkIsRestored
