SPECIFICATION Spec
CONSTANTS
  Value <- MCValue
  Input <- MCInput
  MaxChunk = 5
  RefinedChunk = 2
  DictCap = 2
  MinHead = 3
  MinTail = 2
  Pending = Pending
INVARIANTS
  RangesTileInput
  CutHeadFitsCode
PROPERTIES
  ImplementsLosslessCodec
