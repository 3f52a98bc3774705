SPECIFICATION MCSpec
CONSTANTS
  Value = {1, 2}
  MaxChunk = 2
INVARIANTS
  DecoderTypeOK
  AcceptsExactFrames
