SPECIFICATION FairRoundTripSpec
CONSTANTS
  a = a
  b = b
  h1 = h1
  h2 = h2
  Pending = Pending
  Value <- MCValue
  Bucket <- MCBucket
  MaxChunk = 8
  CodeMax = 2
  SeedStride = 2
  DenseSpan = 4
INVARIANTS
  DecoderNeverRejects
  OutputIsPrefix
PROPERTIES
  ImplementsLosslessCodec
