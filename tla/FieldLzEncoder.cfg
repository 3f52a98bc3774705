SPECIFICATION FairSpec
CONSTANTS
  a = a
  b = b
  h1 = h1
  h2 = h2
  Value <- MCValue
  Bucket <- MCBucket
  MaxChunk = 8
  CodeMax = 2
  SeedStride = 2
  DenseSpan = 4
INVARIANTS
  TypeOK
  TableBehindCursor
  StreamsMeanInput
  MarksFollowStreams
  TokensDescribeInput
  WithinDecoderLimits
  NeverFails
PROPERTIES
  Terminates
