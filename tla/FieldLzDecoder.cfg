SPECIFICATION MCSpec
CONSTANTS
  Value <- MCValue
  MaxChunk = 8
  CodeMax = 1
INVARIANTS
  TypeOK
  OutputIsBounded
  CopySourceExists
  RepeatsAreRecent
  AcceptsWellFormed
  OutputIsMeaning
