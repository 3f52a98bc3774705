SPECIFICATION ReaderSpec
CONSTANTS
  Radix = 4
  MaxBytes = 3
  LastMax = 1
  Word = 32
  Bytes <- MCBytes
INVARIANTS
  AcceptsOnlyWritten
PROPERTIES
  ReaderAdvances
