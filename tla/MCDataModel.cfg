CONSTANTS
  Alphabet <- MCAlphabet
  Collation <- MCCollation
  CodeUnits <- MCCodeUnits
  Code <- MCCode
  Codecs <- MCCodecs
  Values <- MCValues
  Depth <- MCDepth
  Tasks <- MCTasks

SPECIFICATION Spec

INVARIANTS
  BytesDecodeBack
  OneEncoding
  TextParsesBack

\* A value that has been read back is the end.
CHECK_DEADLOCK FALSE
