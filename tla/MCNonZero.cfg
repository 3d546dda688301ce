CONSTANTS
  Alphabet <- MCAlphabet
  Collation <- MCCollation
  CodeUnits <- MCCodeUnits
  Code <- MCCode
  Codecs <- MCCodecs
  Values <- MCValues
  Depth <- MCDepth
  Tasks <- MCTasks

SPECIFICATION Spec

INVARIANT NonZeroIsNotZero

CHECK_DEADLOCK FALSE
