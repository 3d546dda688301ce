CONSTANTS
  Schemas <- MCSchemas
  Tokens <- MCTokens
  Unsuffixed <- MCUnsuffixed
  Ids <- MCIds
  MaxNesting = 4

SPECIFICATION CodegenSpec

INVARIANTS
  LoadsCleanly
  NothingDangles
  NeverExactly
