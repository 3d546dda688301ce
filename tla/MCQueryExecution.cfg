CONSTANTS
  Iterations <- MCIterations
  Row <- MCRow
  Tables <- MCTables
  ModesOf <- MCModesOf
  FetchSize = 2
  MaxWidth = 2

SPECIFICATION FairSpec

INVARIANTS
  TypeOK
  YieldsSnapshotPrefix
  EndMeansComplete
  CursorInStep
  SingleMeansSingle

PROPERTIES
  PromiseSettles

CHECK_DEADLOCK FALSE
