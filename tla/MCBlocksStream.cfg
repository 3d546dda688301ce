CONSTANTS
  Stream = "stream"
  Closers <- MCClosers
  FromHeight = 2
  MaxHeight = 4
  MaxCalls = 4

SPECIFICATION FairSpec

INVARIANTS
  TypeOK
  OneOutstanding
  NoBlockDropped

PROPERTIES
  ImplementsFeed
  CloseReleasesWaiter
  CommittedBlockArrives

CHECK_DEADLOCK FALSE
