CONSTANTS
  Conns <- MCConns
  Closers <- MCClosers
  Messages <- MCMessages
  Requests <- MCRequests
  Hello = "Subscribe"
  Bye = "Close"
  MaxUplink = 2

SPECIFICATION FairSpec

INVARIANTS
  TypeOK
  InOrderDelivery
  NoMessageVanishes

PROPERTIES
  StopResolves
  MessagesReachListeners

CHECK_DEADLOCK FALSE
