CONSTANTS
  MaxConns = 3
  MaxMessages <- MCMaxMessages
SPECIFICATION FairSpec
INVARIANTS
  Inv
PROPERTIES
  ImplementsReliableStream
  EndsOnlyIfDisconnected
  EventuallyDiscarded
CHECK_DEADLOCK FALSE
