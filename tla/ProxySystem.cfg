CONSTANTS
  Channels = {c1}
  MaxMessages = 2
  Requests = {r1}
SPECIFICATION FairSystem
INVARIANTS
  IInv
  SocketsAreCounted
  MessagesPassedOn
  HttpInv
PROPERTIES
  ReleasedOnClose
  EveryoneIsTold
CHECK_DEADLOCK FALSE
