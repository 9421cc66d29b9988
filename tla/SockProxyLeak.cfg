CONSTANTS
  Channels = {c1}
  MaxMessages = 1
SPECIFICATION Spec
INVARIANTS
  ReleasedWithConn
CHECK_DEADLOCK FALSE
