CONSTANTS
  Requests = {r1}
  Conns = {c1}
  MaxRequests = 1
  IdleReaping = TRUE
  UrlKinds = {"root", "document", "asset"}
SPECIFICATION FairSpec
PROPERTIES
  NoProcessRunsForever
CHECK_DEADLOCK FALSE
