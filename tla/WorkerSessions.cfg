CONSTANTS
  Requests = {r1, r2}
  Conns = {c1, c2, c3}
  MaxRequests = 2
  IdleReaping = TRUE
  UrlKinds = {"root", "rootForWorker", "document", "asset"}
SPECIFICATION FairSpec
INVARIANTS
  IInv
  DueTimerAtFront
PROPERTIES
  NeverReapedInUse
  ImplementsSessionPool
  WorkerLeavesTable
  ReservationsExpire
CHECK_DEADLOCK FALSE
