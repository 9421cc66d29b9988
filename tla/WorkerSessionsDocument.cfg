CONSTANTS
  Requests = {r1, r2, r3}
  Conns = {c1}
  MaxRequests = 1
  IdleReaping = TRUE
  UrlKinds = {"root", "document", "asset"}
SPECIFICATION Spec
INVARIANTS
  ReservationsWithinLimit
CHECK_DEADLOCK FALSE
