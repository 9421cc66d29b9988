CONSTANTS
  Apps = {a1, a2}
  Schedulers = {s1, s2, s3}
  Workers = {w1, w2, w3}
  MaxClients = 1
  None = None
  IdleReaping = TRUE
SYMMETRY Symmetry
SPECIFICATION Spec
INVARIANTS
  IInv
  WorkersReachable
PROPERTIES
  ReadyWorkersSignalled
CHECK_DEADLOCK FALSE
