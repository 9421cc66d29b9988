CONSTANTS
  Apps = {a1}
  Schedulers = {s1, s2, s3}
  Workers = {w1, w2, w3}
  MaxClients = 1
  None = None
  IdleReaping = TRUE
SPECIFICATION Spec
PROPERTIES
  OnlyVacantSchedulersDropped
CHECK_DEADLOCK FALSE
