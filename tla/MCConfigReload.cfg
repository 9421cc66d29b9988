SPECIFICATION Spec
CONSTANTS
  any1 = any1
  lo1 = lo1
  any2 = any2
  bad = bad
  Addresses <- MCAddresses
  Wildcards <- MCWildcards
  Overlapping <- MCOverlapping
  BadPorts = {bad}
  Contents <- MCContents
  MaxServers = 10
  MaxSignals = 3
INVARIANTS
  Inv
  NoLostReload
  OneConfiguration
PROPERTIES
  NeverOlder
  ListenersUndisturbed
CHECK_DEADLOCK FALSE
